# Mingle, modelled in TLA+

This directory is a verification project for the Mingle back end (a social
network's HTTP API in Go, `src/cmd` and `src/internal`, with PostgreSQL, Redis
and an SMTP server behind it). It holds TLA+ modules translated from the
source, TLC models of them, and proofs checked by TLAPS.

Every handler of this program is a short sequence of database statements, each
with its own timeout and few of them in one transaction. What is hard to test
is what happens *between* the statements: other handlers, a crash, a statement
that was applied although it reported an error, a value read earlier and used
later. That is what the modules model. Texts, hashes, encodings and layouts are
left out except where a decision depends on them.

Contents: [the system](#the-system) · [plan](#plan) ·
[modules](#the-modules) · [runs](#the-runs) ·
[disagreements](#where-code-and-documentation-disagree) ·
[proofs](#the-proofs) · [limits](#what-is-not-covered)

## The system

### Components

| Component | Source | State | Operations |
|---|---|---|---|
| Rate limiter | `internal/ratelimiter`, `RateLimiterMiddleware` | in-memory map client → count, one sleeping goroutine per fresh entry | `Allow`, `resetCount` |
| Posts | `cmd/api/posts.go`, `postContextMiddleware`, `checkPostOwnership`, `internal/store/posts.go`, `roles.go` | table `posts` with a `version` column | create, get, patch, delete |
| Accounts | `registerUserHandler`, `activateUserHandler`, `internal/store/users.go`, `internal/mailer` | tables `users`, `user_invitations`; a mail goroutine per registration | register, send with retries, roll back, activate |
| Sessions and tokens | `signInHandler`, `refreshToken`, `internal/store/sessions.go`, `auth_token.go` | table `sessions`; PASETO tokens held by clients only | sign in, refresh, validate, extend, invalidate |
| Users as requests see them | `getUser`, `AuthTokenMiddleware`, `userContextMiddleware`, `internal/store/cache` | Redis keys `user-<id>` with a one-minute lifetime | get, set |
| Followers | `internal/store/followers.go` | table `followers` | follow, unfollow |
| Feed and pagination | `cmd/api/feed.go`, `paginate.go`, `filters.go`, `GetUserFeed` | none of its own | read page after page |
| Comments | `internal/store/comments.go` | table `comments`, written by nothing in the API | read |
| Connection pool | `internal/db`, `withTx`, `CreateAndInvite`, `Delete` | at most 30 connections, a queue of requests | begin, commit, roll back, run a statement |
| Server lifecycle | `cmd/api/api.go`, `main.go` | listener, signal channel | serve, shut down |
| JSON, validation, errors, health, docs, configuration | rest of `cmd/api`, `validator`, `env` | none | |

### How they interact

- A request passes the rate limiter, then for the authenticated routes
  `AuthTokenMiddleware` (which turns an access token into a user through
  `getUser`), then a context middleware that reads the post or user of the
  path, then perhaps the ownership check, then the handler. Each of these
  stages keeps what it read in the request's context; nothing is locked
  in between.
- **Accounts → Users as requests see them.** Activation and the removal of a
  user change the `users` table only. The cache is never invalidated.
- **Accounts → Sessions, Followers.** The removal of a user cascades to
  `followers`; `sessions` has no foreign key and keeps its rows, which only the
  join in `ValidateSession` hides.
- **Users as requests see them → Followers.** Caller and path are looked up before
  the statement, perhaps in the cache; the keys of the table have the last word.
- **Posts, Followers → Feed.** A page is one SELECT over both tables; nothing
  ties one page to the next.
- **Sessions → Users.** An access token carries a user id and a session id; the
  middleware decrypts it and never looks at the session again.
- **Accounts → mail.** The 201 is written first, the mail is sent by a
  goroutine that deletes the user again when all attempts fail.
- **Server → all.** The server's write timeout (30 s) decides whether an answer
  still reaches the client. `serve` returns as soon as the listener is closed,
  so `main` ends under running handlers and mail goroutines.
- **Pool → all.** A transaction holds a connection; `CreateAndInvite` takes a
  second one while it holds the first. A connection that comes back goes to one
  of those who wait, and a goroutine of `database/sql` returns it when the
  context of a transaction ends.

### What is hard, and what makes each component correct

| Component | Hard behaviour | It is correct when |
|---|---|---|
| Rate limiter | check under the read lock, count under the write lock; a reset decided on a stale read | the overshoot of a window is bounded; a client that was refused is let in again |
| Posts | read, permit and write are three statements; writes may be applied and yet fail | no lost update; no effect without permission; a 409 is never given when nobody interfered; a deleted post stays deleted |
| Accounts | user row committed outside the transaction; mail delivered by an attempt that "failed"; crash between steps | no useless invitations, no user left behind without a fault, nobody told "active" loses the account except through a lost acknowledgement |
| Sessions | row judged in one statement and deleted in another; tokens that nobody can revoke; answers after the write deadline; sessions that outlive their user | tokens work while their session and its user live, and not (much) longer |
| User cache | stale reads stored after newer ones; Redis and database fail independently | what a request runs as is at most `TTL + MaxDelay` old, and the cache converges |
| Followers | follow, unfollow and the removal of a user race; the effect comes without the answer | the handlers are atomic as clients see them; answers and relation balance; no row about nobody |
| Feed and pagination | tables change between two pages; ties in the order; results that break off; page arithmetic with overflow; lost conversion errors | a reader of all pages gets every post once, unless one of a few named things happened; pages tile the feed |
| Connection pool | a hold-and-wait cycle at the pool's limit; commit, rollback and the end of the context race | no connection is lost; a standstill takes as many registrations as connections; everybody ends |

`PROJECT.json` lists each hazard at its line with the properties that watch it.

## Plan

Order of work, and what is left of it.

1. **RateLimiter** + `RateLimiterProofs` — *done*. Smallest component with real
   interleavings.
2. **AtomicPosts** (abstract) and **Posts** (detailed) + `PostsProofs` — *done*.
   The core resource of the API; refinement by the identity mapping.
3. **Accounts** + `AccountsProofs` — *done*.
4. **UserCache** + `UserCacheProofs` — *done*.
5. **Sessions** + `SessionsProofs` — *done*, with the removal of the user by
   Accounts.
6. **ConnPool** + `ConnPoolProofs` — *done*.
7. **FollowGraph** (abstract), **Followers** (detailed) + `FollowersProofs` —
   *done*; the cache's stale lookups and the removal of users are in it.
8. **Pagination** (operators) and **Feed** + `FeedProofs` — *done*.

How Accounts, UserCache, Sessions and Followers meet in one `users` table is
modelled at each of them: `Change` in UserCache, `RemoveUser` in Sessions and
Followers are the removal that is `Rollback` in Accounts. A single product of
the four would add no step that one of them does not have; what they promise
together is said under [Sessions](#sessions).

Every invariant and every action property that a run checks is now also a
theorem. Still worth proving: that a limiter entry with a pending reset keeps it
until the reset runs, the safety half of `ScheduledClientReadmitted`; that the
cache entry a settled row ends up with is right, that of `CacheConverges`; and an
abstract registration that Accounts implements.

## The modules

| Module | Role |
|---|---|
| `RateLimiter` | the limiter and its middleware |
| `RateLimiterProofs` | theorems about it |
| `AtomicPosts` | what the posts API promises: atomic requests |
| `Posts` | the handlers, EXTENDS `AtomicPosts` and implements it |
| `PostsProofs` | theorems about both |
| `Accounts` | registration, mail, rollback, activation |
| `AccountsProofs` | theorems about it |
| `Followers` | follow and unfollow, implements `FollowGraph` |
| `FollowGraph` | what they promise: atomic requests on a relation |
| `FollowersProofs` | theorems about both |
| `Pagination` | query parameters, offset, limit and metadata, as operators |
| `Feed` | the feed's SELECT and a client who reads it page by page |
| `FeedProofs` | theorems about both |
| `ConnPool` | registrations and the connection pool |
| `ConnPoolProofs` | theorems about it |
| `UserCache` | `getUser` and the Redis cache |
| `UserCacheProofs` | theorems about it |
| `Sessions` | sign-in, refresh, lifetimes of tokens |
| `SessionsProofs` | theorems about it |
| `MC*` | instances for TLC, one per component |

The source lines that each definition stands for are in `PROJECT.json` under
`map`. Conventions: names of actions follow the code's functions; a statement
or a critical section is one action; the failure of a statement is an action of
its own (`...Fails`), and where a write can be applied although it failed, that
is one of its outcomes. Operators called `...OffByOne`, `Forgotten...` and the
like next to the definition they resemble are mutants: plausible bugs, used only
to show that a property can fail.

### RateLimiter

`clients[ip]` is the stored count (0: no entry). `Read` is the critical
section under `RLock` that lets a request through, `Deny` the same section
followed by the 429, `Admit` the section under `Lock`. `sawNone` holds the
handlers whose read found no entry: they are the ones that start a `resetCount`
(`sleepers`), whatever the map holds by then. `ResetCount` deletes the entry.
Time is abstracted to order: a sleep ends at any moment.

### AtomicPosts and Posts

`AtomicPosts` has the table, the id sequence and each client's answer. A
request takes effect in one step, if its caller may; a refusal has no effect;
after `error` the client does not know.

`Posts` adds what a handler carries: `pc`, the kind of request, the path's id
and the `post` in the request's context. `Load` is `postContextMiddleware`,
`Permit`/`Forbid` is `checkPostOwnership` (a failing role lookup is taken for a
missing permission, so `Forbid` is possible for any non-author), `Update`,
`Conflict`, `UpdateFails` are `updatePostHandler` with
`UPDATE ... WHERE version = $4`, and so on. The written row has both fields
from the request's copy, as the statement does (`Overwritten`).
`overtaken` is a history variable: the requests that held a post when another
request's write of it took effect.

The tags column matters in one respect: with no tags the INSERT stores NULL,
with an empty list the JSON object `{}`, which `GetById` then fails to
decode; a non-empty list is refused by the database.

### Accounts

A registration passes `new → created → mailing → rollback → done`. `Create`
is the INSERT, effective at once because it runs on the pool and not in the
transaction; `Invite` is the invitation, the commit and the 201; `MailSent` and
`MailFails` are one attempt of `Send`, the latter with or without delivery;
`Rollback` is `Delete`. An activation reads the invitation
(`ReadInvitation`) and then writes (`Activate`). `Crash` ends every handler and
goroutine. `lostAck` and `broken` are histories: who was delivered by a failed
attempt, and what a fault cut short.

### UserCache

`getUser` is `Call`, then `Hit`, `Miss` or `GetFails`, then `Query` or
`QueryFails`, then `Set` or `SetFails`. `Change` is what Accounts does to a
row, `Tick` the clock. `since[u][s]` measures how long ago the row was last in
state `s`, up to `Horizon`, beyond which nothing is told apart.

### Sessions

Tokens are not stored by the server; `refreshTokens` and `accessUntil` are what
clients have received. `Refresh`, `Check`, `Invalidate`, `Extend` and
`RefreshReplies` are the steps of `refreshToken` and `ValidateSession`, with the
handler's copy of the row in between. `Scanned` forgets the version, because
`ValidateSession` does not select it. A reply is received only within
`WriteTimeout` of the request.

`NumericDate` is what the payloads of tokens do to their expiry: it is cut to a
whole second, of `Second` ticks, while the expiry of a row keeps its fraction. A
refresh token says an earlier end than its session has, by less than a second.

The module holds the sessions of one user; those of different users share
nothing. `RemoveUser` is the removal of that user by a registration whose mail
could not be sent. The rows of `sessions` stay (`Stored`), but the join no
longer finds them (`Matches`); a sign-in that had read the user still inserts
one and hands out tokens.

Together with UserCache: a client of a removed user holds an access token for at
most `WriteTimeout + AccessTTL` after the removal (`AccessEndsWithUser`), and
whatever token it holds, requests run as that user for at most
`TTL + MaxDelay` (`ServedRecently`).

### FollowGraph and Followers

`FollowGraph` has the users, the relation and what each client knows. A request
changes the relation at once or not at all; `already` and `absent` are said only
when they are true.

In `Followers` a request goes `new → authenticated → loaded → done`:
`Authenticate` and `LoadUser` are the two middlewares, whose lookups may be
answered by the cache and so succeed for a user who is gone; `Follow`,
`FollowConflicts` and `FollowFails` are the INSERT with its foreign keys and
primary key, `Unfollow`, `UnfollowMissing`, `UnfollowFails` the DELETE with its
row count. `Reply` covers the client that has gone and the statement that took
effect and reported an error: the statement runs under a context that does not
end with the request. `RemoveUser` removes a user whose registration failed,
with the cascade of both foreign keys.

The refinement maps `follows` to the pairs of the table and `told` to the
`Meaning` of the status: 201 following, 204 unfollowed, 409 already, 404 absent,
400 and 401 denied, 500 or no answer unknown.

### Pagination and Feed

`Pagination` has no state. A parameter is a number, a word, `Absent` or
`Malformed`. `ConversionFails` is what `Parse` records, `Accepted` what it
decides by; the two differ, see `feed_conversion` below. `Wrapped` is the
arithmetic of a machine integer with `MaxInt` as its largest value.

In `Feed` one client reads from some page to the last while others write.
`ServePage` is the handler and its SELECT: `Joined` is the join as it stands
(the author's row as follower, compared with the author), `Orders` every order
that agrees with `ORDER BY created_at`, `Slice` the LIMIT and OFFSET.
`ServeCutPage` is a result that breaks off, which the loop takes for its end;
`FailPage` a failing statement, a negative offset, or a row whose tags do not
decode. `CreatePost`, `EditPost`, `DeletePost` and `FollowOrUnfollow` happen
between two pages. `got` and `twice` record what the client received; `tied`,
`gone`, `came` and `cut` record the things that excuse a missing or a double
post. `since` and `until` only matter for validation, since the query does not
use them.

### ConnPool

`owner[c]` says who holds connection `c` and for what: a transaction (`tx`), a
statement on the pool (`query`), or the transaction of `Delete` (`undo`).
`waiting` is the pool's queue. `Ask`, `Return`, `GiveUp` and `Release` are
`database/sql`, modelled from how it serves this code: a returned connection goes
to any of those who wait, and is idle only if nobody does. A registration goes
`begin → create → invite → mail → undo → done`: it holds its transaction's
connection in `create`, where it asks for a second one, which is the fact the
module is about. `ContextEnds` is a client who goes away or
`middleware.Timeout`; from then on `AwaitDone`, a goroutine of `database/sql`,
may roll the transaction back before or after the handler does. The goroutine
that undoes a registration waits under `context.Background()`.

### Switches

Two statements of this commit fail for every input, so that all behind them is
unreachable. A constant makes each of them explicit:

- `CreateParses` (Accounts): the registration's INSERT (`users.go:69`) is not
  valid SQL. FALSE is this commit: every registration is answered 500. TRUE is
  the commit with that one statement repaired.
- `LookupScans` (Sessions): `GetByEmail` selects nine columns and scans seven.
  FALSE is this commit: sign-in fails for everyone who has an account. TRUE is
  the commit with the scan repaired.

No run sets them to FALSE, for then nothing behind the statement happens; the
passing runs use TRUE, since the rest of the code is what deserves checking;
sessions and accounts of earlier deployments are in the initial states in both
cases. `QueriesFail`, `RedisFails` say whether statements may fail;
`CacheEnabled` is the configuration's `REDIS_ENABLED`.

ConnPool has no switch. It is about what follows a registration's `BeginTx`, and
takes the INSERT as repaired; at this commit `Create` fails as soon as it has its
second connection, so that only `begin`, `create` and the rollback are reached.

## The runs

Passing runs, with all failures switched on:

| Run | Instance | Shows |
|---|---|---|
| `rate_limiter` | 2 clients, 3 handlers, limit 2, at most 3 sleepers per client; 5·10⁴ states | `OvershootBound`: a window admits at most `max(limit,1)` plus handlers − 1. `OrphanOnlyByStaleRead`: an entry loses its reset only if a handler counts after the entry it read was deleted. `ScheduledClientReadmitted`: with a reset pending, a refused client is let in again. `OvershootReserve` is the inductive form of the bound. |
| `posts` | 3 requests of any kind by author, moderator and administrator on a stored and a new post; 10⁵ states | `RefinesAtomic`: the handlers are atomic as clients see them. `VersionIdentifiesRow`, `VersionsAreDistinct`, `ConflictIsReal`, `GoneForGood`: what the version column and the id sequence guarantee; a 409 in particular means that somebody wrote the post between the request's own read and its UPDATE. |
| `accounts` | 2 registrations for one address, 1 old user, 2 activations, 4 mail attempts, 1 crash; 1.1·10⁵ states | `InvitationsAreUseful`, `StrandedOnlyByFault`, `ToldIsKept`, `ActiveIsKept` and, under fairness, `RegistrationSettles`. |
| `user_cache` | 2 lookups of 1 user, lifetime 2, delay 1; 7·10⁴ states | `EntriesExpire`, `ServedRecently`: nobody runs as a user older than `TTL + MaxDelay`. `CacheConverges`: once rows settle, the cache agrees with them for good. |
| `sessions` | 2 handlers, an old session that may be renewed, one whose renewals are used up and one new, 5 ticks of half a second, and the user removed at any of them; 7·10⁵ states up to symmetry | `TokensStayUsable`: no request takes a live session away from the client who holds it; a remembered session whose renewals are used up is exempt, for the next use deletes it before its expiry. `OverrunsLessThanSecond`: although nothing checks a refresh token's own expiry, none is honoured a second or more after it. `AccessEndsWithSession`, `AccessEndsWithUser`: an access token outlives its session, and its user, by at most the write timeout and its own lifetime. |
| `followers` | 3 requests of any kind by one user about another who may be removed, on any relation; 1.2·10⁵ states | `RefinesGraph`: the handlers implement `FollowGraph`. `RowsHaveUsers`: no row about nobody. `AnswersBalance`: rows before plus 201s minus 204s are the rows now, give or take the requests whose clients do not know. |
| `feed` | 21 query strings, up to 3 posts of 3 forms in 3 seconds, 2 changes between pages, 5-bit integers; 1.3·10⁶ states | `NothingMissed`, `NothingTwice`: who reads all pages gets each post once, unless a post before it came or left meanwhile, two share a second, or a result broke off. `PagesTile`: rows, offset, limit and page count of each page agree. `ReadingEndsWithFeed`: an answer, cut short or with a wrapped offset, sends the client on exactly while the feed has rows behind the page, unless it was cut before any row. |
| `conn_pool` | 2 connections, 3 registrations, 1 other request; 10⁵ states | `NoLeak`: who holds a connection is in the step that returns it, and holds it once. `StallNeedsFullPool`: the pool stands still only with a registration per connection between BeginTx and the INSERT. `EverybodyEnds`: under fairness all requests end and give back what they held. |

`StrandedOnlyByFault` and `ToldIsKept` state the guarantee together with its
exception. The exceptions do happen: a failing invitation leaves its user
behind, and a mail that is delivered by an attempt which reports an error can
cost an activated account. So do the four exceptions of `NothingMissed` and the
two of `NothingTwice`: without any one of them TLC finds a reader who misses a
post or gets it twice. The standstill that `StallNeedsFullPool` speaks of is
reached too; deadlines end it, which is why `EverybodyEnds` holds all the same.
`OverrunsLessThanSecond` is exact too: in the instance a refresh is honoured a
tick after the token's own expiry, in the second that its payload cut off.

Some hazards of `PROJECT.json` have no property, because the code goes wrong
there, or could, without contradicting anything that the repository says: the
window cut short by a second reset, the user left behind by a failing invitation,
the join of the feed. The models have the steps, and the notes say so.

Each property of a passing run has a mutant in `PROJECT.json`: a small change
of one mapped definition under which TLC finds the property violated.

### Bounds

| Bound | Why it is enough |
|---|---|
| 3 handlers / 2 handlers / 2 activations | every race in this code is between a read and one write in between; a third handler shows that the overshoot grows by one each |
| limit 2 | distinguishes "below", "at" and "above"; the theorem covers all, 0 included |
| `MaxSleepers` 3 | all handlers may start a reset at once; a fourth behaves as the third |
| `MaxPosts` 2 | one stored post and one made during the run; posts do not interact except through the sequence |
| 2 values per field | a patch either changes a field or does not |
| `maxRetries` 3 | the program's own value |
| `MaxCrashes` 1 | a crash empties all volatile state, and a second finds only what one could have left |
| `TTL` 2, `MaxDelay` 1 | a lifetime longer than the delay, as in the program (a minute against the few seconds a handler takes from its query to its SETEX), with room for one full overlap |
| `Second` 2 | a session may end on a second and between two, and a token may be used between its own end and the session's |
| `AccessTTL` < `RefreshTTL` < `RememberTTL`, `MaxTime` 5 | the program's order (5 min, 1 h, 30 days); the clock runs past every expiry of the old sessions and of a new remembered one made at once |
| 3 requests about one pair | two that race and one that comes before or after; pairs share nothing but the removal of their users |
| `MaxInt` 15, `MaxPageSize` 4, default 2 | offsets wrap into the negative (page 5 of 4) and all the way round (page 9 of 4); 16 is the first number that is no int |
| `MaxStored`, `MaxPosts`, `MaxTime` 3, `MaxChanges` 2 | pages of one and two posts, ties and distinct times, a change before and one after a page; three posts and one change already show each exception |
| 21 query strings | every parameter valid, absent, malformed and at each boundary, one or two at a time |
| 2 connections, 3 registrations, 1 other request | a standstill takes two registrations; the third and the other request wait in it, or take the connection that ends it; the theorems cover all pools |

`MaxDelay` is an assumption about the environment as well as a bound: the code
limits each query (5 s) and each Redis command, and a handler that is suspended
between the two for longer than that is not in the model.
Symmetry is used in `sessions` only: its handlers run the same code, and its
properties are safety properties that name no handler.

### Fairness

- RateLimiter: weak fairness of `Admit` (a goroutine that holds no lock is
  scheduled) and of `ResetCount` (a `time.Sleep` ends). None of `Read`: clients
  need not come back.
- Accounts: weak fairness of the mail attempt and of the rollback, each as
  "succeeds or fails" (`DialAndSend` and the query return one way or the other;
  the loop is bounded). No assumption that mail or database ever work. Crashes
  are bounded.
- UserCache: weak fairness of `Tick` and of the steps of a lookup after its
  miss, again as "succeeds or fails". `Change` is not fair, it just ends
  after two steps.
- ConnPool: weak fairness of the steps of each registration, each as "succeeds
  or fails" (`Proceed`), of `AwaitDone` and of `QueryEnds`: statements and mails
  end, `Create` and the other statements give up after `QueryTimeoutDuration`,
  and the runtime runs the goroutines of `database/sql`. Waiting for a
  connection in `MailFails` has no deadline, and none is assumed: that it ends is
  what `EverybodyEnds` shows.
- Posts, Sessions, Followers, Feed: none; they state safety only.

`CHECK_DEADLOCK` is on everywhere. Posts, Accounts, Followers, Feed and ConnPool
stop when every request has ended, which is their action `Quiet`; that ConnPool
has a step in every other state says that nobody waits for ever for want of a
step. The others always have a step.

## Where code and documentation disagree

Runs that are expected to end in a counterexample; each checks what a comment,
a message or an annotation of the repository says. Details are in `PROJECT.json`
under `findings`.

| Run | Said | Done |
|---|---|---|
| `rate_limiter_retry` | "rate limit exceeded, retry after ..." | two requests straddle a reset; the entry of the second has no reset, and once it reaches the limit the client is refused for ever |
| `posts_readable` | "Fetch a post by its ID" | a post made with an empty tag list can never be fetched, patched or deleted |
| `user_cache_down` | "Log the error, but continue to try the database" | an error of Redis ends the lookup |
| `feed_conversion` | "It returns a PaginateQueryFilter and any conversion errors" | a page, page size or sort that does not convert is recorded, and returned only if some other field is invalid; otherwise the default is used |

Seen while modelling, without a run of their own:

- `CreateSession` does not insert `remember_me` and `max_renewal_duration`
  (`sessions.go:41`), so no session made by this code is ever renewable.
- `ValidateSession` does not select the version, so the extension's UPDATE
  (`sessions.go:271`) matches no row, and the refresh of a renewable session is
  always a 500. That is also why `TokensStayUsable` holds: with `Scanned`
  keeping the version, the extension works, supersedes the old token before
  the answer with the new one is sent, and a client that misses that answer is
  signed out (TLC finds it).
- A refresh token's expiry is cut to a whole second (`auth_token.go:107`), its
  session's is not (`sessions.go:38`), and only the latter is looked at: a refresh
  in the last fraction of a second is honoured after the token's own expiry.
- `Extend` caps the expiry at exactly the last renewal time, and the next check
  deletes a session whose expiry is not before it (`sessions.go:118`).
- The sessions of a removed user are never deleted: the table has no foreign key,
  and no refresh finds them again.
- `refresh_token_expires_in` in the refresh answer is computed from the access
  token's lifetime (`auth.go:184`).
- At this commit the registration's INSERT does not parse (`users.go:69`), and
  sign-in fails for every user it finds (`users.go:140`); see
  [Switches](#switches). With the INSERT repaired, a taken username is a 500 and
  not a conflict, because `Create` looks for the constraint under another name.
- With Redis switched off, `getUser` fetches the user and then stores it through
  a nil client.
- "An Admin can update and delete posts": the administrator passes the check, and
  `DELETE ... WHERE user_id = <admin>` matches nothing, so the answer is 404.
- The feed joins followers the wrong way round (`posts.go:148`): it shows the
  posts of those who follow themselves, and `comments_count` is multiplied by
  the people the author follows.
- `since` and `until` are documented as RFC 3339, parsed in the layout of
  `time.DateTime`, and then not used; `until` alone is refused.
- An offset that overflows (`paginate.go:105`) is a 500 when it wraps to a
  negative number, and otherwise an early page under a late number.
- The feed's loop asks neither `rows.Err` nor the error of `Scan`, the one over
  comments not `rows.Err`: a broken result is a short answer with status 200,
  perhaps with a blank post at its end. One post whose tags do not decode makes
  every feed page it is on a 500.
- `GetSessionsByUserID` passes two arguments for `$2` and `$3` when it is called for
  an administrator, which PostgreSQL refuses; nothing calls it.
- Nothing reads `shutdownError`, so the goroutine that sends on it when
  `Shutdown` fails would wait for ever; the process has ended by then.

## The proofs

All are checked by `tlapm` to the last leaf, for every value of the constants
that satisfies the named assumptions of the module. The assumptions give the
types of the constants, what the initial database holds, and that there are
finitely many requests, handlers or connections where they are counted. Each
inductive invariant was first checked by TLC on the instance of its component's
run.

### RateLimiterProofs

Assumptions: a natural limit, a finite non-empty set of handlers.
`OvershootBound` is not inductive: a count just below the bound says nothing of
the handlers that have passed the check. `OvershootReserve` counts them: once
the count has reached the cap, count plus admitted handlers stay within the
bound, because `Read` adds nobody any more and `Admit` moves one from the set
to the count. `IInv == TypeOK /\ OvershootReserve` is inductive and implies the
bound (`ReserveHolds`, `Overshoot`). `OrphanCause` is the action property, from `TypeOK` alone.

### PostsProofs

`IInv` adds to `TypeOK` that rows exist only below `nextId`, that a request past
the middleware holds a row and a used id (and, for a permitted patch, one its
caller may change), that unanswered requests have no answer, and
`VersionIdentifiesRow`. The last is what carries the refinement: when the
UPDATE matches, the request's copy *is* the row (`UpdateEffect`), so merging the
form into the copy is merging it into the row, and the permission decided on the
copy is a permission on the row. `Refinement` maps each handler step to one
atomic request or to a stutter (`StepRefines`); `OnlyPermittedChanges` is what
that says about permissions. `HInv` adds the histories
that `DistinctVersions` and `RealConflicts` need: for the latter, that a request
whose copy is not the stored version any more is one in `overtaken`; `DeletedForGood` follows from
`IInv`.

### AccountsProofs

Assumptions: natural bounds, and accounts that include the seeded ones. None of
the safety properties is inductive, because each speaks of a registration that
has ended. Three facts about one under way carry them. `RowWhileInFlight`: from
`Create` on the row is there, for only the registration itself removes it, as
its last step. `DeliveredInFlight`: while the mail goroutine still runs, a
delivery was one by an attempt that reported an error; so the account that
`Rollback` takes away is either nobody's or one in `lostAck`. `TokenByMail`:
whoever activates has had the mail. `IInv` is these with the properties
themselves, `IInvStep` has one step per action, and `ActiveKept` is read off
`Rollback` and `RollbackFails`, the only steps that delete a user.

### SessionsProofs

Assumptions: natural lifetimes in the program's order, at least one id, stored
rows with a version of at least 1 (the column's default, which only grows) and
tokens that fit them and expire less than a second before them, or later. A handler decides on a copy
of a row that others may delete meanwhile, so the invariant ties the copies to
`expiry`, which remembers when a session ends whatever became of its row:

- `RowsInv`: a row has that expiry, a version other than 0, and is remembered
  only if it was stored so.
- `SignInInv`, `RefreshInv`: so does a copy, whose version is 0 in a refresh
  (`Scanned`); a handler past the check came in before the session's end, one
  about to delete has a session that ended or is spent.
- `Kept`, in `TokensInv` and `SignInInv`: until its expiry, unless its renewals
  are used up, the session of a token is in the table in the token's version.
- `ArrivedInv`, `AccessInv`: no handler that runs came in after the user was
  removed; an access token was made in the past.

`ExtendFails` is the fact that the rest leans on: no row has version 0, so the
UPDATE of a renewal matches nothing (`NeverRenewed` states what follows). Deadline
arguments are in `ReplyTime`: what is sent is sent within `WriteTimeout` of the
arrival, which was before the end of the session and of the user.
`NumericDateFacts` bounds what cutting to a second takes off; with it `TokensInv`
says that a session ends less than a second after the expiry of each token for it,
and `OverrunBounded` is read off the step `Check`.

Proving `TokensStayUsable` corrected it: it used to promise every session until
its expiry, and no instance had a session whose renewals are used up. The check
deletes such a session although it has not expired; the property now says so
(`Spent`) and the instance has one.

### FeedProofs

Assumptions: those of Pagination on the width and the sizes, and ids within that
width (`bigserial`). The feed is a set of rows in *some* order that agrees with
their times, so the proofs speak of the rows ahead of a row (`Ahead`), which do
not depend on the order the database picks.

- Arithmetic: `CeilFacts` and `LastPageFacts` (there is a next page exactly if
  this one does not reach the last row), `WrappedFacts` (the offset is what it
  should be while it is in range), `MinMaxOfTwo`.
- `OrderFacts`, `PlaceFacts`: a row that shares its time with no other has as many
  rows before it, in every order, as are in `Ahead`. `SliceFacts` and `ServeFacts`
  turn that into which rows a page has.
- `IInv` is `TypeInv` (types, and that a reading goes on only while pages remain,
  so that its offsets do not overflow), `UnreadAhead` (between two pages, an
  unread row is behind at least as many rows as the pages so far had places),
  `ReadBehind` (a row that was received is behind fewer), each unless one of the
  named exceptions applies, and the two properties. A page moves the border
  (`ServeUnread`, `ServeAgain`); a change of the tables could move a row across it
  only with a row that came or left before it, and those are the exceptions
  (`ChangeUnread`, `ChangeAgain`).

`Complete` and `NoRepeats` follow; `SteadyReading` is what they say of a feed that
nobody changes meanwhile: only posts that share a second can be missed or come
twice. `PagesFit` is `TileStep`, from `SliceFacts` and
the arithmetic; `ReadingEnds` is `EndStep`: a page with rows carries
the count of the feed, and one without, complete, is behind the last row even if
its offset overflowed (`EmptyPage`), for the pages before it then have more
places than there can be rows.

### UserCacheProofs

`IInv` is `TypeOK`, "a row's present state is zero ticks ago", "a row held
between query and SETEX is at most `late` ticks old", and `EntriesExpire`. `Set`
turns the second into the third; a tick ages both sides alike. `ServedRows`
follows for the two ways an answer is made: from an entry, and from the handler's
own row.

### ConnPoolProofs

`NoLeak` speaks of each connection through its owner; it is equivalent
(`LeakParts`) to `Used`, every owner is in use of what it holds, and `Single`, no
two connections have the same owner for the same use. With `TypeOK` and `Roles`
(registrations and other requests keep to their own phases) these are inductive.
What makes a returned connection safe in the hands of whoever waits is
`WaitersLack`: who waits does not hold what it waits for. Every action is one of
three kinds, each with a lemma of its own: a request asks (`AskKeeps`), returns
(`ReturnKeeps`), or moves on (`StayKeeps`); all rest on `Keeps`.
`StandstillNeedsFullPool` then maps each connection to its owner: in a standstill
that is an injection into the registrations whose `Create` waits, and the
cardinalities follow. The assumptions are finite sets of connections and
registrations.

### FollowersProofs

`IInv` is `TypeOK` and `RowsHaveUsers`; the second is needed for one step of the
refinement only, the 404 for a path that names nobody, which is told as "absent".
`Relation` and `Known` are what `FollowGraph` sees; three lemmas say what INSERT,
DELETE and the cascade do to the relation, `KnownStep` that each request is told
once. `Refinement` has one case per action, and `OnlyOwnRows` says whose request
changes which row. `AnswersAccount` is inductive with
`TypeOK`: `AnsweredStep` says that an answer counts once, for its own pair and
operation, and `BalanceStep` compares that with what the statement did to the row;
a removed user takes only pairs of his own along. The assumptions are that caller
and path name users and that the requests are finitely many.

### Only model-checked

- Liveness everywhere (`ScheduledClientReadmitted`, `RegistrationSettles`,
  `CacheConverges`, `EverybodyEnds`): fairness and `ENABLED` are out of the prover's reach.
- Induction over data and `RECURSIVE` operators are out of its reach as well;
  the modules use neither.

## What is not covered

- `comments_count` of the feed, and the wording of its validation errors.
- Panics: `withTx` does not roll back when its function panics, and nothing in
  these functions does on purpose.
- `SetConnMaxIdleTime` and the limit of idle connections: a connection that is
  closed while idle is opened again when it is asked for.
- `UpdateLastUsed`, `GetSessionByID` and `GetSessionsByUserID` are called by
  nothing.
- Comments: one read-only query, whose failure is part of `Get` in Posts.
- Server lifecycle: what it does to the other components is in them (`Crash`,
  `WriteTimeout`).
- JSON, validation, error texts, health, basic authentication, configuration:
  sequential and without state. A refused body is a status.
- Password hashes, token encryption, mail texts: data. A token that decrypts is
  one the server made.
- The web page that posts the activation token: its request is `Activate`.
- Test doubles, generated API documentation, migrations (cited where a default or
  constraint matters).
