# mdtree in TLA+

mdtree serves a directory tree of markdown files to a browser: a Go server that
lists, reads, writes, renames and deletes files under one root, keeps an
in-memory index of their names, and a React front end that edits one file at a
time.  This directory models what can go wrong between those parts when several
requests run at once, when the process stops, and when answers arrive late.

## Inventory

| Part (source) | State | Operations | Talks to |
|---|---|---|---|
| `files.Manager` (`internal/files/file.go`) | none of its own: the tree on disk | Read, Save, Create, Delete, Rename, Mkdir, DeleteDir, RenameDir; `writeFileAtomic` | Resolver, operating system |
| `files.Resolver` (`path.go`) | root, symlink policy (fixed) | Resolve, IsMarkdown | operating system |
| `files.Lister` (`tree.go`) | ignore list (fixed) | List | Resolver, operating system |
| `search.Index` (`internal/search/index.go`) | `docs`, build time, under `mu` | Build, Add, Remove, Rename, Search, Stats | operating system |
| handlers (`internal/api`) | none | one per route: file operation, then index, then metrics | all of the above |
| `auth.SessionStore` (`session.go`) | token → expiry, under `mu` | Create, Validate, Delete, eviction every 5 minutes | handlers, middleware |
| `auth.RateLimiter` (`ratelimit.go`) | key → failures, window start, under `mu` | Allowed, Fail, Reset, RetryAfter | Login |
| `metrics` | counters under `mu` | Inc…, SetIndex, Snapshot | handlers, middleware |
| `config` (`internal/config`) and `resolvePassword` | the settings, once | Load, applyEnv, the flags, Validate; the hash to sign in against | main |
| `logger` (`internal/logger`) | the active file and its size, under a mutex; the log directory, with other runs | New, a line, rotation at start and by size | every part |
| lifecycle (`cmd/mdtree/main.go`, `internal/server`) | the context of the signals, the HTTP server | start, listen, background Build, Shutdown with a 10 s deadline | all |
| web `App.tsx` | open file (path, saved, edited), `saving`, dialogs | open, edit, save, create, rename, delete, reindex | API, by promises |
| web session (`useAuth.ts`, `Login.tsx`, `client.ts`) | loading, authed or anon; the form's `busy`; the browser's cookie | status at load, login, logout, 401 | API, by promises |
| web queries (`SearchPalette`, `FileTree`) | last answer, cancelled flags | query, expand, refresh | API, by promises |

`server`'s routes and static files, password hashing and the presentational
components hold no state that other parts depend on.

What is hard, and what each part should guarantee:

* **Manager.** There is no lock: every call is a sequence of system calls, and
  other requests run between any two of them.  A call should still take effect
  at most once and in one piece, leave the tree a tree, never show a
  half-written file, and clean up its temp file.  The process may stop anywhere.
* **Index.** Handlers change the disk first and the index afterwards; Build
  reads the disk without the lock and swaps its result in.  The index should
  agree with the disk wherever edits did not race, and a rebuild should repair
  it.
* **Sessions and limiter.** Check-then-act around a slow password check; expiry
  against eviction and use.
* **Process.** A signal, a port that is taken and the end of main's ten seconds
  come in any order, before the server listens too; the next run may start while
  this one drains.
* **Metrics.** The handler counts what it did, the middleware the request, and
  whoever ran a Build what it found, each in a critical section of its own.
* **App, session and queries.** Answers arrive in any order, after the state
  they were asked for has changed.

The full list, line by line, is `hazards` in `PROJECT.json`.  Not every hazard
listed there is *caught*.  Where the code gives no guarantee, the property that
names the hazard exempts the case, and says only that nothing else goes wrong.
Where a document promises more than the code does, it is under Findings.

| Hazard | Exempted |
|---|---|
| a Rename replaces what appeared since it looked (`file.go:123`) | permitted by `AtomicFiles`; only two creates are checked, by `CreateIsExclusive` |
| a RenameDir carries a temp file away (`file.go:292`) | `TempsAccounted` exempts all temp files once a rename may have taken effect |
| an error answered for an effect that took place (`file.go:195`) | `AtomicFiles` lets a call fail after its effect; the path is `raced` in `IndexAgrees` |
| a removal or rename under a Build (`index.go:104`) | the path is `dirty`, then `raced`; a file added is the finding of `build_keeps` |
| an index at its limit (`index.go:89`) | `IndexAgrees` and `Repaired` say nothing of one that is `capped` |
| Builds that report in the other order (`api/search.go:40`) | `crossed` in `LastReported` |
| edits while a file is on its way (`App.tsx:119`), questions asked while a save is under way (`App.tsx:114`), every delete (`App.tsx:234`) | `excused` in `EditsKept`; leaving during a save is the finding of `leave` |
| a directory collapsed while it loads (`FileTree.tsx:140`) | `LoadingEnds` is about expanded ones |
| a match two hundred bytes into a name (`search.go:66`) | `Near` in `TiersKept` |
| a rotation that fails, runs that overlap (`logger.go:68`) | `unrotated` and `met` in `FreshLog` |

## Plan

1. *Done.* `FileSystem`, `Files`, `AtomicFiles` (the Manager and its abstract
   specification), `SearchIndex`, `Vault` (Manager + index + handlers +
   restart), with `FileSystemProofs`, `FilesProofs` and `VaultProofs`.
2. *Done.* `Sessions`, `RateLimiter` and `Auth` (Login, Logout, middleware,
   eviction, time), with `AuthProofs`.
3. *Done.* `Editor`: App's open file against the server, answers out of order;
   `Palette` and `DirNode`, the cancelled-flag effects of the search palette and
   the tree, in `Queries`; with `ScreenProofs`.
4. *Done.* `Ranking` (Search's order) and `Browse` (Resolver, Lister and the
   files Build takes up), in `Lookups`: pure operators against reference
   definitions over bounded inputs, and the page's way through them, with
   `LookupsProofs`.
5. *Done.* `WebSession` (signing in and out in the page), with
   `WebSessionProofs`; `Page` puts it beside `Lookups` and `Queries`.
6. *Done.* `Lifecycle` (runs of the process, their port and their log),
   `Metrics` and `Config`, with `ServiceProofs`; `Service` puts them beside
   `Auth`.  In `Vault`, a new run that takes over while the old one drains.
7. *Done.* Proofs: every invariant and every action property of the passing
   runs; the refinement of `AtomicFiles`, initial states and every step; and of
   what `Repaired`, `SearchingEnds`, `LoadingEnds` and `WaitingEnds` promise,
   the part that is safety (`BuildFindsAll`, `AnswersAwaited`, `AlwaysAwaited`).
8. *Left.* The safe half of `StopsWhenTold` and `LockoutEnds`; the hazards
   listed above as exempted, and those that no property covers.

`Vault` composes `Files` and `SearchIndex`, `Auth` composes `Sessions` and
`RateLimiter`: their steps change several parts at once.  `Service`, `Page`,
`Queries` and `Lookups` put parts side by side that share nothing: a behaviour
is that of one of them (`concern`, `part`, `component`, `way`), the others stay
in some state of theirs, and the composition adds nothing but a common run.  The
product of their states would show nothing more.  `Editor` stands alone.

## The modules

### FileSystem

The operating system's part: a tree is a function from the paths that exist to
nodes, a path the sequence of its components below the root.  `Put`, `Drop` and
`MoveTree` are what os.Mkdir/os.CreateTemp, os.Remove and os.Rename do;
`Removable` and `Renamable` are when they succeed (a directory must be empty to
be removed; a rename replaces a file but not a directory).  Names users may give
(`Name`) are disjoint from the names os.CreateTemp invents, which are identified
with the requests (`Req`); `Markdown` is the set of names with a markdown
extension.  Contents are identified with the request that wrote them; `Torn` is
a file whose content is not wholly written and synced.

### Files

`files.Manager`.  Each request makes one call.  An action is one system call
together with the code up to the next one:

| Action | Code |
|---|---|
| `Read` … `RenameDir` | Resolve, the tests on the name, and the first os.Stat |
| `StatTo` | the os.Stat of the destination |
| `MkdirAll`, `MkdirNext` | os.MkdirAll: the search upwards, then one os.Mkdir per step |
| `CreateTemp`, `Flush`, `Publish`, `Cleanup` | `writeFileAtomic`: os.CreateTemp; WriteString, Sync, Close; os.Rename; the deferred os.Remove |
| `FlushFails` | a failing write, Sync or Close |
| `ReadFile`, `Info`, `Move`, `ReadDir`, `Unlink` | os.ReadFile, `infoOf`, os.Rename, os.ReadDir, os.Remove |
| `Crash` | kill, crash, or the end of Shutdown's ten seconds; it stops some requests only, as a second process may serve the same root |

`stage[r]` is the system call request r makes next, `res[r]` what it will
answer.  A refusal (`"refused"`) stands for the sentinel errors, which are
returned before any change to the tree; `"failed"` for every other error.
`Flush` writes through the descriptor, so it reaches the temp file wherever a
concurrent RenameDir has taken it.  `Cleanup` removes the temp file *by name*,
and so misses it there.

### AtomicFiles

What a caller may rely on: each call takes effect at most once, in one step,
between arrival and answer; directories on the way are made one by one; "ok"
only after the effect, a refusal only without one; a crash leaves no partial
effect. What it does *not* promise is that the effect still fits the first look.
`Files` is shown to implement it with the mapping `tree <- Settled(fs)` (temp
files are invisible), `phase` from `PhaseOf`.

### SearchIndex and Vault

`SearchIndex` has Build as `StartBuild`, one `Visit` per directory read and
`Swap`; Add, Remove and Rename as operators.  `Vault` is the handlers:
`Continue` steps of the Manager, then `UpdateIndex` for CreateFile, DeleteFile
and RenameFile when the Manager answered without an error — RenameDir, Mkdir,
DeleteDir and SaveFile have no index update in the code and none in the model —
`Restart`, which loses the index and every request, keeps the disk, and starts
the background Build of `main`; `Handover`, the same while the requests of the
old run go on, as Shutdown gives up the port before it waits for them; and
`OldRunEnds`, the end of its ten seconds.  A handler of the old run still
changes the disk, but its index update goes to an index nobody asks any more.
`raced`, `moved` and `dirty` are history variables: they only record which paths
overlapping requests, directory renames and edits during a Build have put in
doubt, and guard no step.

### Sessions, RateLimiter and Auth

`Sessions` is the map of `session.go`, `RateLimiter` that of `ratelimit.go`, and
`Auth` the handlers and the middleware above them.  A worker is the goroutine of
one request; when it has answered it stands for the next.

| Action | Code |
|---|---|
| `LoginArrives` | Login up to `Allowed`, which stores the entry it looked at |
| `LoginMalformed`, `LoginFails`, `LoginVerified` | the body does not decode; bcrypt says no and `Fail`; bcrypt says yes and `Reset` |
| `LoginDraws`, `LoginDrawFails`, `LoginStores` | `Create`: token and expiry; an error of the generator; the map |
| `Logout` | `Delete` of the token of the cookie |
| `ValidateLooks`, `ValidateJudges`, `ValidateDrops`, `Answer` | `Validate`: the map under the read lock; the clock; `Delete` of an expired session; on to the handler or to a 401 |
| `EvictLooks`, `EvictSweeps` | `evictExpired`: the clock, read before the lock; the sweep under it |
| `Tick` | time |
| `Restart` | the process stops; sessions and counters are in memory only |

The code compares `time.Now()` with an expiry or the start of a window and does
nothing else with either, so the model keeps *ages* instead of a clock, counted
up to the first tick past their end: the state space is finite without a bound
on time, and every order of a tick and a step of a request occurs.  Each token
is drawn at most once, as 32 random bytes are.  `over` (tokens logged out or
lost) and `live` (whether the session was live when the request arrived) are
history.

A limiter with limit *n* is to allow at most *n* failures in a window, and does
not when several logins pass `Allowed` before the first of them fails:
`FailuresLimited` is what the comment promises, and fails (run `limit`);
`FailuresBounded` is how far the code can exceed it, and is `<= Limit` when one
request runs at a time.

### Editor

`App.tsx` with one open file, `useAuth.ts` and `client.ts`.  A call in flight is
a record of what it asks, what the code after its `await` captured, and its
answer.

| Action | Code |
|---|---|
| `Open`, `Save`, `Type`, `Create`, `Rename`, `Delete` | the handlers up to their `await` |
| `PromptNewFile`, `Cancel` | the prompt whose `onConfirm` keeps the `openFile` of its render |
| `Serve`, `Deny`, `LoseAnswer` | the server, in one step as `AtomicFiles` promises; no session or no connection; the answer is lost on the way |
| `OpenAnswered` ... `DeleteAnswered`, `Failed` | the code after the `await`, and the `catch` and `finally` of each |
| `SignIn`, `SignOut` | `useAuth` |

A folder rename is that of the file in it: `renameDir` leaves the open file
alone. `deleteFile` closes whatever is open when its answer comes,
`deleteFileAt` only if the deleted file was open *when it was called*: both are
`held`. `excused` is history: the user agreed to lose edits, or edited after he
was asked, or the question was decided by a baseline a save was about to move.
The code does lose edits without a question in those cases (edits typed while a
file is being opened, for one); no document promises otherwise, and `EditsKept`
says that there are no *other* cases.  `doubt` is history as well: paths on
which two calls overlapped, or whose answer was lost after it had taken effect.

### Palette, DirNode and Queries

Both are a React effect that asks the server, keeps a `cancelled` flag for the
answer, and is run again, after its cleanup, when what it depends on changes. In
`Palette` the search is `delayed` first, by a timer the cleanup clears; then it
is `sent` and the cleanup can only have its answer dropped.  `results.of` is
history: which query the hits shown answer.

| Action of `DirNode` | Code |
|---|---|
| `Toggle`, `Render`, `Remount` | the effect's runs: `expanded` changes, `refreshNonce` has been raised, the node leaves the page |
| `ServeListing`, `ListingAnswered`, `ListingFailed`, `ListingIgnored` | `listTree` and the code after it |
| `SendEdit`, `ServeEdit`, `EditAnswered`, `EditFailed` | the calls of `App.tsx` that raise `refreshNonce` when their answer comes |

What the directory holds is abstracted to `version`, the number of edits the
server has made; a listing is the version it was served at, and `told` (history)
the latest edit the page knows of.  `due` is the time between `setRefreshNonce`
and the render it causes.  A directory collapsed while it loads keeps `loading`
set until it is expanded again, as the answer that would reset it has been
cancelled; its row shows the spinner meanwhile (`FileTree.tsx:168`), however
long that is.  `LoadingEnds` is about expanded ones.

### Ranking, Browse and Lookups

`Ranking` is `search.go`: `Tier` the cases of `scoreDoc` in their order, `Score`
their scores, `Before` the comparison `Search` sorts with, `Answers` all it may
answer given that Go's maps are walked in any order and `sort.Slice` is not
stable. Texts are sequences of runes.  `Lower` is the lower case of each and
`Width` the bytes it takes, which need not be as many as its lower case takes:
documents and queries are matched in lower case, offsets and penalties count
bytes of it (`Size`), and ties are broken on the size and the order of the path
as it is. Looking for a substring by bytes, as the code does, is looking for it
by runes, since UTF-8 is self-synchronising and strings.ToLower returns nothing
else; `subsequence` goes by runes itself, and UTF-8 keeps their order.  Names on
disk that are no UTF-8 are left out.  A step types one more rune of the query.

`Browse` is `path.go` (`Clean`, `RealPath`, `Allowed`, `Resolve`), `tree.go`
(`Lists`, `Entries`, `Parent`) and the walk of `index.go` (`Indexed`), over a
disk with symbolic links that stands still. `Physical` is filepath.EvalSymlinks,
name by name (`Enter`); a link is named by where the chain of links it begins
ends, so a chain that ends nowhere is one that leads to nothing.  Browsing
starts on a root that Validate has accepted (`RootAccepted`): with a root that
is a broken link, which `LostRoot` in `MCLookups` is, `evalSymlinks` would take
a path below it for one that does not exist yet, and admit it.  A step opens a
directory that a listing names.

`FindsEmbedded` and `Confined` compare the code's way to an answer with what the
answer should be, defined otherwise: an embedding of the query instead of a
scan, and the place of the last existing ancestor instead of the recursion of
`evalSymlinks`.  `TiersKept` has a precondition because the code needs it: a
match more than two hundred bytes into a name ranks below one in the path.
`TreeMatchesIndex` says where tree and search agree; they do not on dotfiles and
files with an ignored name, which Build takes up and the tree hides, nor on
links.

`LinksIndexed` and `RootUsable` say what documents promise of links, and fail.

### WebSession and Page

`WebSession` is `useAuth.ts` with `Login.tsx` and the 401 handler of
`client.ts`, beside the browser's cookie (`jar`) and the server's sessions
(`live`).  A call carries the cookie of the moment it was sent; what its answer
sets is known when it is served and taken when it is answered.  React renders
later than `setState`, so `auth` and `shown` differ for a while: `RenderAuth` is
the render, with the effect of `App.tsx` that asks for the tree when the page
becomes `"authed"`.

| Action | Code |
|---|---|
| `SignIn`, `SignOut`, `Ask`, `Reload` | `submit` of the form, `logout`, any other call, the browser's reload |
| `ServeCall`, `DropSessions` | the handlers, merged with the middleware; sessions that expire or are lost in a restart |
| `StatusAnswered` ... `LogoutAnswered`, `AskAnswered` | the code after each `await`; a 401 to `Ask` sets `"anon"` |
| `StatusLost` ... `AskLost` | the `catch` and `finally` of each, whether the server has served the call or not |
| `DroppedEnds` | the end of a call that a reload has dropped: the cookie of its answer is not taken |

### Lifecycle, Metrics, Config and Service

`Lifecycle` has two processes in each run, main (`stage`) and the goroutine that
serves (`server`); runs share the port (`PortTaken`) and the log directory. Log
files are numbered in the order they are begun, so a rotation, which renames the
active file and opens a new one under its name, is one step.

| Action | Code |
|---|---|
| `RefuseToStart`, `Start`, `FailToStart`, `Serve` | `run` up to `logger.New`, that call, up to `signal.NotifyContext`, the two goroutines |
| `SeeSignal`, `SeeFailure`, `ShutdownDone`, `ShutdownExpires` | the `select`; `Shutdown` returns with or without an error |
| `Listen`, `Accept`, `AnswerConn` | `ListenAndServe`, which returns at once if `Shutdown` came first |
| `WriteLine`, `RotateBySize`, `Rotates`, `OpensLog` | lumberjack under `logger`: a line, a full file, the rotation of `New` |
| `Signal`, `Crash` | a signal before or after it is caught; anything else that ends a run |

`Metrics` has a request count what it has done (`HitSucceeds`), then the
middleware count the request (`ObserveRequest`), and a Build swap its result
into the index (`BuildSwaps`) before its caller reports it (`SetIndex`).  Two
Builds may report in the other order, and then `IndexedFiles` stays that of the
earlier one: `crossed` is history and records it; `LastReported` says that it is
the only way.

`Config` lays file, environment and flags over the defaults, refuses what
`Validate` does, and takes the hash from the result.  A port in the environment
that is no number is passed over.  `ServesAsGiven` is the documented precedence;
since the password is chosen after the sources are merged, a hash in a lower
source wins over a password in a higher one.

## Runs

| Run | Instance | Shows |
|---|---|---|
| `vault` | 2 requests for any operation, 4 paths (a file in a directory, that directory, a free markdown name, a free directory name), 2 Builds, 1 restart or handover, index of 2 files, symmetric requests | `VaultTypeOK`, `IndexAgrees`, `WholeFiles`, `TempsAccounted`; every step of the Manager is a step of `AtomicFiles` (`CallsAreAtomic`) |
| `repair` | as `vault` with 2 paths, no symmetry | `Repaired`: a Build that runs alone leaves the index equal to the disk |
| `service` | sessions: 2 workers, 2 tokens, 1 address, limit 2, lifetime and window 1 tick; process: 2 runs, 1 request each, 3 log files; metrics: 2 requests at once and 2 counted, 2 Builds of at most 1 file; config: 3 settings, 2 values, one of them valid | `AuthTypeOK`, `AnswersRight`, `FailuresBounded`, `ExpiredLeave`, `LockoutEnds`; `LifeTypeOK`, `Graceful`, `FreshLog`, `StopsWhenTold`; `CountsAgree`, `LastReported`; `ServesAsGiven` |
| `editor` | 2 paths, 2 contents, 2 calls in flight, symmetric calls | `EditorTypeOK`, `BaselineAgrees`, `EditsKept` |
| `page` | lookups: every index of 3 of 10 documents whose names hold capitals and runes of one and two bytes, queries up to 3 runes; root with a directory and a note that may each be a directory, a file or one of 5 links, requests up to 3 names; queries: 2 queries, 2 searches, at most 2 hits; 2 listings, 2 edits under way, at most 2 served; session: 2 tokens, 2 calls | `FindsEmbedded`, `OneAnswer`, `TiersKept`, `Narrows`; `Confined`, `OfferedTaken`, `TreeMatchesIndex`; `QueriesTypeOK`, `HitsOfQuery`, `ActiveIsHit`, `TreeFresh`, `SearchingEnds`, `LoadingEnds`; `WebTypeOK`, `SignedOutStays`, `AuthedHolds`, `WaitingEnds` |
| `limit` | `Auth` alone: 2 workers, 1 address, limit 2 | finding: logins that run at once fail more often than the limit |
| `create` | 2 requests, 5 paths, the root among them | finding: concurrent creates both succeed |
| `edits` | 1 request | finding: RenameDir leaves the index stale |
| `build_keeps` | 1 request, large index | finding: Build drops a file added while it walked |
| `leave` | as `editor`, no symmetry | finding: no warning for changes undone while a save is under way |
| `root` | the lookups of `page`, queries of 1 rune | finding: a root that is a symbolic link is accepted and then refused |
| `links` | as `root`, links followed | finding: files below a linked directory are listed and never found |

Bounds.  Each request makes one call, so 2 requests are 2 concurrent calls or
one after the other: the races of this code are between two calls, and both may
fall before, after or across a new run.  That a third request adds nothing to
what `Files` says is proved, not checked: its theorems hold for any number.
Depth-2 paths are enough for a directory to be renamed under a file.
`MaxCrashes` bounds restarts: after one, the state is that of a fresh server on
an arbitrary disk. `MaxFiles` is 2 so that both a full and an overfull index
occur.  The runs allow no deadlock: `Quiet` and `VaultQuiet` are the stuttering
of a server that has answered everything.

In `service` two tokens and two workers let one session expire or be logged out
while another is used, and two requests disagree about one; addresses do not
interact, so one is enough, and the theorems hold for any number of each.  A
lifetime of one tick has a state before, at and after expiry. Two runs are one
that ends and the next, or two at once, and each begins a file at most once at
its start, which leaves a third for a rotation by size.  Two requests and two
Builds are all that can overlap in a pair of critical sections.  Of the
settings, the port is the one that the environment may give as no number, and
the two of the password are those that are chosen between; the others are merged
as the port is.  In `editor` two calls are every pair that may overtake one
another, two paths are the open file and another one, and two contents tell
edited from saved; a file that is edited twice goes back, which is how `leave`
comes about.  In `page` two searches or listings are the one that is wanted and
one it has replaced, and two edits can be answered out of order; two calls are a
logout and a login, or a status call and what a reload has dropped (the theorems
hold for any number). Three documents tell a wrong order from a right one with a
result cut off by the limit (2), three runes reach every tier, and three names
of a request go down, up and aside; `MaxDepth` stops a page that opens a link
into its own directory for ever, and `IndexSize` keeps the indexes to those a
run can go through (the theorems hold for any length and any finite index).  No
run turns off the check for deadlock: `Settled`, `ConfigSettled` and `AllEnded`
are the stuttering of a lookup, a start and a program that are over.

Fairness (`VaultFairness`): weak fairness of each running handler, each owed
index update, and each running Build — goroutines the Go scheduler runs as long
as they are ready and which take no lock for longer than an assignment.  Nothing
makes a client send a request or ask for a reindex, so `Repaired` is about a
Build that is already running.  `AuthFairness`: `EvictExpired` (the ticker of
`StartGC`) and `Tick` (time passes); requests get none.  `QueriesFairness`:
timers fire, a fetch ends (with an error, if with nothing else) and a render
that is due happens; the user gets none, and `SearchingEnds` assumes that at
some time he types no more, as every key may restart the timer.  `WebFairness`:
a fetch ends and a due render happens; `WaitingEnds` assumes that at some time
the page is reloaded no more.  `LifeFairness`: main runs on when its `select`
has something to see, and the ten seconds pass (`Ending`); no request need ever
be answered, and nothing makes a run listen or a signal come.  `ServiceFairness`
and `PageFairness` restate those of their parts.  `Editor` and `Lookups` have no
fairness and no liveness property: that a saving button comes back is part of
`EditorTypeOK` (`saving` holds just while a save is under way).

## Findings

1. `Login` asks `Allowed` and calls `Fail` in two critical sections with the
   comparison of the password between them: logins of one address that run at
   once can all fail, and a window holds more failures than the limit, against
   "allows at most limit failures per key within window" (`ratelimit.go:22`) and
   "8 failures per minute per client IP" (`docs/api.md:21-22`,
   `docs/security.md:27`).  With *n* requests at once it is at most *n* - 1 more
   than the limit (`FailuresBounded`).
2. `Create` tests for the file and later renames over it; two creates of one
   path can both answer success, against "It fails with ErrExists if the file
   already exists" (`file.go:111`).
3. `RenameDir`'s handler does not touch the index, against "Edits made through
   mdtree update the index incrementally" (`docs/architecture.md:97-98`).
4. `Build` replaces the index with what it saw before concurrent `Add`s, against
   "populated by Build and kept current by Add, Remove and Rename"
   (`index.go:34-35`).
5. `dirty` compares with the baseline, which a save moves when its answer
   arrives: type, save, and take the change back before the answer, and the page
   is clean while the server holds something else.  Leaving then goes unnoticed,
   against "Warn before leaving with unsaved changes" (`App.tsx:87`).
6. `Validate` tests the root with os.Stat, which follows a link, and `Resolve`
   compares resolved paths with the root as configured (`path.go:75`): a root
   that is a symbolic link passes, and every request below it is then refused,
   against "reports whether ... the root directory is usable"
   (`config.go:165-166`).
7. `Build` walks with filepath.WalkDir, which follows no link, and is not told
   of `follow_symlinks`: what is below a linked directory is listed and opened
   but never found, against "Follow symlinked directories when indexing and
   resolving paths" (`config.example.yaml:51`).

Said otherwise by a comment or a document, and visible in the code without a
run:

* IncFileWrite "records a markdown file write (save, create or rename)"
  (`metrics.go:64`); RenameFile's handler does not call it, and in `Metrics` a
  rename counts nothing.
* "Each run rotates the previous file, so a run always starts fresh"
  (`docs/configuration.md:50-51`): the error of the rotation at start is dropped
  (`logger.go:68`), and the run then goes on in the old file.  `FreshLog`
  exempts it.
* "Match tiers, best to worst" (`search.go:56`): a name that holds the query two
  hundred bytes from its beginning ranks below a path that does.  `TiersKept`
  exempts it.
* "The destination must not already exist" (`file.go:161`): Rename looks before
  it renames, as Create does, and replaces a file that appears in between.

Worth knowing, and against no document:

* A directory that is collapsed while it loads shows the spinner on its row
  until it is expanded again (`FileTree.tsx:140`, `168`).
* The login form stays disabled when an answer to a call of an earlier session
  (a 401, a second sign-out) comes between a login's answer and its render: the
  form is never taken away, and only that would have reset `busy`.  `overtaken`
  records it and `WaitingEnds` excuses it.
* A sign-out whose call fails shows the form, but the cookie and the session are
  still there: a reload signs in again (`useAuth.ts:38`).

## Proofs

Every invariant and every action property of the passing runs is proved, for
every value of the constants that the named assumptions admit; so is that the
Manager implements `AtomicFiles`. Each theorem rests on an inductive invariant,
named below.

`FileSystemProofs` shows that each call leaves a tree (`PutTree`, `DropTree`,
`RewriteTree`, `MoveTreeTree`), the last through lemmas on how the paths under a
renamed directory are rebased.

`FilesProofs` proves for every set of names, paths, requests and initial trees:
`TreeStaysTree` (`TypeOK`), `NoTornFile` (`WholeFiles`) and `LitterAccounted`
(`TempsAccounted`). None is inductive alone: that a published file is whole
needs that the temp file under `Publish` is whole, that only its owner writes
it, and that a directory cannot stand in its place; that the temp file is
accounted for needs that it is where its owner expects unless a rename has taken
effect, which in turn needs that only renaming calls reach "move". `Inv`
collects this (`TempsAreFiles`, `TempsOwned`, `TempsWritten`, `TempsPlaced`,
`MkInRange`, `RootSpared`, `OnCourse`). Steps that leave the disk alone follow
from `SameTree`; each step that changes it from `TreeStep`, which sorts the
entries of the new tree into plain, kept, carried along by a rename, and just
written.

Assumptions: `NamesAssumption` (temp names are not user names: the handlers only
create names ending in a markdown extension, or directories; `Torn` is no
content), `PathsAssumption`, and `TreesAssumption` (the server starts on a tree
without temp files and without torn contents; that a later run starts on the
litter of an earlier one is `Vault`'s `Restart`).

`VaultProofs` proves first that every step of the Manager is a step of
`AtomicFiles` or a stutter (`ManagerIsAtomic`, of `CallsAreAtomic`). Beside
`Inv` this needs how far a request can have got with its operation and its
result (`AllSuit`), and that the temp file about to be published is exactly what
the request was to write (`TempsReady`): together `AtomicInv`. Lemmas show that
`Settled` commutes with what changes a tree (`SettledPut`, `SettledMove` and
their like), and for each action which step of `AtomicFiles` it is, or that it
is none (`Unseen`).

The refinement pays at once: what a request's step does to the files the index
knows of is one of four effects, `Rests`, `Writes`, `Deletes` or `Renames`, and
the proofs of `VaultTyping` (`VaultTypeOK`) and `IndexKeepsUp` (`IndexAgrees`)
speak of those, never of system calls. Their invariant is `VaultInv`. Once a
Build has ended, the index is right about every path that no change has taken
effect on without its update (`Agreement`); that an update then makes it right
needs that the disk is still as the request left it (`Sound`), and that nothing
else concerns its paths (`Unrivalled`), unless they are disputed. That a Build
makes it right needs `WalksSound`: a file is found, or a directory above it is
still to be read, unless a request has named a path above it while the Build ran
(`Dirtied`). `Restart`, `Handover` and `OldRunEnds` keep all of this, so it
holds over any number of runs. `VaultRunsFiles` says that `VaultSpec` implies
the `Spec` of `Files`: what is proved of the Manager alone holds of it in the
vault, where run `vault` checks it.  `BuildFindsAll` is what `Repaired` has of
safety: a Build that runs alone leaves exactly the files on disk, if the limit
admits them. Assumptions: those above, `IndexAssumption` and `CrashesAssumption`
(bounds are numbers).

`AuthProofs` proves for every number of workers, tokens and addresses, every
lifetime, limit and window: `AuthTyped` (`AuthTypeOK`), `EveryAnswerRight`
(`AnswersRight`) and `FailuresStayBounded` (`FailuresBounded`). That an admitted
request came with a live session needs that every session in the map is one
nobody has logged out (`StoreSound`), a login about to store included
(`StoringSound`); that a refused one has none needs that live sessions are in
the map (`LiveStored`), which the sweep keeps because what it dooms had expired
when it looked and ages do not go back (`DoomedExpired`). `ChecksSound` is what
each stage of Validate knows. The bound on failures is not inductive:
`FailureRoom` adds to them the logins that have passed `Allowed` and may still
fail. Assumptions: `TTLAssumption`, `LimitAssumption` (a limit of at least one,
as `main` passes) and `WorkersAssumption` (finitely many requests at once).

`ServiceProofs` has the rest of the server. *Lifecycle*, for any number of runs,
requests and log files: `StopsAreGraceful` (`Graceful`), `LogsAreFresh`
(`FreshLog`) and `LifeTyped` (`LifeTypeOK`). The first needs `StopsJustified`:
main is stopping only after a signal, and a run that was cut off did not end
with success. The second needs that the file a run's next line goes to, its own
or the latest, holds only lines of runs it may share one with (`NextMayWrite`),
which in turn needs that runs that are up have met (`AllMet`) and that files not
begun are empty (`UnbegunEmpty`). *Metrics*, for any number of requests and
Builds: `SnapshotsAgree` (`CountsAgree`), which is inductive with the types, and
`IndexReported` (`LastReported`), which needs `ReportsDue`: without a crossing
at most one report is due, that of the Build in the index. *Config*, for any
settings and values: `ServedAsGiven` (`ServesAsGiven`), from what the settings
are made of at each phase (`LayersLaid`) and how the secret was chosen
(`SecretTaken`). Assumptions: `LifecycleAssumption`, `MetricsAssumption` (bounds
are numbers, requests at once are finitely many), `ConfigAssumption`.

`ScreenProofs` has what waits for answers in the page. *Queries*, for any number
of queries, searches, hits, listings and edits: `HitsAnswerQuery`,
`ActiveStaysHit`, `TreeStaysFresh` and `QueriesTyped`. The first needs that at
most one search is live (not cancelled), that it is for the query on the screen
and that `searching` holds (`LiveSound`): each run of the cleanup leaves none
(`AllCleaned`). The third needs that a live listing that has been served was
served after every edit the page knows of, unless a render is due
(`ServedFresh`): an edit's answer makes one due, and the render cancels every
listing asked for before. `AnswersAwaited` is what `SearchingEnds` and
`LoadingEnds` have of safety: while the page waits, something that will end the
wait is under way, and not cancelled. *Editor*, for any number of paths,
contents and calls in flight: `EditorTyping` (`EditorTypeOK`), `BaselineTrue`
(`BaselineAgrees`) and `EditsStayKept` (`EditsKept`). The baseline is not the
disk's while a call that changed it is unanswered, so the invariant says, of
each path without doubt, what every call in flight that names it means
(`Known`): the answer of an open or a save holds what is on disk, a delete of
the open file is one that will close it. That two calls do not tell different
stories needs that they overlap only in doubt (`Alone`), that there is one save
(`OneSave`) and that only renames name two paths (`TwoNamed`). Edits are kept
because a call that may discard them without leave was made when there were none
and no save was about to bring them back (`AskedWell`). Assumptions:
`PaletteAssumption` and `DirNodeAssumption` (bounds are numbers; the empty query
is none of the others), `EditorAssumption` (the template is a content; `Absent`
is neither content nor path).

`LookupsProofs` proves for every disk of links, configured root and request
`StaysConfined` (`Confined`), `OffersTaken` (`OfferedTaken`) and
`TreeAndIndexAgree` (`TreeMatchesIndex`). The first is `NothingEscapes`: where
the path as `evalSymlinks` resolves it is within the root, so is the place of
its last existing ancestor. It needs that what is missing stays missing further
down (`LostForGood`), and that the root exists, as Validate has seen. The others
need `BrowseInv`: a directory on the screen was reached through directories that
all list, and none of them is hidden or ignored (`DownTo`), which is also what
Build's walk asks. For every index, query and length of names and paths it
proves `FindsWhatEmbeds` (`FindsEmbedded`), `TypingNarrows` (`Narrows`),
`TiersStayKept` (`TiersKept`) and `AnswerIsOne` (`OneAnswer`). They hold for any
runes, whatever their lower case and their widths. That a greedy scan finds what
can be found is `GreedyFinds`: what it has met is never less than what any
embedding has placed. `TierEmbeds` shows of each tier that what it finds embeds.
`BeforeOrders` shows that `Before` is a strict total order of the documents, for
which a path must belong to one document (`OneDocOfPath`, by its last slash) and
paths of one size be ordered by their first difference (`LessOrder`), which they
have because one that begins another is smaller (`BeginningSmaller`); and a
finite set has one sorted line in such an order (`LineExists`, `OneLine`).

The recursive functions of these modules (`Physical`, `Clean`, `Met`) are shown
to have the values their definitions ask for (`Recursion`), and to have them of
all sequences (`SeqInduction`), from the one fact that a set of numbers has a
least (`LeastNat`): the library's theorems for this take an operator, which the
provers cannot instantiate, and a set of sequences serves as well. Assumptions:
`BrowseAssumption` (`..` is no name, a disk has its nodes in directories and its
chains of links end at no link) and `RankingAssumption` (names hold no slash, a
rune takes one to four bytes).

`WebSessionProofs` proves for any number of tokens and calls `SignedOutLasts`
(`SignedOutStays`), `SessionHeld` (`AuthedHolds`) and `WebTyped` (`WebTypeOK`).
After a sign-out no call that matters, one that no reload has dropped, may sign
the page in (`NothingLeft`): no login, and no status call but with an empty
cookie. That there is no login needs `LogoutLast`: while a sign-out asked for
after every login is under way there is none; and this that a login matters only
while the form waits (`OneLogin`), which the render of another page ends
(`ShownFollows`); and that a page that loads has no other call (`StatusAlone`).
That a page at rest holds a session needs that one without says so itself, by a
sign-out or a call that gets a 401 (`SessionKnown`), which the effect on
becoming signed in provides; and that a sign-out served late is about an older
session (`OldSignOuts`), since the token of a login is nobody's until its answer
is taken (`LoginFresh`). `AlwaysAwaited` is what `WaitingEnds` has of safety.
Assumption: `WebSessionAssumption` (no cookie is no token).

Only model-checked: liveness (`Repaired`, `ExpiredLeave`, `LockoutEnds`,
`StopsWhenTold`, `SearchingEnds`, `LoadingEnds`, `WaitingEnds`), which needs
fairness and `ENABLED` and so is out of the prover's reach; and the findings,
which are counterexamples.

## Not modelled

Sizes (`MaxFileSize`, `ErrTooLarge`), which sentinel error a refusal carries,
permissions and other I/O errors than those of writing; loss of directory
entries for want of a directory fsync; that os.Rename looks before it renames
(Go's EEXIST test is taken to be atomic with it); programs other than mdtree
that change the tree; the order in which a capped walk meets files; JSON and
status codes.  In `Files`, `Resolve` has no effect and is merged with the first
os.Stat of each call, and there are no symbolic links; `Browse` has both, on a
disk that does not change between Resolve and the call it admits.  The order and
sizes of a listing.

`RetryAfter`, which nothing calls; the growth of the limiter's map, which
nothing bounds; bcrypt and the random generator beyond their answers; cookie
attributes. In the editor: other clients (their edits would make
`BaselineAgrees` false by design: saves carry no version), `lastSaved`, the
counters and notifications, the view mode, closing the tab.

In the process: panics, routing, headers, static files and the request log; the
`hash` command; the YAML and the durations of the configuration, the session
lifetime among them; latencies and times of the metrics; log levels and formats,
the pruning of backups, and what of `logger` the program does not use
(`Options.Modules`, `SetLevel`). In the page's session: the attributes of the
cookie (one marked secure is not kept over plain http).  Presentation, packaging
and scripts hold no state that a property could be about.
