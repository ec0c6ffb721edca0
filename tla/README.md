# Stremio4Manga: a TLA+ model of the server and of its web client

Stremio4Manga is one Node process that serves a web client, scrapes manga sites
on its readers' behalf and keeps everything in one SQLite file.  Several
accounts share a process; almost every table is keyed by account.  JavaScript
runs one callback at a time, `node:sqlite` is synchronous, and so the only places
where two activities of the server interleave are its `await`s.  The client is a
React page, which likewise runs an event, an answer or an effect at a time.  Every
module here takes that as its granularity: **an action is what the code does
between two awaits, or what one event does**.

## 1. The system and what is hard in it

| component | state | operations | talks to | what is hard | correct when |
|---|---|---|---|---|---|
| downloader (`server/src/downloads`, `resolvers/download.ts`) | `download_queue`, `chapter.is_downloaded`, the folders and archives on disk; in memory the STARTED accounts, the attempts in flight, the round-robin mark | enqueue, dequeue, start, stop, clear, reorder, delete downloaded; claim, list pages, fetch a page, publish, fail | source client, files, GraphQL polls | mutations land between the awaits of an attempt, stop and kill anywhere, retries | queue sound per account, pauses free of charge, no phantom DOWNLOADING, nobody starved, what is published is whole |
| reader (`server/src/reader`) | `page` rows, a page cache on disk, chapter progress | list pages, read a page or thumbnail, record progress | source client, downloads' files | two readers build a list at once; a url written back after an await; a refresh that renumbers chapters | a list never changes under a reader, progress lands on the chapter read |
| chapter lists (`resolvers/chapter.ts`) | `chapter` rows, `source_order` | refresh from the source, patch read/bookmark/last page | source client, reader, tracker | refresh and patch overlap | reading state survives a refresh |
| library (`resolvers/library.ts`, `search.ts`) | `manga` rows, membership and its date, bindings | add, remove, bind, fetch details, list, browse, ask several sources at once | source client | a row read before an await is written back after it; a source that answers after its deadline | an edit is not lost to a refresh; what is listed is what was asked for |
| categories (`resolvers/category.ts`) | `category`, `manga_category` | create, update, delete, reorder, assign | library, restore | virtual Default category 0, dense order | order dense, no assignment to a category that is gone |
| trackers (`server/src/tracker`, `utils/oauth.ts`) | `track_record`, credentials, the remote list, a verifier per tab | login, logout, bind, unbind, refresh, report, import | remote services | overlapping reports, unbind during an await, import once; a sign-in that comes back in another tab | local progress never goes down, an account is the one that signed in |
| source client (`sources/http.ts`, `flaresolverr.ts`) | permits, per-host promise chains, breaker, cookies, solves pending | request, retry, solve, reset | every scraper | shared permits, Retry-After, challenges, cooldown | polite to each host, no permit lost, no deadlock |
| registry (`sources/registry.ts`) | `extension` rows, instance cache | seed, install, uninstall, diff | source client | seeding against an install | a removed source is not seeded again |
| icons (`sources/icons.ts`) | bounded warming queue, memory, disk, names known missing | ask, warm | source client | jobs that fail or overlap | bounded, each name warmed at most once at a time |
| scrapers (`sources/themes`, `sources/sites`) | what a walk has found so far, one key | list, walk a feed, read a page list, search | source client | a site that publishes while it is walked; markup that differs from site to site | nothing is skipped or listed twice |
| archives (`backup/format.ts`, `tachibk.ts`, `graphql/multipart.ts`) | none but the file | write, read, repair, map, upload | create, restore | files harmed or made by others | read back whole or refused |
| restore (`backup/apply.ts`, `restore.ts`) | restores in memory, every table of the account | start, apply a batch, finish | the account's own edits | the loop is yielded between batches; maps built early go stale | merging never loses reading state; one restore an account |
| backup schedule (`backup/schedule.ts`) | last run, archives | check, create, expire | clock, settings | interval against slot, failure, time to live | a day is not missed; the newest archive survives |
| database (`db/open.ts`, `migrations.ts`) | nesting depth, schema version | transaction, migrate | everyone | a BEGIN that fails | a transaction is atomic |
| sessions (`http/sessions.ts`, `ratelimit.ts`, `app.ts`) | `sessions`, failure counters | login, touch, sweep, password change | command line | password check is awaited | a changed password ends every older session |
| process (`main.ts`) | up, stopping, down | start, stop, kill | all | 10 s hard exit | a restart resumes |
| self update (`update.ts`) | live, previous and staged trees, stamp | install, roll back | files | an interruption between renames | the process can always be rolled back |
| reader page (`ReaderPage.tsx`, `keybinds.ts`) | the chapter under way, page, layout, pending report; fingers and keys | turn, hop, resume, report; tap, swipe, pinch, press | GraphQL | answers and images that come late; one touch with several meanings | reading goes on where it was; only what was on screen is reported |
| preferences (`settings.ts`, `mangaSettings.ts`) | a copy of the account's, the browser's mirror, what a title overrides | change, adopt, push | GraphQL, other devices | answers asked for before a change | a choice made here stands |
| Discover (`SearchPage.tsx`, `availability.ts`, `sourceSearch.ts`) | a grid, checks under way, a lane per source, the run of a sweep | ask, page, check, sweep | GraphQL | late answers after another question | what is drawn answers the question on screen |
| library page (`LibraryPage.tsx`, `tracking.ts`, `libraryStats.ts`) | shelves, selection, three jobs | refresh, sweep, batch; arrange, hide | GraphQL | jobs run against a screen that is out of date | no reading is lost; one card a series |
| title page (`MangaDetailPage.tsx`, `bindings.ts`, `downloads.ts`) | the source it is read from, what is carried, list, queue, dialogs | walk, bind, carry, undo; download, view, add, match | GraphQL | the page stays mounted while its address walks | answers land on their own title |
| settings page (`SettingsPage.tsx`) | a backup chosen, a restore watched | choose, check, restore | GraphQL | polling against a second choice | it says "done" of what is done |

The last column is what the code sets out to do; where it falls short of it section 7 says so.

Not candidates for a model, and listed as such in `PROJECT.json`: the selectors and
texts of the scrapers, GraphQL parsing, HTML pages and static files, the command
line's prompts, React markup, translations, scripts.

## 2. Plan

The order is that of what a reader loses when it goes wrong.  All of it is built;
what is open are proofs.

1. `DownloadQueue`, `Downloads`, with the abstract
   `DownloaderContract`; proofs in `DownloadsProofs`.
2. `SourceHttp`: the client every scraper goes through.
3. `Tracker`, with `TrackerProofs`; `TrackerServices`, the services behind it.
4. `ChapterList` and `Reader`, which composes it, with `ReadingProofs`.
5. `Library` (categories, bindings and a restore in batches with the account's own
   edits between them), with `AccountProofs`; `MangaDetails`, `Listings`, `Archives`.
6. The small ones of the server: `Sessions`, `Registry`, `SourceIcons`, `BackupSchedule`,
   `SelfUpdate`, `Database`, and `SourceSites`.
7. The web client: `WebReader`, `WebGestures`, `WebOverrides`, `WebSettings`, `WebDiscover`,
   `WebSweep`, `WebLibrary`, `WebShelves`, `WebDetail`, `WebChapters`, `WebRestore`, `WebSources`.
8. `ServerProofs`, over `MCServer`: the client of the sources, the small parts of the
   server, and the server as the sum of its parts.
9. `WebProofs`, over `MCWebPages`: the pages that find, keep and move titles.
10. `WebReadingProofs`, over `MCWebReading`: the page that reads, its gestures, the
   title's page.
11. Open: proofs of what is asked of chapter lists, pages, archives and backups (the rest of
   `ExchangesAreFaithful`), and of what the shelves compute (`ShelvesAreTrue`).

Every module takes its sets as `CONSTANTS` with named assumptions, states its
invariants as conjunctions of named parts and declares no recursive operator, so
that it can be proved about as it stands.

## 3. Modules and the code they model

### Downloader

`DownloadQueue` holds the sets of accounts and chapters, who owns a chapter, and the
table `download_queue` (`downloads/store.ts`) as a function from primary keys to rows
with its operators (enqueue, delete, renumber, reorder, next queued, requeue).
`Downloads` EXTENDS it.  It begins with what a chapter may have on disk, a partial
folder, an archive being packed, a finished folder and a finished archive, and what
each file operation does to them (`downloads/paths.ts`, `zip.ts`, `images.ts`); the rest
is the process:

| state | code |
|---|---|
| `queue`, `nextId` | `download_queue` and its AUTOINCREMENT counter |
| `downloaded` | `chapter.is_downloaded` |
| `disk` | the directory tree, by value of `chapterLocation` |
| `worker` | the process and `startDownloadWorker`'s `stopped` flag |
| `running` | the set of `downloads/state.ts` |
| `lastServed`, `attempt` | `lastServed` and `active` of `worker.ts`, each attempt with the await it is suspended at |
| `deleting` | `deleteDownloaded` calls in progress |
| `restarts` | a bound only |

`Mutation` is the six mutations of `resolvers/download.ts`; `DeleteDir`, `DeletePartial`,
`DeleteCbz`, `DeleteFlags` and `DeleteFails` are one deletion with its awaits; `FillSlots`
is the worker loop's pass; `AttemptStep` is `processChapter` from `ListPages` to `Complete`
or `AttemptFails`, with the check `stillWanted` where the code makes it; `StopWorker`,
`Exit` and `StartDownloadWorker` are `main.ts`'s shutdown, a hard exit at any moment and the
restart with `releaseInFlight`.  A recursive `rm` takes one file after the other: `ThinDir`
and `ThinPartial` are the steps in it, each of which puts `Gone` in the place of a page, and
another actor, a kill or a failure may come between any two.

`DownloaderContract` is the abstract specification: what an account may see of a
chapter (none, QUEUED, DOWNLOADING, ERROR), of its downloader and of what is
downloaded.  `KeepsContract` in `Downloads` instantiates it with `StatusOf`, `running` and
`downloaded`.

### Source client

`SourceHttp` is `sources/http.ts` with the browser of `flaresolverr.ts`.  `call` is where
each request stands in `request()`; `tails` and `sinceStart` are `HostQueues`, `permits`
and `waiting` the `Semaphore`, `failures` and `cooling` the `Breaker`, `challenged` and
`jar` what the client has learnt of a host, `solveChain` and `sinceSolve` the chain and
the cooldown of the solver.  `Request` queues a call on its host; `Begin` is its turn
and the sleep that spaces it; `Start` the breaker's check and the wait for a permit;
`Response` the answer, in all its kinds (ok, soft failure, `Retry-After`, challenge,
unreachable); `Retry` the end of a sleep; `Solve` the browser; `Reset` the mutation that
forgets cookies.  Timestamps are ages or remainders, saturated where nothing
compares them any more, and `Tick` moves them all: a timer may fire late but not
early.

### Trackers

`Tracker` is `tracker/records.ts` with `credentials.ts` and the mutations of
`resolvers/track.ts`, for one account (every statement filters on `user_id`).  `record` and
`credential` are the two tables; `list` is what each service has, per account of that
service; `work` is the calls that wait for a service; `peak` is history, used by a property
only.  `Report` is the read that `reportProgress` begins with, `NextReport` its loop up to
the next wait, `Deliver` the service taking the report, and `Reported` or `ReportFails` what
follows; a report may fail before or after it was taken.  A record keeps chapters by halves
and a service is sent the whole ones (`Whole`: `Math.floor` of `anilist.ts:605` and
`myanimelist.ts:407`); a service of `Lenient` may answer a title it does not have as done
(`Drop`: `myanimelist.ts:273`).  `Bind`, `Refresh` and `ImportLibrary` ask, `Served` reads
the service (AniList's client takes a refusal for "not on the list", so the answer may be
empty), `Stored` writes. `BindExisting`, `Unbind`, `Login` and `Logout` do not wait.
`ReadElsewhere` is the reader on the service itself.

### Chapter lists and reader

`ChapterList` is one title of one account.  `chapter` is the table, by url, which is a
chapter's identity; `order` is `source_order`, its place; `backup` is the chapters of
the newest archive; `latest` is history, the chapter last read.  `FetchChapters` is
`fetchChaptersFor`: nothing it reads before its wait is used after it, so one step
with any list stands for refreshes that overlap and end in any order.
`UpdateChapters` is the bulk edit, `RecordProgress` the reader's PATCH (the report it
sends on is `Tracker`'s), `CreateBackup` and `RestoreBackup` the two ends of an archive
with or without history, `RemoveAccount` the command line's.

`Reader` EXTENDS it with what `reader/pages.ts` keeps: `pages` (table `page`), `disk` (the
finished downloads: one comes in one step, whose making `Downloads` has, and goes in one or
file by file, with `thinned` saying of which some are gone), `cache` (the page cache), and
with the browser's own cache of page urls, which `api.ts` sets the age of.  An image is a
chapter, an edition of it and a page number, so that a mixture shows.  `Request` is
`ensureChapterPages` to its wait, `Served` the rest of `readPage` to its next wait,
`ListArrives`, `Resolved` and `Fetched` what follows each wait, `Fails` the 502.
`Republish` is the source putting up another edition of a chapter.  Between
`ensureChapterPages` returning a stored list and its caller going on there is a microtask
but no wait for anything; it is part of the same step.

### Library, titles and lists

`Library` is one account's `category`, `manga` (membership only), `manga_category`, and
the bindings kept in `manga_meta`.  Its edits are the mutations of `category.ts`,
`library.ts` and `meta.ts`, each with the renumbering that ends it; `restore` is the restore
of `apply.ts`: `RestoreMeta` the first transaction, `RestoreManga` a batch,
`RestoreAccount` the last, and between them any edit, a restart that forgets the job,
or a failure.  `Restored`, `MangaRestored` and `BindingsCopied` are the maps from an
archive's numbers to the database's, built when the code builds them and stale when
the code's are.  `MangaDetails` is what one row says of its title and since when it is
in the library, with the five paths that write it; `Details` and `DetailsArrive` are the
two sides of the wait in `applyDetails`.  `Listings` has the lists of titles and chapters
as filters, order and cut (`ListMangas`, `ListChapters`), and browsing: what a listing
stores (`StoreGrid`), and the bulk search with its `Runners`, its deadline, and the
answers that come after it (`LateAnswer`).  `Archives` is a backup as cells of a file:
`WriteBackupZip`, harm, `ReadBackup`; the repairs of `ParseDocument`; the old server's
document (`ReadTachibk`), validation, and the upload (`ReadMultipartRequest`).

### The server's smaller parts

`Sessions` is the table and the failure limiter: `Login` begins the awaited check with the
row it has read, `LoginSucceeds` and `LoginFails` end it, and `ChangePassword`,
`RemoveUser`, `AddUser` are the command line's, from another process.  `Registry` is
`source_state` for one account with `SeedDefaults` at every start, the switches, and the
command line's steps: `ReadSeeded` is the question `seedDefaults` asks outside the
transaction, `SeedAdded` the transaction.  `SourceIcons` is the warming queue of `icons.ts`.
`BackupSchedule` is the check every five minutes, `DueByInterval` and the slot, and what a
success may delete.  `SelfUpdate` is the swap of `update.ts` path by path, `CutOff`
anywhere, and rollback.  `Database` is the ladder of migrations over a file older builds may
have made, with a first start cut off among its tables (`TablesCutOff`), and `transaction()`
as it counts.  `SourceSites` walks a site with each of ten engines: the `*List` operators
are what one request lists, the `*Feed` operators one step of a chapter list, the `*Pages`
operators a page list; `Publish` and `Withdraw` are the site's between any two requests.
`TrackerServices` is the sign-in over tabs (`StartTrackerLogin`, `Authorized`,
`LoginTrackerOAuth`) and a call to either service with its retries; `AniListEntry`,
`MyAnimeListEntry` and `EntryFrom` are what each makes of a shelf and a count.

### The web client

`WebReader` is the reading page without its fingers: `going` and `atEnd` are the hop under
way, `pending` the lists asked for, `result` the last answer, `images` what has loaded,
`anchor` and `stripPage` the strip, `room` whether the window has room for two pages
(`Resize` changes it), `report` the pending progress.  `SpreadActive` asks for both; what a turn
back does (`BackwardPage`) asks for neither, as in the code.  `WebGestures` is the
fingers, the click the browser sends after them, and the keys with the dialog that
rebinds them.  `WebOverrides` is what a title overrides and its zoom memory, with the
answers the client's document cache holds.  `WebSettings` is the page's copy of the
account's preferences: `WriteRaw`, `AdoptSettings`, `FlushSettings`.

`WebDiscover` is the grid of one source, with `lane` and `tasks` for the promise chains of
`availability.ts`; `WebSweep` the two stages of a question to every source and the
answer that is kept.  `WebLibrary` is the page's three jobs, one request at a time, against
`seen`, what it had on screen; `WebShelves` what the page shows, as functions of a library
(which row stands for a series, order, unread counts, filters, continue-reading and the
statistics page) with hiding and its undo as actions.  `WebDetail` is a title's source and
what follows a change of it; `WebChapters` the rest of that page: the two views of the
download queue, kept true by asking again, the list's view and to whom it belongs, the
counting of pages three at a time, and the dialogs that add a title or match it at a
tracker.  `WebRestore` is a restore chosen, confirmed and watched.  `WebSources`
is the Sources page, which switches sources and asks again what is on (`Act`, `Answered`,
`QuerySettles`), and Discover's panel of a source's filters: a draft of what was moved
(`SetFilterAt`), sent by place in the source's own list (`FilterChanges`) and kept by the
server where the filter there can read it (`SanitizeFilterChanges`).

Two assumptions about the client's library (urql) enter: a query keeps its last answer
until the next comes, and of two askings of one query only the later one's answer is
used.  Its document cache also asks again after any mutation; except in
`WebOverrides`, where that matters, it is left out because it only asks more often.

## 4. Runs

All runs are exhaustive on their instance.  `MCDownloads`, `MCSourceHttp`,
`MCTracker` and `MCReader` hold the small sets of one part each.

Three runs are sums.  `MCServer`, `MCWebReading` and `MCWebPages` extend several parts that do
not touch one another, and a variable `focus`, chosen in the first state, says which of
them moves (`IF focus = "..." THEN TRUE ELSE UNCHANGED ...` for each part, then the step
of the one it names): the reachable states are those of each part, one part after the other,
and nothing is multiplied.  Their properties are conjunctions `focus = "..." => P` of the
parts' own properties, stated and commented where the part is.  A property of a sum has one
mutant in `PROJECT.json`; for most of the other conjuncts the part's module holds an
operator under the comment "Mutant:" which is the same kind of mistake in that part's
code, and with which TLC finds that conjunct violated.

| run | instance | shows |
|---|---|---|
| `downloads_queue` | one account, two chapters of a page, positions before the front and past the end, two tries, folders as the finished form (`AsCbz`), one deletion at a time that may fail midway, one restart | type, no phantom work (`DownloadingIsReal`), tries (`TriesCountAttempts`), silence after a stop (`NoWritesAfterStop`), rows leave for a reason |
| `downloads_accounts` | two accounts, one slot, each naming the other's chapters too, in both finished forms | every row its own account's and queued once (`QueueIsPerAccount`), the slot bound, round robin (`EveryAccountServed`), a started downloader turns off, the refinement `KeepsContract` with two accounts |
| `downloads_delete_race` | one chapter of two pages, a deletion | **violated**: a deletion inside the publication leaves the flag set with no files |
| `downloads_shared` | two chapters with one location | **violated**: the second is downloaded with pages of the first |
| `http_shared` | three calls, two hosts, one permit, one browser, no delays | permits, chains, solves and that every call settles |
| `tracker_records` | two services, the shell of an imported title and a copy of it, two calls at once, a whole chapter and the half one after it (`Reads`), one account at each service, the first of them lenient | local progress and its origin, through every overlap |
| `tracker_lowered` | the same with two accounts | **violated**: a report can lower the service's count |
| `reader_pages` | two chapters that change places, one republished with a page more and resolved in a second request, two requests, one page url followed in the browser, the one republished also downloaded (`Offline`) | an answer is the page asked for of the chapter that was there, but for a download that is being taken away (`ServedIsThePage`), lists are whole (`ListIsWhole`) |
| `reader_urls` | the same with one request | **violated**: after a refresh the browser shows the old chapter at the new one's url |
| `server` | one at a time: a POST and a GET to one host in the real order of calm < slow < backoff < cooldowns (slow starts are jittered); one chapter of two pages with a deletion that may fail, a restart and one try (more change nothing about files); a library of two titles restored in batches of one; one title's row with two calls; two sign-ins; three sources; four icons and two slots; three days of three checks, with a time of day after the last of them too; a release of three paths; three builds of the schema; the sites; the services; the archives; the listings | `FinishedFormsAreWhole`, `ResumeFetchesOnlyMissing`, and the sums `ServerTypesOK`, `AccountIsSound`, `BackgroundIsSound`, `KillsAreMended`, `ExchangesAreFaithful`, `PromisesAreKept`, `NothingIsCutShort` |
| `web_reading` | one at a time: two chapters in every list, with a backup; two chapters of two and three pages, one of them wide, unpaired, paired always or where they can be (`Pairings`), in a window that gains and loses the room for two; two fingers, three actions and four keys; every library of `MCShelved`; two titles and two chapters on the title page | `ChaptersKept`, `RefreshSeparates`, `ReadingSurvives` of the chapter lists; `ReadsOn`; `ShownRight`; `ShelvesAreTrue` |
| `web_pages` | one at a time: two preferences and two loads; two titles' overrides; a grid of one source; two queries and two stages; one entry and two sources; two titles and a copy; two files and two nightly backups; two sources to switch, and two whose filters change with the server's build | `SearchIsSound`, `PagesKeepTheirOwn`, `PlaceIsKept` |

What the sums are made of:

| property | conjuncts |
|---|---|
| `AccountIsSound` | `CategoriesInOrder`, `BindingsAreRight` (`Library`); `ServicesAreUsed` (`TrackerServices`): `ConnectedIsVerified`, `VerifierComesBack`, `CallsDoWhatTheySay` |
| `BackgroundIsSound` | `FirstAttemptFindsHostOpen` (`SourceHttp`), `WarmedOnce` (`SourceIcons`), `KeyIsRenewed` (`SourceSites`), `NoLongGap` (`BackupSchedule`) |
| `KillsAreMended` | `EndedStaysEnded` (`Sessions`), `ChoicesStand` (`Registry`), `RollbackUndoes` (`SelfUpdate`), `DatabaseIsWhole` (`Database`) |
| `ExchangesAreFaithful` | `BackupIsFaithful` (`Library`); `BackupsAreReadable` (`Archives`): an archive is whole or refused, a document is repaired, the old one is mapped, what is missing is named, the upload arrives; `ListComesOnce` (`TrackerServices`); `SitesAreRead` (`SourceSites`); `ListingsAreSound` (`Listings`): lists are exact, each source answers for itself |
| `PromisesAreKept` | `RestoreIsWhole` (`Library`), `DateHolds` (`MangaDetails`), `ListingTakesNothing` (`Listings`), `StartsSpaced` (`SourceHttp`), `SomethingToRestore` (`BackupSchedule`) |
| `NothingIsCutShort` | `PauseIsKept` (`Sessions`) |
| `ChaptersKept` | `TypeOK`, `LatestLeads` (`ChapterList`) |
| `ShownRight` | `OneThingAtATime` (`WebGestures`), `ChaptersAreTrue` (`WebChapters`) |
| `ReadsOn` | `TurnsReadOn`, `ReportsWereSeen` |
| `SearchIsSound` | `GridIsChecked`, `LanesAreSerial`, `SweepIsSound`, `FiltersArrive` (`WebSources`) |
| `PagesKeepTheirOwn` | `ChoicesHere`, `TitlesKeepTheirOwn`, `NoteIsTheirs`, `PanelIsTrue`, `SourcesAreListed` (`WebSources`) |
| `PlaceIsKept` | `LibraryKeepsPlace`, `DetailKeepsPlace` |

Deadlock is checked in the runs of one part.  In the sums it is not: an update ends, a
source's walk ends, a question that was answered leaves nothing to do, and the bounds on
moves stop a page.

**Bounds.**  Two chapters and one slot are enough for every conflict over a
position, a claim or the last pending row; a second account adds only the
contention `downloads_accounts` has.  Three primary keys allow a chapter to be taken
out and queued again while its old attempt still runs, which is what keys are
compared for.  Two tries separate "failed once" from "given up".  One restart
separates a stop from what follows it.  Two pages separate "some" from "all".  For
the source client, two calls on a host and one on another with one permit are the
smallest instance in which each of the four queues (chain, permit line, sleep,
browser) has someone waiting behind someone; `MaxAttempts` is the code's own three
where the last attempt matters.  For tracking, two chapters order two reports, two
rows share one title, and two services give the loop something to wait for before
its second step; `Pairs` leaves the copy unbound at the service that cannot
import, where it would add nothing but states.  For chapter lists, two chapters are
enough for a tie of orders and, with the empty list a failed scrape gives, for two
that vanish together; the reader reports twice so that the latest of two stamps
matters.  For the reader, the second edition's extra page separates a replaced list
from an old one.

In `server`, a batch of one title gives a restore of two titles a place between its batches,
and an archive that numbers rows otherwise than the database makes its maps matter; two
sign-ins overlap one password change; `Horizon` outlasts a window, a lockout and a session;
four icons keep two slots busy with two waiting; three days are enough for a run to drift
past its slot and past midnight; three builds give a ladder with a middle; two rows to a
page and `MaxPublished` let a site push one row over a page's edge during a walk; two bytes
and a comment decide where an archive ends.  In `web_reading`, `MaxRequests`, `MaxOps` and
`MaxMoves` let one request of the list be out while the queue and the list are asked again
and the page walks; `MCShelved` has rows that are one title or two, with no tracker, one or
two that disagree.  In `web_pages`, two questions and two pages let the answer of the first
come during the second; two catalogues that list different chapters make a move carry some
and not others; one change on another device falls anywhere in a job.  `MaxRowId`,
`MaxRestarts`, `AsCbz`, `LongAgo`, `MaxChapter`, `Pairs`, `Calls`, `MaxClock`,
`Reissued`, `Held` and every constant whose comment says "bound" are bounds of the model,
and named as such where they are declared.  `web_reading` and `web_pages` use that A and B
may be exchanged: wherever they are used nothing compares them but for being equal.
`AsCbz` is what accounts may have asked for: folders alone in `downloads_queue`, whose
properties are of rows, and both forms, also one after the other, in `downloads_accounts`
and `server`.  `DeletesMayFail` lets a removal that was asked for fail midway, in
`downloads_queue` and `server`.  `Lenient` is one of the two services of tracking, so that
both kinds are met.

## 5. Fairness

Only three properties are liveness.  `EveryAccountServed` and `DownloaderTurnsOff`
assume weak fairness of the worker's pass and of each attempt's next step: the
loop sleeps at most `IDLE_MS` and every await of an attempt settles, because page
fetches carry `AbortSignal.timeout` and file operations return.  Nothing is assumed
of the mutations, a stop or a restart.  `EveryCallSettles` assumes that time passes
(timers fire) and that a call that can go on does: `fetch` and the solver's requests
are cut off by timeouts.  No fairness is assumed of sites, of `Request` or of `Reset`,
and none is strong.  Nothing is assumed in the sums, whose properties are of safety: what
a page owes (a push, a checked title, a queue looked at again) is stated as "is scheduled,
is out, or has arrived" in an invariant, which needs no fairness.

## 6. What is proved

Eight modules hold proofs.  `FiniteOrders` has facts about finite sets, total orders and
folds that several need.  `DownloadsProofs` has the facts about the queue's operators (what
renumbering, requeueing, deleting and enqueueing do to a table), the invariant of the
process, the refinement and the files; `TrackerProofs` is tracking,
`ReadingProofs` chapter lists and the reader's requests, `AccountProofs` an account's
library and its restore, its automated backup, its sign-ins at the trackers and the calls
to them, `ServerProofs` the client of the sources, the small parts of the server, and
the sum of the parts, `WebProofs` the pages of the client that `MCWebPages` sums up, and
`WebReadingProofs` those of `MCWebReading`.

All hold for every value of the constants under the assumptions named in the modules
(`AccountsAssumption`, `FilesAssumption`, `DownloadsAssumption`, `TrackerAssumption`,
`ChapterListAssumption`, `ReaderAssumption`, `SourceHttpAssumption`, `LibraryAssumption`,
`MangaDetailsAssumption`, `BackupScheduleAssumption`, `TrackerServicesAssumption`,
`SourceSitesAssumption`, `ListingsAssumption`, `DatabaseAssumption`, those of the other
small parts and those of the pages).  They say that bounds are numbers, that the sets a
table counts over are finite, that markers for "no row" are no rows (`Absent`, `NoRow`) and
that for no account none (`"none" \notin Holders`), and of the code: two chapters share a
place on disk only if one account owns both, because `chapterLocation` begins with the
account (`paths.ts:101-108`); a request was last heard of `LongAgo` when no pace compares it
any more; an archive names a title once and numbers each once, as `create.ts` writes it;
there is a source for the panel of filters to open on; every chapter has a page; no key is
bound to two actions to begin with; and a stored view of a list is one that
`chapterViewFromMeta` makes.  No two chapters are assumed to differ in place: where they do
not, `FinishedFormsAreWhole` speaks of the chapters that are alone at theirs (`Alone`), and
the run `downloads_shared` shows what becomes of the others.

*Downloader.*  `TypeOK` and `QueueIsPerAccount` are not inductive: an attempt writes to
the row and the location it remembers across awaits.  The inductive invariant
`Sound` adds that an attempt works on a chapter of its own account, that its row's
key was handed out before and, if the row is still there, is still that
chapter's (keys are never reused), and that a deletion between two awaits has a
chapter in hand.  `Busy` strengthens it with one
statement per row that fixes state, tries and failures against the attempt in
flight, and with what is true while the process is down; from it follow
`DownloadingIsReal`, `StartedHasWork`, `TriesCountAttempts`, `ErrorMeansExhausted`,
`PositionsDistinct`, `ActiveBounded` and `NoWritesAfterStop`.

*Tracking.*  `Tracked` is `TypeOK` with what a waiting call holds: an account, a
remote title unless it imports, and that only reports wait to be sent.
`LocalNeverDown` follows from what each step does to the rows (`RowsMove`), and
`ReportsUseLiveCredential` from the loop's next service being looked up in the same
step in which the report goes out.  `LocalWasRemote` needs `Seen`: what a service
holds, what it has answered and what it has taken are all bounded by its peak,
so that a late answer can only bring back a number that was there, to the whole chapter
below it; and what a lenient service answered without taking it is what it was sent.

*Chapter lists.*  Orders and ids are counts of the rows that come before, so
everything rests on one fact about finite sets: in a total order of n elements the
counts are 1..n, each once (`StandingsAreDense`).  `Reconciling` and `Restoring` use it to say
what a refresh and a restore make of any table.  They need `IdsGiven`, that ids are
those an AUTOINCREMENT key hands out: without it two rows with the same order could
tie and `RefreshSeparates` would fail.  `ListInv` adds that nothing in the table or
in the backup is dated later than the newest reading and that the chapter read last
carries exactly that date, which is what makes `LatestLeads` inductive across a restore.
`RefreshSeparates` and `ReadingSurvives` are action properties that follow from it.

*Reader.*  `ServedIsThePage` speaks of answers only.  `ReaderInv` says the same of every
place an answer can come from: row i of a stored list, file i of a download, entry i of the
cache and what a waiting request has in hand all lead to page i of their own chapter, of
whichever edition, or nowhere.  A list replaced during a wait cannot break it, because the
late write goes to row i again.  Of a download that is being taken away file i is page i or
a later one (`Without`), and an answer out of it is marked (`thinned`).  `ListIsWhole` is
then inductive beside it.

`StartedHasWork`, `ErrorMeansExhausted`, `PositionsDistinct` and `ReportsUseLiveCredential`
are proved and no run lists them: the first three are parts of what `Busy` says of a row.

*Downloader's files and its contract.*  What is on disk under a finished name is decided by
many steps of an attempt, each of which may be cut off, and by deletions between them.
`Kept` says of each chapter that is alone at its location that what lies finished there is
whole but for what a removal took and, by where its attempt stands, which pages the partial
folder holds already (`FilesSound`), and of each attempt that fetches that the folder has
none of the pages it is still to fetch (`ResumeSound`).  Files that another step only takes
away (`Thinned`), all at once or one of them, break neither.  From it follow
`FinishedFormsAreWhole` and `ResumeFetchesOnlyMissing`.  `KeepsContract` is the refinement:
`Init` maps to `ContractInit` and every step, under `Sound` before and after and `Busy`
before, to a `ContractNext` or a stutter; the proof has one lemma per action.
`RowsLeaveForAReason` is the same walk over the steps, for one row.

*Source client.*  The promise chains, the line for a permit and the browser's queue are
sequences, and each invariant says that one holds exactly those it should, each once
(`Lined`).  `HttpSound` says so of all three (`LineSound`, `ChainsSound`, `BrowserSound`) and
of what a call knows of itself (`CallSound`: its interval, its tries, that a first try has
its host open).  None is inductive alone: that a freed permit goes to somebody who
waits needs the line, that the next of a chain may begin needs that nobody else of the
chain is under way, and that a solve is a cooldown behind the last one needs that of two
calls of one host only one can be at the browser.  `PermitsAccounted`, `SerialPerHost`,
`FirstAttemptFindsHostOpen`, `StartsSpaced` and `SolvesAreRare` follow.

*Library.*  `LibrarySound` has `RowsSound` (every reference finds its row, numbers were
handed out before), `CategoriesInOrder`, `BindingsSound` (a binding names a row it was given
for, or a number older than every row) and `RestoreSound`: of a restore between two batches,
that its maps lead to numbers that were given out for the titles they stand for, and that
what it has written so far is there but for what the account changed itself. `ReadingSound`
goes beside it: that a title written is read from the title it was read from in the archive.
`BindingsSound`, `RestoreSound` and this are what makes `BindingsAreRight` and
`RestoreIsWhole` survive the account's own edits between batches.  That renumbering n
categories gives 1..n, each once, is `StandingsAreDense` of `FiniteOrders`.

*The small parts.*  `DatabaseSound` says of every phase of opening which columns and which
version the file can have (`FileSound`) and of a connection what its depth, the open
transaction and the writes on disk have to do with one another (`WorkSound`).  `UpdateSound`
says that a tree the swap found is still live or in `previous/` (`NothingLost`), that what
was moved out is not moved out again (`MovedOnce`), and that a rollback has still to come
to every path that is not back (`StillToCome`).  `SessionsSound` adds to
`EndedStaysEnded` that ended sessions are gone from the table and that ids are never
handed out again.  `DetailsSound` says that a call which waits holds a row the title once
had, and `DetailsMove` that no write takes the date forward (`Keeps`).  `IconsSound`
says that the queue names no package twice and none that is in flight.  `ChoicesStand` is
inductive with the types; the choices that a seeding begun before them takes back
(`overtaken`) are excepted.

*Automated backup.*  `ScheduleSound` is about an interval and a time of day at once: a run
that is later than its interval is due but for its time of the day, so it is still before
that time today, and later than its interval by no more than the checks since midnight
(`Waits`).  A check that does not run makes both sides one more, which rests on what a
remainder is a check later (`ModNext`, from the uniqueness of quotient and remainder); at
midnight the first would fail, but there no slot is still to come: that is where `SlotIsMet` is
needed, that some check of the day is past the slot.  `NoLongGap` follows.
`SomethingToRestore` rests on `HeadStays`: whichever of the expired files let themselves be
deleted, the list that is left begins with the archive just written.

*Trackers' services.*  `SignInSound` says of a tab that the verifier of the sign-in it
started last is where the callback will look for it or already in its hands (`TabSound`),
which survives every other sign-in because each service has a key of its own, and of every
row that its profile is its token's account.  `CallsSound` says of a call on its way that
it has changed nothing yet and that a lookup which went on to the title itself had no
entry or lost it; with `ShelfOfWord` (a shelf is the shelf of its word, for AniList six of
six, for MyAnimeList with the mark of a second reading) every answer is what became of
the list, but MyAnimeList's to an update of a title it does not have (`Missed`).

*The key of MangaHub.*  `KeySound`: of the questions that are put again, those a key was
brought for find it fresh unless it has been said to have died.

*Listings.*  `RowsKept` says of two states of an account's titles that the second takes nothing
from the first.  One entry of a page keeps it (`StoreItemKeeps`), hence a page does
(`StoreGridKeeps`, by the first entry at which it could fail), hence every step.
`BrowsingSound` says of a call to several sources that each is in it once (`DistinctIsOnce`),
that those taken and not at work have their word, and that what a word shows is stored; as
nothing is taken from the rows, it stays stored, whatever answers after its time
(`ListingsTakeNothing`, `SourcesAnswerForThemselves`).

*Sites.*  That a walk over a listing asks for no page past the last rests on what an answer
that promises another page says, engine by engine: it stood within the shelf
(`ListingGoesOn`).  The shelf has no more titles than there was room for and than were
published (`ShelfSound`), so a page a visit comes to is within the bounds (`PageOnward`).
`PageShows` is the other half: of what stands behind a page's start the answer has all there
was to read, or says that more follows and has its page of it.  While nothing is taken away
a title only moves to later places, so what was there when the listing was opened is shown,
or stands behind the pages read, or no page is said to be last (`ShownSound`);
`ListingsShowAll` follows, for any page size, any cap of offsets and whatever is published
meanwhile.  WeebCentral is held to it only where no row is unreadable, and MangaDex only up
to its cap of offsets, as in the property.

*The sum.*  `PartsMove`: a step of the server is a step or a stutter of every part, so that
the specification of the sum implies each part's, and `AccountIsSound`,
`BackgroundIsSound`, `KillsAreMended`, `PromisesAreKept` and `ServerTypesOK` follow from the
parts' theorems.  Of the types three are more than types: the bounds of a walk over a site
(above), a tracker's progress, which is a chapter that was reported, and the time a call to a
service has waited, which is no more than the waits of the attempts behind it (`Waited`).

*The pages.*  Each has an invariant of its own, and the sum is that of the page that is in
`focus` (`PagesSound`).

- *Discover.*  A lane is a chain of promises, and a request in it waits for the one that was
  last when it came.  That no two of a lane are out needs two statements about the whole
  history of requests: that each unsettled one stands behind another unsettled one of its
  lane unless none is earlier (`InLine`), and that the lane holds its last (`HeldLast`).
  Beside them, the number of checks said to be out is the number of requests that wait or
  ask for the question on screen, and every title shown has chapters or is asked about by
  one of them (`ShownChecked`).
- *Sweep.*  Runs are told apart by number; the one with the highest is of the query last
  swept for, and unless a query was gone back to, what is drawn is one answer of each
  catalogue that this run has heard, of both its stages (`OnceEach`), which is what is saved
  with the scope of every catalogue when none is left.  One saved after the first stage alone
  (scope "top") is only said to answer its own query.
- *Filters.*  What is set is set at a path of the list the page has, of that filter's kind
  and not its default (`ValuesSet`).  A request counts places in the copy the page drew; if
  that is the build the server reads, it reads at each path what is shown there
  (`Arrives`), which rests on two ways of walking a list of groups coming to one filter.
- *Preferences and overrides.*  A push holds what was chosen here in full
  (`SettingsSound`, `OwedLast`), and an answer changes only names nobody chose here
  (`AnswerKept`, `PushSound`), also when the page walks between asking and answer.
- *Title and note.*  A note adopted for the title on screen is that title's
  (`NoteSound`), and a carry or its undo names numbered chapters up to its bound only
  (`RequestSound`), whenever it is carried out.
- *Library jobs.*  What a step takes back or marks is stated against the view the job
  began with, so the invariant is little more than what such a view and a job in
  progress are (`JobsSound`), with that a move which reached its writes has one match
  (`BatchSound`).
- *Sources.*  Unless an answer was lost, a switch carried out is still to be heard of or
  every list on its way is the account's (`RowsSound`).
- *Types.*  A page's type invariant is inductive with what its calls and answers carry
  (`GridTyped`, `SearchTyped`, `ShelfTyped`, `SelectionTyped`, `DetailTyped`, `PanelTyped`,
  `PressesTyped`): a value that is written from an answer has its type because the answer
  had it, and an answer because the call did.  `PagesTyped` is that of the page in `focus`,
  and `PagesStayTyped` follows beside `PagesSound`.

*The page that reads.*  Where a spread begins when wide pages stand alone is a walk from the
first page (`AutoPairStart`).  That such a walk can be made, and in one way only, is proved by
the least page where it could fail (`SmallestOf`), which the well-foundedness of `<` gives
without an induction theorem.  From it: a page is the first of its group or the second, groups
follow one another, and the group before a first page ends just before it; so where pages are
paired a turn forward and one back meet.  Going on skips no page in any window; going back
may skip one where no spread is shown, as `BackwardPage` looks for the begin of a pair all the
same (`TurningIsSound`).  `PlaceSound` says that what is known of pages is
about pages of the chapter on screen, whatever answers are late, and that a chapter backed
into stands at its last page until the reader moves (`StandsAtItsEnd`).  `ReadsOn` is a
property of steps and follows from it.

*Gestures.*  `FingersSound`: a swipe that runs is of the only finger that is down and has
turned nothing yet, a click comes when no finger is left and, unless something was panned, is
the first to turn; `KeysSound`: a chord is bound to one action.

*A title's page.*  One invariant for each of its parts, and `ChaptersSound` of all of them.

- *Downloads.*  `DiskIsShown` asks that a chapter that was seen in the queue and has left it
  is shown as it is on disk, or will be.  `SeenIsShown` adds that what was seen and is still
  queued is in the last queue shown and in the one on its way, and `LeavingIsNoticed` that
  what has left is asked about, on its way as it is, or still in the queue last shown, so that
  the next answer tells; unless an answer was lost, when nobody was told to ask.
- *The list's view.*  The view in use is the one last wished for, whatever is still on its
  way to the server or from it, and the group picked is the saved one, if the title on
  screen has it, or the busiest.
- *Counting.*  Of the chapters to be counted those up to the cursor were taken, each once; of
  these the ones that are out and the ones that are done add up to the cursor, and the ones
  that failed are those still missing (`AllAccounted`).  So a run ends when none is out, with
  every chapter asked for once.
- *Adding.*  Rows of one series are one: the fold keeps for every key the first row that is
  read elsewhere, or the first; what went in unasked looks like none of them.
- *Matching.*  A binding is a match of the title it is made on, also when an answer comes
  after the page has walked on.
- *Folds.*  What `FoldLeft` returns is the last of the values it goes through, one for each
  entry (`AllAccounted` and `JoinSeries` rest on it); a statement about all of them is proved
  by the first entry at which it could fail.

*Only model-checked*, and why:

- `EveryAccountServed`, `DownloaderTurnsOff`, `EveryCallSettles`: liveness under fairness,
  which is beyond the prover.
- `ExchangesAreFaithful`: what it speaks of is computed by sums, by an edit distance, or by
  `SelectSeq` over sequences (`BackupIsFaithful`, `BackupsAreReadable`, `FeedIsWhole`,
  `PagesInOrder`, `SearchIsLawful`, `ListsAreExact`, `ListComesOnce`).  Of its parts,
  `ListingIsWhole` and `PopularIsNotEmpty` are proved (`ListingsShowAll`).  A fold or a
  recursive function of one's own can be taken apart by the least place where it fails, as
  above; a recursive operator of a library cannot, as the provers do not expand it.
- `NothingIsCutShort`: `PauseIsKept` is false for some constants: when `MaxFailures` is 1,
  or when as many attempts overlap and outlast a whole window, the failure that ends the
  last of them starts a new bucket in place of a locked one (`ratelimit.ts:52-75`).  With
  the code's constants and the run's it holds.
- `RemoteNeverLowered`, `SettledFlagMeansFiles`, `DownloadedIsTheChapter`, `PageUrlIsFixed` are
  false (section 7).
- `ShelvesAreTrue`: the shelves are sorted (`SortSeq`) and chosen (`SelectSeq`), and the
  statistics are sums over sets.  The types of the shelves are proved, with `ReadingTypesOK`.

## 7. Where comments and code disagree

Shown by a run (see the findings in `PROJECT.json`): the flag of a chapter deleted
while it lands; two chapters with one location; the remote count that is lowered;
the page url that does not name one chapter for the day a browser keeps it.

Met while modelling, without a run of their own:

- `downloads/store.ts:10-13` calls positions dense; the worker deletes a finished
  row and moves a failed one without renumbering (`worker.ts:288`, `:314`), so the queue
  has holes until the next mutation.  Positions stay distinct, which is what
  readers of the queue rely on, and that is proved.
- `worker.ts:197-199` says an interruption leaves the old state or the new one; the
  old forms are removed before the rename (`worker.ts:205-207`), so a stop in
  between leaves a chapter that was downloaded with neither form.  The removals
  themselves are of one file after the other (`worker.ts:206`, `:225`, `store.ts:336`): a kill or a
  file that cannot be removed leaves part of a chapter under its finished name, flagged as
  downloaded; and a deletion that goes through the partial folder (`paths.ts:131`) while an attempt
  is at it lets the attempt publish what is left.  `FinishedFormsAreWhole` says that there is no
  other way to lack a page.
- `sources/http.ts:257-259` says requests to a host are spaced; the start is stamped
  when a request's turn comes (line 270), so retries inside a turn are paced by the
  backoff alone.
- `http.ts:521-523` says a challenged host is slowed; the interval is read when the
  request is queued (line 490), so those already in the chain keep the old pace.
- `http.ts:288-290` says an open breaker lets nothing through; it is asked once, before
  the first attempt (line 495).
- `http.ts:370-371` says `Retry-After` is obeyed; on the last attempt the loop ends
  (line 559) and the next request of the chain goes out at its own pace.
- `http.ts:536-538` says a POST is sent again once its origin is solved; when the
  challenge answers the last attempt, after two soft failures, the solve is spent
  and the `continue` ends the loop (line 542), so it is not.
- `http.ts:8-9` and `:471-472` say one connection per host; `raw()` hands out a body that
  `downloads/images.ts:104` reads after permit and turn were given up.
- `resolvers/library.ts:515-524` says removing a title must not lose its date, "so that
  putting it back is not indistinguishable from adding it for the first time", and
  that import guards the column the same way; a title put back is stamped anew
  (`library.ts:536`), while import keeps the old date (`tracker/records.ts:540`).
- `chapter.ts:277-278` moves vanished chapters so that two do not "answer to one
  reader URL"; `backup/apply.ts:251` writes a backup's orders beside those of chapters
  that came after it, and two do, until the next refresh (`RefreshSeparates`).
- `reader/progress.ts:10-12` says progress means "a chapter was actually read to the
  end"; the client reports by the order it loaded (`ReaderPage.tsx:993`), and after a
  refresh in another tab that order is another chapter, which is marked read and
  reported to the trackers in its place.
- `reader/pages.ts:544` calls the bytes of a list made from a download "local by
  definition"; the list stays when the download is deleted, and the chapter then
  answers 404 for every page until it is downloaded again.
- `reader/pages.ts:18-21` says the list is fixed once stored; two requests that both
  found none store it twice, the second whatever the source answered by then, and
  a resolved image is written to the row that has its index by then (line 590).
- `tracker/records.ts`: re-binding a row to another title carries the old title's
  progress over, as `upsertRecord` takes the larger; a refresh writes a row back
  that was unbound while it waited; and `reportProgress` returns at the first
  service that is signed out, so later services are not told (line 405).
- `tracker/records.ts:428-430` says that after a report the tracker "now agrees with the higher
  number"; a service is sent `Math.floor` of it (`anilist.ts:605`, `myanimelist.ts:407`), so the
  record of a half chapter stands above the service's; and MyAnimeList's 404 is taken for done
  (`myanimelist.ts:273`), so the record stands for a title the service does not have.
  `LocalWasRemote` is stated with both.
- `reader/pages.ts:331-345` picks the file of a page by its place among those in the folder; while
  the folder is being removed, or after a removal that was cut off, a page's place holds a later
  page.
- `downloads/paths.ts:117`: pages are named with three digits and read back in name order,
  so a chapter of a thousand pages has page 1000 before page 101.
- `downloads/paths.ts:100`: a location follows the chapter's present name; a refresh that
  renames a downloaded chapter strands its files.

### Of the server, found with the sums

- `library.ts:558-559` says details keep what a source leaves out; `applyDetails` writes back
  the row it read before its wait, so a column another path filled meanwhile is NULL
  again (`MangaDetails`).  The date is not among these columns, which `DateHolds` shows.
- `apply.ts:316-318` says a binding whose target is not there is dropped "rather than left
  dangling"; the map of rows is built before the waits (line 398), so a restore whose
  account is removed and added again between two batches binds titles of its later
  batches to rows that are gone.  The numbers are not given out again (`AUTOINCREMENT`,
  `schema.sql`), so none is another title's, which `BindingsAreRight` shows.
- `schedule.ts`: a nightly run comes up to five minutes later each night, as the
  interval counts from the end of the last one; a late slot steps past midnight and
  the run of one day is taken on the next.  `NoLongGap` says how far apart two can be.  A time
  of day may be any minute up to 23:59 (`settings.ts:53`), the checks are five minutes apart
  (`schedule.ts:36`): one after the day's last check is never met, so no first archive is made,
  and none that is to come every day.  `NoLongGap` leaves such times out (`SlotIsMet`).
- `main.ts:44-47` says seeding "cannot undo somebody's deliberate choice"; `seedDefaults` asks for
  rows before its transaction begins (`registry.ts:342`, `:348`), so the one of `user add` may
  switch on again what the new account switched off between the two (`overtaken`).
- `app.ts:240-243` says that a change of password does sign out the phone left signed in; a
  sign-in whose check was under way opens a session with the old password after it
  (`app.ts:196-210`).  No property says otherwise: `EndedStaysEnded` is of sessions that
  were there.
- `update.ts`: an update cut off before its stamp leaves a tree of two releases that
  `rollback` refuses ("no previous build") and `update` may call up to date; a rollback
  cut off between removing and copying `server/dist` cannot "simply be run again"
  (lines 334-335), because the program that would is gone; one cut off while `previous/` is
  emptied leaves a stamp with part of a tree, and the rollback then ends with a mixture, though
  the same lines say it can be run again.  `RollbackUndoes` speaks of neither (`torn`).
- `open.ts:147-148`: the depth is raised before BEGIN, so a BEGIN that fails leaves every
  later transaction of the connection running without one; `DatabaseIsWhole` holds as
  long as none has failed.
- `migrations.ts`, `open.ts:76-78`: a first start killed while `schema.sql` runs, each statement
  of which is committed by itself, or before the stamp, leaves a new database taken for
  an old one, whose later migrations would add columns that exist or miss tables that do
  not; `DatabaseIsWhole` excepts it (`half`).
- `restore.ts:96-98`: validation names a tracker the account is not signed in to; it looks
  at AniList's id and always reports MyAnimeList missing.
- `weebcentral.ts:119`: a page with a card that cannot be read is shorter than a full one,
  which ends the listing.
- `anilist.ts`: `findListEntry` and `deleteListEntry` take any error of the lookup for "not on the
  list"; `myanimelist.ts` answers null for any failure, a refusal of the server
  included, and takes a 404 for a progress update for done.
- `tachibk.ts`: a category without an order, which stands for 0 there, gets its place.
- `search.ts:205-207`: what a source answers after its deadline is said to be there for the
  next search; the page of a bulk search that comes late is not stored.

### Of the client

- *Reader.*  A late answer of an earlier chapter leaves the page on "Preparing chapter",
  replaces a prepared one by its error, or uses up `enterAtEnd` (`ReaderPage.tsx:1012` ff.).
  A failing second page of a pair is reported as seen (about line 1915), a wide page that
  leads one with it.  `ReaderPage.tsx:1184` says that turning moves by what is on screen, a
  lone page by one; a turn back goes to the begin of a pair also where spreads are off or
  the window has no room for them (:1187-1189 do not ask), so from page index 2 it goes to 0
  and a page is skipped; `TurnsReadOn` allows that one.  The auto-scroll may lose the place
  a chapter was resumed at.  Keys in the overscroll (about 1808) are heard while the options
  are open.
- *Keys.*  A stored map older than a new default leaves one key on two actions
  (about `keybinds.ts:190`).
- *Preferences.*  A page pushes its whole copy whenever it is hidden, and so reverts what
  another device has set since; a query that failed is adopted as an account with no
  preferences (`settings.ts:176`); a change not yet pushed is lost when the page is
  reloaded and adopts.  Of a title's own: an answer out of the client's cache is adopted
  before the page has walked, which drops a zoom; a change made before adoption is lost
  by walking; no override is ever removed.
- *Discover.*  `load` keeps no run number of its own; a check captures the source of the first
  render, so its lane is another than the grid's; a saved search opened on another
  source sends the filters of the one before; a shelf closed during its check keeps
  titles nobody has checked; a check that failed marks a title as empty for a week.
- *Sweep.*  Going from one query to another and back lets both second stages count, and
  the saved "all" answer lacks some or has them twice (`SearchPage.tsx:492`).  An answer of the
  first stage alone is saved with the ids of the whole batch (`SearchPage.tsx:471`,
  `sourceSearch.ts:249-250`) and, as only these are compared (:484), put back as the whole one,
  against :482-483.
- *Library jobs.*  A pull that failed rolls back by the stored record; a selection changed
  during a match search leaves rows of titles no longer picked; a batch acts on titles
  a filter hides; a sweep of a source not in the last answer reports its whole list as
  new; removing a card leaves the other row of a doubled title.
- *Shelves.*  `LibraryPage.tsx:607-612` means one card a series; line 619 stores the bare
  remote id where `trackedId` gives it with its tracker, so an untracked and a tracked
  copy may be two cards.  `libraryByBound` takes the last row bound to a source while
  the shelf shows the preferred one, so their counts may differ (554-561).  Hiding and
  its undo may arrive in the other order, and a write that fails is not noticed; a
  series hidden on this visit stays so though it is read elsewhere meanwhile.
  `trackIdentity` differs between two rows of one series when one lacks the preferred link.
- *Title page.*  Turning tracking off for a bound title turns itself on again; the answer
  about Discover's switch, late, unbinds or notes on the page walked to;
  `trackedProgress` takes the record of the last source; what `bindTo` answers is not looked
  at; a failed fetch of a title's own catalogue marks it as without chapters.
- *List and queue.*  A chapter that is done before a poll saw it queued is not shown as on
  disk until something else asks (`downloads.ts:144-149`); a queue of failed rows only is
  polled each second (137-139 speak of an idle tab).  The list stays mounted on a walk and
  adopts the title before's view (`MangaDetailPage.tsx:330-331`), or writes the browser's own
  over one that is stored; a count of pages goes on for the title before and clears the
  progress of the new one; a late check for duplicates opens the old title's dialog
  over the new page, and "Add anyway" adds the new one unchecked; a late search at the
  tracker offers the old title's matches; a deletion whose answer is lost leaves files in
  the list that are gone.
- *Restore.*  What is restored may be a backup other than the one the panel spoke of, when
  two were chosen (`SettingsPage.tsx:596-597`).

## 8. What is not modelled

Of the downloader: account removal by the command line, the columns progress,
error and enqueued_at, the throttled heartbeat, gaps SQLite leaves in primary keys.
Of the source client: `init.solveCloudflare`, which no source sets, and the sharing
of a pending solve that only it could reach; every cookie but the clearance; what a
body says.  Of tracking: the cached profile (a sign-in stores it in the same
transaction, so it is never missing later), removal from the remote list (the client
always sends false), an import's manga rows beyond the one a title lands on.

Of chapter lists: names, dates and numbers, and the bookmark, which is set and kept
as the read flag is.  Of the reader: `page_count`, covers, the ranges of image types,
a list the source answers with pages whose index has gaps (renumbered before it is
stored).  A refresh that renames chapters, composed with the location of downloads.

Of the sources: selectors, texts, dates and numbers of a card or a row, and the sites
that only give a theme its address.  Of archives: the byte order of headers, gzip and
the numbers of protobuf fields.  Of the library: columns that every path treats as
the one column that stands for them.

Of the client: markup, layout, translations, gestures' distances and times (a touch is
what it turns out to be), the forms of the settings
page, wake lock and full screen, the service worker.  The client's parts are each
modelled alone, against a server that answers in any order: that one part changes what
another has on screen enters as a change made elsewhere.

Liveness of the client (every check is made, every push arrives) is left out: its
requests have no timeout, so the code justifies no fairness of the answers.

Components without a module are listed with their reasons in `PROJECT.json`: those are
stateless.
