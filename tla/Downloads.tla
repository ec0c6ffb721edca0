------------------------------ MODULE Downloads ------------------------------
(***************************************************************************)
(* The downloader of one server process: the mutations of                  *)
(* graphql/resolvers/download.ts, the per-account run state of             *)
(* downloads/state.ts, the worker loop and its attempts of                 *)
(* downloads/worker.ts, and the deletion of downloaded chapters, over the  *)
(* queue of DownloadQueue and the files of the chapters.                   *)
(*                                                                         *)
(* JavaScript runs one callback at a time, so an action is what happens    *)
(* between two awaits.  A file operation takes effect when its await       *)
(* resolves, except where another actor can act between the effect and the *)
(* code after it: the renames that publish a chapter, and the removal of a *)
(* folder, whose files go one at a time.                                   *)
(***************************************************************************)
EXTENDS DownloadQueue, Sequences

CONSTANTS
    NumPages,       \* pages the source lists for a chapter
    NoPage,         \* the place of a page that has no file
    Gone,           \* the place of a page whose file a removal took
    NoFiles,        \* a path that does not exist
    Locations,      \* distinct values of chapterLocation
    LocationOf,     \* the location each chapter row derives
    MaxActive,      \* MAX_ACTIVE
    MaxTries,       \* MAX_TRIES
    Batches,        \* lists of chapter ids a client sends to enqueue, dequeue
    DeleteBatches,  \* and to deleteDownloadedChapters
    Targets,        \* values of reorderChapterDownload.to
    MaxRowId,       \* bound: primary keys handed out
    MaxRestarts,    \* bound: times the process stops
    AsCbz,          \* bound: what accounts may have downloadAsCbz set to
    DeletesMayFail  \* bound: whether a removal asked for may fail midway

NoChapter == NoPage

ASSUME FilesAssumption ==
    /\ NumPages \in Nat \ {0}
    /\ NoPage \notin Chapters /\ Gone \notin Chapters \cup {NoPage}
    /\ NoFiles \notin [1..NumPages -> Chapters \cup {NoPage, Gone}]

ASSUME DownloadsAssumption ==
    /\ LocationOf \in [Chapters -> Locations]
    \* chapterLocation puts the account's id into every path
    /\ \A c, d \in Chapters : LocationOf[c] = LocationOf[d] => Owner[c] = Owner[d]
    /\ MaxActive \in Nat \ {0}
    /\ MaxTries \in Nat \ {0}
    /\ Batches \subseteq Seq(Chapters)
    /\ DeleteBatches \subseteq SUBSET Chapters
    /\ \A b \in Batches : \A j, k \in DOMAIN b : b[j] = b[k] => j = k
    /\ Targets \subseteq Int
    /\ MaxRowId \in Nat
    /\ MaxRestarts \in Nat
    /\ AsCbz \subseteq BOOLEAN
    /\ DeletesMayFail \in BOOLEAN

(***************************************************************************)
(* The four paths of one chapter location (downloads/paths.ts): the        *)
(* partial folder pages are written to, the cbz being packed, and the two  *)
(* finished forms.  A folder or archive is a function from page numbers to *)
(* the chapter the page was downloaded for, so that a mixture of two       *)
(* chapters that derive the same location shows.                           *)
(***************************************************************************)
Pages == 1..NumPages

Folder == [Pages -> Chapters \cup {NoPage, Gone}]

EmptyFolder == [p \in Pages |-> NoPage]

Content == Folder \cup {NoFiles}

Location == [partial : Content, pending : Content, dir : Content, cbz : Content]

EmptyLocation ==
    [partial |-> NoFiles, pending |-> NoFiles, dir |-> NoFiles, cbz |-> NoFiles]

PagesIn(folder) == {p \in Pages : folder[p] \notin {NoPage, Gone}}

\* mkdir recursive, then alreadyOnDisk: of the pages that are not there it does
\* not matter which were there before.
MakePartial(loc) ==
    [loc EXCEPT !.partial =
        IF @ = NoFiles THEN EmptyFolder
        ELSE [p \in Pages |-> IF @[p] = Gone THEN NoPage ELSE @[p]]]

WritePage(loc, p, c) == [loc EXCEPT !.partial = [@ EXCEPT ![p] = c]]

RemoveCbz(loc) == [loc EXCEPT !.cbz = NoFiles]

\* rm recursive unlinks one file after the other, and the folder at the end.
Unlinked(folder) ==
    IF folder = NoFiles THEN {} ELSE {[folder EXCEPT ![p] = Gone] : p \in PagesIn(folder)}

ThinDir(loc) == {[loc EXCEPT !.dir = f] : f \in Unlinked(loc.dir)}

ThinPartial(loc) == {[loc EXCEPT !.partial = f] : f \in Unlinked(loc.partial)}

RemoveDir(loc) == [loc EXCEPT !.dir = NoFiles]

RemovePartial(loc) == [loc EXCEPT !.partial = NoFiles]

\* rename(partial, dir)
PublishDir(loc) == [loc EXCEPT !.dir = loc.partial, !.partial = NoFiles]

Pack(loc) == [loc EXCEPT !.pending = loc.partial]

\* rename(pending, cbz)
PublishCbz(loc) == [loc EXCEPT !.cbz = loc.pending, !.pending = NoFiles]

\* Something of the chapter can be read offline: its folder or its cbz.
HasFiles(loc) == loc.dir # NoFiles \/ loc.cbz # NoFiles

\* Each finished form that is there is every page of chapter c but those that a
\* removal took.
HoldsOnly(loc, c) ==
    \A f \in {loc.dir, loc.cbz} \ {NoFiles} : \A p \in Pages : f[p] \in {c, Gone}

------------------------------------------------------------------------------
VARIABLES
    queue,       \* table download_queue
    nextId,      \* its AUTOINCREMENT counter
    downloaded,  \* chapters whose is_downloaded is 1
    disk,        \* the files of each location
    worker,      \* the process: "up", "stopping" (stop() has run) or "down"
    running,     \* accounts whose downloader is STARTED
    lastServed,  \* the account last handed a slot, 0 for none
    attempt,     \* the attempt in flight for each account
    deleting,    \* the deleteDownloaded call in progress for each account
    restarts     \* how often the process has stopped

persistent == <<queue, nextId, downloaded, disk>>
memory == <<running, lastServed, attempt, deleting>>
vars == <<queue, nextId, downloaded, disk, worker,
          running, lastServed, attempt, deleting, restarts>>

-----------------------------------------------------------------------------
(* The state of an attempt: where it is suspended, the row it claimed, the *)
(* tries that row had before the claim, the page being fetched and the     *)
(* pages alreadyOnDisk found.                                              *)

AttemptPC == {"idle", "listing", "opening", "fetching", "rmCbz", "rmDir",
              "publishDir", "pack", "rmDirForCbz", "publishCbz", "rmPartial",
              "landed"}

Attempt == [pc : AttemptPC, row : Nat, chapter : Chapters \cup {NoChapter},
            tries : Nat, page : 0..NumPages, present : SUBSET Pages]

NoAttempt == [pc |-> "idle", row |-> 0, chapter |-> NoChapter,
              tries |-> 0, page |-> 0, present |-> {}]

Deletion == [step : {"idle", "dir", "partial", "cbz"},
             all : SUBSET Chapters, left : SUBSET Chapters,
             current : Chapters \cup {NoChapter}]

NoDeletion == [step |-> "idle", all |-> {}, left |-> {}, current |-> NoChapter]

Alive == worker = "up"

Active == {u \in Users : attempt[u].pc # "idle"}

\* stillWanted
Wanted(u) ==
    /\ Alive
    /\ u \in running
    /\ attempt[u].row \in DOMAIN queue
    /\ queue[attempt[u].row].state = "DOWNLOADING"

FilesOf(c) == disk[LocationOf[c]]

AttemptFiles(u) == FilesOf(attempt[u].chapter)

SetFiles(c, files) == disk' = [disk EXCEPT ![LocationOf[c]] = files]

Init ==
    /\ queue = [i \in {} |-> 0]
    /\ nextId = 1
    /\ downloaded = {}
    /\ disk = [l \in Locations |-> EmptyLocation]
    /\ worker = "up"
    /\ running = {}
    /\ lastServed = 0
    /\ attempt = [u \in Users |-> NoAttempt]
    /\ deleting = [u \in Users |-> NoDeletion]
    /\ restarts = 0

-----------------------------------------------------------------------------
(* The mutations.  Each is synchronous, and answered while the process     *)
(* lives: requests already accepted are served after stop() as well.       *)

Serving == worker # "down"

\* setDownloaderState
SetDownloaderState(u, started) ==
    running' = IF started THEN running \cup {u} ELSE running \ {u}

EnqueueDownloads(u, wanted) ==
    /\ Serving
    /\ nextId + Len(wanted) <= MaxRowId
    /\ queue' = Enqueue(queue, nextId - 1, downloaded, u, wanted)
    /\ nextId' = nextId + Len(wanted)
    /\ UNCHANGED <<downloaded, disk, worker, memory, restarts>>

\* Mutant: taking out the last chapter leaves the account STARTED.
DequeueStaysStarted(u, chapters) ==
    /\ Serving
    /\ queue' = Dequeue(queue, u, chapters)
    /\ UNCHANGED <<nextId, downloaded, disk, worker, memory, restarts>>

DequeueDownloads(u, chapters) ==
    /\ Serving
    /\ queue' = Dequeue(queue, u, chapters)
    /\ SetDownloaderState(u, u \in running /\ HasPendingWork(queue', u))
    /\ UNCHANGED <<nextId, downloaded, disk, worker, lastServed, attempt, deleting, restarts>>

StartDownloader(u) ==
    /\ Serving
    /\ SetDownloaderState(u, HasPendingWork(queue, u))
    /\ UNCHANGED <<persistent, worker, lastServed, attempt, deleting, restarts>>

StopDownloader(u) ==
    /\ Serving
    /\ SetDownloaderState(u, FALSE)
    /\ queue' = Pause(queue, u)
    /\ UNCHANGED <<nextId, downloaded, disk, worker, lastServed, attempt, deleting, restarts>>

ClearDownloader(u) ==
    /\ Serving
    /\ SetDownloaderState(u, FALSE)
    /\ queue' = Clear(queue, u)
    /\ UNCHANGED <<nextId, downloaded, disk, worker, lastServed, attempt, deleting, restarts>>

ReorderDownload(u, c, to) ==
    /\ Serving
    /\ queue' = Reorder(queue, u, c, to)
    /\ UNCHANGED <<nextId, downloaded, disk, worker, memory, restarts>>

Mutation ==
    \E u \in Users :
        \/ \E b \in Batches : EnqueueDownloads(u, b)
        \/ \E b \in Batches : DequeueDownloads(u, Range(b))
        \/ StartDownloader(u)
        \/ StopDownloader(u)
        \/ ClearDownloader(u)
        \/ \E c \in Chapters, to \in Targets : ReorderDownload(u, c, to)

-----------------------------------------------------------------------------
(* deleteDownloaded: the rows are read once, then the three paths of each  *)
(* chapter are removed one await at a time, the folders file by file, then *)
(* the flags are cleared.  A removal that fails ends the call.             *)

DeleteBegin(u, chapters) ==
    LET mine == {c \in chapters : Owner[c] = u}
    IN  /\ Serving
        /\ deleting[u] = NoDeletion
        /\ mine # {}
        /\ deleting' = [deleting EXCEPT ![u] =
                [step |-> "dir", all |-> mine, left |-> mine, current |-> NoChapter]]
        /\ UNCHANGED <<persistent, worker, running, lastServed, attempt, restarts>>

\* The chapter a deletion is at: the next, or the one whose folder it is in.
InHand(u) == IF deleting[u].current = NoChapter THEN deleting[u].left ELSE {deleting[u].current}

DeleteDir(u) ==
    /\ deleting[u].step = "dir"
    /\ \E c \in InHand(u) :
        \/ /\ SetFiles(c, RemoveDir(FilesOf(c)))
           /\ deleting' = [deleting EXCEPT ![u] = [@ EXCEPT !.step = "partial", !.current = c]]
        \/ /\ \E files \in ThinDir(FilesOf(c)) : SetFiles(c, files)
           /\ deleting' = [deleting EXCEPT ![u] = [@ EXCEPT !.current = c]]
    /\ UNCHANGED <<queue, nextId, downloaded, worker, running, lastServed, attempt, restarts>>

DeletePartial(u) ==
    LET c == deleting[u].current
    IN  /\ deleting[u].step = "partial"
        /\ \/ /\ SetFiles(c, RemovePartial(FilesOf(c)))
              /\ deleting' = [deleting EXCEPT ![u] = [@ EXCEPT !.step = "cbz"]]
           \/ /\ \E files \in ThinPartial(FilesOf(c)) : SetFiles(c, files)
              /\ UNCHANGED deleting
        /\ UNCHANGED <<queue, nextId, downloaded, worker, running, lastServed, attempt, restarts>>

DeleteCbz(u) ==
    LET c == deleting[u].current
    IN  /\ deleting[u].step = "cbz"
        /\ SetFiles(c, RemoveCbz(FilesOf(c)))
        /\ deleting' = [deleting EXCEPT ![u] =
                [step |-> "dir", all |-> deleting[u].all,
                 left |-> deleting[u].left \ {c}, current |-> NoChapter]]
        /\ UNCHANGED <<queue, nextId, downloaded, worker, running, lastServed, attempt, restarts>>

DeleteFlags(u) ==
    /\ deleting[u].step = "dir"
    /\ deleting[u].left = {}
    /\ downloaded' = downloaded \ deleting[u].all
    /\ deleting' = [deleting EXCEPT ![u] = NoDeletion]
    /\ UNCHANGED <<queue, nextId, disk, worker, running, lastServed, attempt, restarts>>

\* A path could not be removed: the call ends, and the flags stay.
DeleteFails(u) ==
    /\ DeletesMayFail
    /\ deleting[u].step # "idle" /\ deleting[u].left # {}
    /\ deleting' = [deleting EXCEPT ![u] = NoDeletion]
    /\ UNCHANGED <<persistent, worker, running, lastServed, attempt, restarts>>

DeleteDownloaded(u) ==
    \/ \E cs \in DeleteBatches : DeleteBegin(u, cs)
    \/ DeleteDir(u)
    \/ DeletePartial(u)
    \/ DeleteCbz(u)
    \/ DeleteFlags(u)
    \/ DeleteFails(u)

-----------------------------------------------------------------------------
(* The loop: fillSlots and the claims it makes before the first await.     *)

Candidates ==
    {u \in running : HasQueuedWork(queue, u) /\ attempt[u].pc = "idle"}

\* Mutant: every pass starts from the first account.
AheadByName(u, v) == u < v

\* u comes before v in a pass that resumes just past lastServed.
Ahead(u, v) ==
    \/ u > lastServed /\ v <= lastServed
    \/ (u > lastServed <=> v > lastServed) /\ u < v

\* Mutant: the slots taken by earlier passes are forgotten.
ChosenPerPass ==
    {u \in Candidates : Cardinality({v \in Candidates : Ahead(v, u)}) < MaxActive}

Chosen ==
    {u \in Candidates :
        Cardinality({v \in Candidates : Ahead(v, u)}) + Cardinality(Active) < MaxActive}

Claimed == {NextQueued(queue, u) : u \in Chosen}

FillSlots ==
    /\ Alive
    /\ Chosen # {}
    /\ queue' = [i \in DOMAIN queue |->
            IF i \in Claimed
            THEN [queue[i] EXCEPT !.state = "DOWNLOADING", !.tries = @ + 1]
            ELSE queue[i]]
    /\ attempt' = [u \in Users |->
            IF u \in Chosen
            THEN LET i == NextQueued(queue, u)
                 IN  [pc |-> "listing", row |-> i, chapter |-> queue[i].chapter,
                      tries |-> queue[i].tries, page |-> 0, present |-> {}]
            ELSE attempt[u]]
    /\ lastServed' = CHOOSE u \in Chosen : \A v \in Chosen : u = v \/ Ahead(v, u)
    /\ UNCHANGED <<nextId, downloaded, disk, worker, running, deleting, restarts>>

-----------------------------------------------------------------------------
(* One attempt: downloadChapter, finish, recordFailure and the end of      *)
(* runSlot.                                                                *)

\* Mutant: the account is never turned off.
EndAttemptStarted(u) ==
    /\ attempt' = [attempt EXCEPT ![u] = NoAttempt]
    /\ UNCHANGED running

EndAttempt(u) ==
    /\ attempt' = [attempt EXCEPT ![u] = NoAttempt]
    /\ running' = IF Alive /\ ~HasQueuedWork(queue', u) THEN running \ {u} ELSE running

\* Mutant: the row goes back without its try.
HandBackKeepsTry(u) ==
    LET i == attempt[u].row
    IN  queue' = IF Alive /\ i \in DOMAIN queue
                 THEN [queue EXCEPT ![i] = [@ EXCEPT !.state = "QUEUED"]]
                 ELSE queue

\* The outcome 'paused': the row, if it is still there, gets its try back.
HandBack(u) ==
    LET i == attempt[u].row
    IN  queue' = IF Alive /\ i \in DOMAIN queue
                 THEN [queue EXCEPT ![i] =
                        [@ EXCEPT !.state = "QUEUED", !.tries = attempt[u].tries]]
                 ELSE queue

StepAway(u) == HandBack(u) /\ EndAttempt(u)

Goto(u, pc) ==
    /\ attempt' = [attempt EXCEPT ![u] = [@ EXCEPT !.pc = pc]]
    /\ UNCHANGED <<queue, running>>

\* Mutant: what is already on disk is not looked at.
MissingAll(present, done) == {p \in Pages : p > done}

Missing(present, done) == {p \in Pages : p > done /\ p \notin present}

\* The page loop after page "done", up to the next fetch or to finish().
NextPage(u, present, done) ==
    /\ IF Missing(present, done) = {}
       THEN \E asCbz \in AsCbz :
                attempt' = [attempt EXCEPT ![u] =
                        [@ EXCEPT !.pc = IF asCbz THEN "pack" ELSE "rmCbz", !.present = present]]
       ELSE \E p \in Missing(present, done) :
                /\ \A r \in Missing(present, done) : p <= r
                /\ attempt' = [attempt EXCEPT ![u] =
                        [@ EXCEPT !.pc = "fetching", !.page = p, !.present = present]]
    /\ UNCHANGED <<queue, running>>

AttemptFrame == UNCHANGED <<nextId, worker, lastServed, deleting, restarts>>

\* getPageList has answered.
ListPages(u) ==
    /\ attempt[u].pc = "listing"
    /\ \/ Wanted(u) /\ Goto(u, "opening")
       \/ ~Wanted(u) /\ StepAway(u)
    /\ UNCHANGED <<downloaded, disk>>
    /\ AttemptFrame

\* mkdir and alreadyOnDisk have answered.
OpenPartial(u) ==
    LET files == MakePartial(AttemptFiles(u))
    IN  /\ attempt[u].pc = "opening"
        /\ SetFiles(attempt[u].chapter, files)
        /\ \/ Wanted(u) /\ NextPage(u, PagesIn(files.partial), 0)
           \/ ~Wanted(u) /\ StepAway(u)
        /\ UNCHANGED downloaded
        /\ AttemptFrame

\* Mutant: the folder is made again when it is gone.
StorePageAnyway(u) ==
    LET before == AttemptFiles(u)
        files == WritePage(IF before.partial = NoFiles THEN MakePartial(before) ELSE before,
                           attempt[u].page, attempt[u].chapter)
    IN  /\ attempt[u].pc = "fetching"
        /\ SetFiles(attempt[u].chapter, files)
        /\ \/ Wanted(u) /\ NextPage(u, attempt[u].present, attempt[u].page)
           \/ ~Wanted(u) /\ StepAway(u)
        /\ UNCHANGED downloaded
        /\ AttemptFrame

\* A page has been fetched, written and renamed; with the folder gone it fails.
StorePage(u) ==
    LET files == WritePage(AttemptFiles(u), attempt[u].page, attempt[u].chapter)
    IN  /\ attempt[u].pc = "fetching"
        /\ AttemptFiles(u).partial # NoFiles
        /\ SetFiles(attempt[u].chapter, files)
        /\ \/ Wanted(u) /\ NextPage(u, attempt[u].present, attempt[u].page)
           \/ ~Wanted(u) /\ StepAway(u)
        /\ UNCHANGED downloaded
        /\ AttemptFrame

\* One await of finish(); an operation on a path that is gone fails instead.
FileStep(u, from, possible, files, to) ==
    /\ attempt[u].pc = from
    /\ possible
    /\ SetFiles(attempt[u].chapter, files)
    /\ Goto(u, to)
    /\ UNCHANGED downloaded
    /\ AttemptFrame

\* finish(), the folder form
FinishAsFolder(u) ==
    LET files == AttemptFiles(u)
        ready == files.partial # NoFiles
    IN  \/ FileStep(u, "rmCbz", TRUE, RemoveCbz(files), "rmDir")
        \/ /\ attempt[u].pc = "rmDir"
           /\ \E less \in ThinDir(files) : FileStep(u, "rmDir", TRUE, less, "rmDir")
        \/ FileStep(u, "rmDir", TRUE, RemoveDir(files), "publishDir")
        \/ FileStep(u, "publishDir", ready, PublishDir(files), "landed")

\* finish(), the cbz form
FinishAsCbz(u) ==
    LET files == AttemptFiles(u)
        ready == files.partial # NoFiles
    IN  \/ FileStep(u, "pack", ready, Pack(files), "rmDirForCbz")
        \/ /\ attempt[u].pc = "rmDirForCbz"
           /\ \E less \in ThinDir(files) : FileStep(u, "rmDirForCbz", TRUE, less, "rmDirForCbz")
        \/ FileStep(u, "rmDirForCbz", TRUE, RemoveDir(files), "publishCbz")
        \/ FileStep(u, "publishCbz", TRUE, PublishCbz(files), "rmPartial")
        \/ /\ attempt[u].pc = "rmPartial"
           /\ \E less \in ThinPartial(files) : FileStep(u, "rmPartial", TRUE, less, "rmPartial")
        \/ FileStep(u, "rmPartial", TRUE, RemovePartial(files), "landed")

\* finish() has returned: the transaction, unless the worker was stopped.
Complete(u) ==
    /\ attempt[u].pc = "landed"
    /\ \/ /\ Alive
          /\ downloaded' = downloaded \cup {attempt[u].chapter}
          /\ queue' = Delete(queue, {attempt[u].row})
          /\ EndAttempt(u)
       \/ ~Alive /\ StepAway(u) /\ UNCHANGED downloaded
    /\ UNCHANGED disk
    /\ AttemptFrame

\* Mutant: one try too few.
FailedEarly(row, tries, tail) ==
    IF tries + 1 < MaxTries
    THEN [row EXCEPT !.state = "QUEUED", !.tries = tries, !.position = tail,
                     !.failed = @ + 1]
    ELSE [row EXCEPT !.state = "ERROR", !.tries = tries, !.failed = @ + 1]

Failed(row, tries, tail) ==
    IF tries < MaxTries
    THEN [row EXCEPT !.state = "QUEUED", !.tries = tries, !.position = tail,
                     !.failed = @ + 1]
    ELSE [row EXCEPT !.state = "ERROR", !.tries = tries, !.failed = @ + 1]

\* Mutant: recorded whether or not the worker still runs.
RecordFailureStopped(u) ==
    LET i == attempt[u].row
    IN  queue' = IF i \in DOMAIN queue
                 THEN [queue EXCEPT ![i] =
                        Failed(queue[i], attempt[u].tries + 1, NextPosition(queue, u))]
                 ELSE queue

\* Mutant: a chapter that is given up is dropped.
RecordFailureDrops(u) ==
    LET i == attempt[u].row
    IN  queue' = IF ~Alive \/ i \notin DOMAIN queue THEN queue
                 ELSE IF attempt[u].tries + 1 >= MaxTries THEN Delete(queue, {i})
                 ELSE [queue EXCEPT ![i] =
                        Failed(queue[i], attempt[u].tries + 1, NextPosition(queue, u))]

\* recordFailure
RecordFailure(u) ==
    LET i == attempt[u].row
    IN  queue' = IF Alive /\ i \in DOMAIN queue
                 THEN [queue EXCEPT ![i] =
                        Failed(queue[i], attempt[u].tries + 1, NextPosition(queue, u))]
                 ELSE queue

\* Any await of the attempt may reject: the source, the network, the disk.
AttemptFails(u) ==
    /\ attempt[u].pc \notin {"idle", "landed"}
    /\ RecordFailure(u)
    /\ EndAttempt(u)
    /\ UNCHANGED <<downloaded, disk>>
    /\ AttemptFrame

AttemptStep(u) ==
    \/ ListPages(u)
    \/ OpenPartial(u)
    \/ StorePage(u)
    \/ FinishAsFolder(u)
    \/ FinishAsCbz(u)
    \/ Complete(u)
    \/ AttemptFails(u)

-----------------------------------------------------------------------------
(* The process.  stop() leaves the attempts to notice by themselves; they  *)
(* and the requests in progress die with the process.                      *)

StopWorker ==
    /\ Alive
    /\ restarts < MaxRestarts
    /\ worker' = "stopping"
    /\ running' = {}
    /\ queue' = ReleaseInFlight(queue)
    /\ restarts' = restarts + 1
    /\ UNCHANGED <<nextId, downloaded, disk, lastServed, attempt, deleting>>

Exit ==
    /\ \/ worker = "stopping" /\ UNCHANGED restarts
       \/ Alive /\ restarts < MaxRestarts /\ restarts' = restarts + 1
    /\ worker' = "down"
    /\ running' = {}
    /\ lastServed' = 0
    /\ attempt' = [u \in Users |-> NoAttempt]
    /\ deleting' = [u \in Users |-> NoDeletion]
    /\ UNCHANGED persistent

\* Mutant: rows of the process before are left as they were.
StartWithoutRelease ==
    /\ worker = "down"
    /\ worker' = "up"
    /\ UNCHANGED <<persistent, memory, restarts>>

StartDownloadWorker ==
    /\ worker = "down"
    /\ worker' = "up"
    /\ queue' = ReleaseInFlight(queue)
    /\ UNCHANGED <<nextId, downloaded, disk, memory, restarts>>

-----------------------------------------------------------------------------
Next ==
    \/ Mutation
    \/ \E u \in Users : DeleteDownloaded(u)
    \/ FillSlots
    \/ \E u \in Users : AttemptStep(u)
    \/ StopWorker
    \/ Exit
    \/ StartDownloadWorker

Spec == Init /\ [][Next]_vars

(* Every await of an attempt settles (the HTTP client has timeouts), and   *)
(* the loop wakes at the latest IDLE_MS after it went to sleep.            *)
Fairness ==
    /\ WF_vars(FillSlots)
    /\ \A u \in Users : WF_vars(AttemptStep(u))

FairSpec == Spec /\ Fairness
-----------------------------------------------------------------------------
(* Properties.                                                             *)

InFlight(u, i) == attempt[u].pc # "idle" /\ attempt[u].row = i

TypeOK ==
    /\ DOMAIN queue \subseteq 1..(nextId - 1)
    /\ nextId \in 1..(MaxRowId + 1)
    /\ \A i \in DOMAIN queue : queue[i] \in Row
    /\ downloaded \subseteq Chapters
    /\ disk \in [Locations -> Location]
    /\ worker \in {"up", "stopping", "down"}
    /\ running \subseteq Users
    /\ lastServed \in Users \cup {0}
    /\ attempt \in [Users -> Attempt]
    /\ deleting \in [Users -> Deletion]
    /\ restarts \in 0..MaxRestarts

(* The queue is per account: a row belongs to the owner of its chapter, no *)
(* chapter is queued twice, and an attempt works on its own account's      *)
(* chapter (store.ts: every statement filters on user_id).                 *)
QueueIsPerAccount ==
    /\ \A i \in DOMAIN queue : queue[i].user = Owner[queue[i].chapter]
    /\ \A i, j \in DOMAIN queue : queue[i].chapter = queue[j].chapter => i = j
    /\ \A u \in Users : attempt[u].pc # "idle" => Owner[attempt[u].chapter] = u

(* No two rows of an account share a position, whatever mix of enqueue,    *)
(* dequeue, reorder, completion and retry produced them; renumber's comment*)
(* calls two rows at one position the thing a reader must never observe.   *)
PositionsDistinct ==
    \A i, j \in DOMAIN queue :
        queue[i].user = queue[j].user /\ queue[i].position = queue[j].position => i = j

(* A row reads DOWNLOADING only while the account's attempt on exactly that*)
(* row is in flight and the account is STARTED: after a pause, a dequeue,  *)
(* a crash or a stop, no row describes work nobody is doing.               *)
DownloadingIsReal ==
    \A i \in DOMAIN queue :
        queue[i].state = "DOWNLOADING" =>
            worker = "down" \/ (Alive /\ InFlight(queue[i].user, i) /\ queue[i].user \in running)

(* At most MAX_ACTIVE chapters are in flight on the whole server, through  *)
(* every order of claims, pauses, restarts and ends of attempts.           *)
ActiveBounded == Cardinality(Active) <= MaxActive

(* While the worker lives, a STARTED account has something to do: a row    *)
(* waiting or an attempt in flight.  Otherwise its client would poll a     *)
(* queue that never changes.                                               *)
StartedHasWork ==
    Alive => \A u \in running : HasQueuedWork(queue, u) \/ attempt[u].pc # "idle"

(* tries counts the attempts that failed, plus the one in flight, plus at  *)
(* most one for every stop of the process that cut an attempt short: a     *)
(* pause costs nothing, however it interleaves with the attempt.           *)
TriesCountAttempts ==
    \A i \in DOMAIN queue :
        LET now == IF Alive /\ InFlight(queue[i].user, i) THEN 1 ELSE 0
        IN  queue[i].failed + now <= queue[i].tries
            /\ queue[i].tries <= queue[i].failed + now + restarts

(* A chapter is given up only after MAX_TRIES attempts were made, of which *)
(* all but those a stop of the process cut short really failed.            *)
ErrorMeansExhausted ==
    \A i \in DOMAIN queue :
        queue[i].state = "ERROR" =>
            queue[i].tries >= MaxTries /\ queue[i].failed + restarts >= MaxTries

(* What is under a finished name came there whole, and lacks only what a   *)
(* removal has taken since: it is every page of the chapter but those, and *)
(* of no other, even when pauses, failures, deletions and crashes cut      *)
(* earlier attempts at any point and the partial folder was reused.  A     *)
(* removal that is cut off leaves the rest of the chapter there, and one   *)
(* that takes the partial folder under an attempt lets that attempt publish*)
(* what is left: worker.ts:196-199 says neither is possible.  (For chapters*)
(* with a location of their own.)                                          *)
FinishedFormsAreWhole ==
    \A c \in Chapters :
        (\A d \in Chapters : LocationOf[d] = LocationOf[c] => d = c)
            => HoldsOnly(FilesOf(c), c)

(* An attempt that resumes asks the source only for pages that have no     *)
(* file, though it decides that from the one look it took at the folder.   *)
ResumeFetchesOnlyMissing ==
    [][\A u \in Users :
            StorePage(u) => AttemptFiles(u).partial[attempt[u].page] = NoPage]_vars

(* A chapter called downloaded can be read offline: its files are there,   *)
(* while no deletion is in progress and it has not been queued again.      *)
SettledFlagMeansFiles ==
    \A c \in downloaded :
        \/ HasFiles(FilesOf(c))
        \/ deleting[Owner[c]].step # "idle"
        \/ \E i \in DOMAIN queue : queue[i].chapter = c
        \/ attempt[Owner[c]].chapter = c

(* What is called downloaded is the chapter itself, whole, whatever other  *)
(* chapters of the account share its location.                             *)
DownloadedIsTheChapter == \A c \in downloaded : HoldsOnly(FilesOf(c), c)

(* After stop() the worker writes nothing more to the database: what the   *)
(* process does with the queue and the flags until it exits is done by     *)
(* requests, never by an attempt that has not noticed yet.                 *)
NoWritesAfterStop ==
    [][~Alive /\ (\E u \in Users : attempt'[u] # attempt[u]) => UNCHANGED <<queue, downloaded>>]_vars

(* A row leaves the queue only because the attempt on that very row has    *)
(* carried every page through and its chapter is called downloaded, or     *)
(* because its account took it out: never through a failure, a pause, a    *)
(* deletion or a restart.                                                  *)
RowsLeaveForAReason ==
    [][\A i \in DOMAIN queue \ DOMAIN queue' :
            LET u == queue[i].user
            IN  \/ /\ InFlight(u, i) /\ attempt[u].pc = "landed"
                   /\ queue[i].chapter \in downloaded'
                \/ \E b \in Batches : DequeueDownloads(u, Range(b))
                \/ ClearDownloader(u)]_vars

(* Round robin: a STARTED account with a chapter waiting gets an attempt,  *)
(* whatever the other accounts do with their queues.                       *)
EveryAccountServed ==
    \A u \in Users :
        (Alive /\ u \in running /\ HasQueuedWork(queue, u))
            ~> (~Alive \/ u \notin running \/ attempt[u].pc # "idle"
                \/ ~HasQueuedWork(queue, u))

(* The downloader turns itself off: with a failing source too, a started   *)
(* account works its queue down to finished and given-up chapters.         *)
DownloaderTurnsOff ==
    \A u \in Users : (Alive /\ u \in running) ~> (~Alive \/ u \notin running)

-----------------------------------------------------------------------------
(* What an account sees of a chapter's entry in the queue.                 *)
StatusOf(c) ==
    IF \E i \in DOMAIN queue : queue[i].chapter = c
    THEN queue[CHOOSE i \in DOMAIN queue : queue[i].chapter = c].state
    ELSE "none"

Contract == INSTANCE DownloaderContract WITH
    status <- [c \in Chapters |-> StatusOf(c)],
    started <- running,
    done <- downloaded

(* Every step of the queue, the attempts and the process is a step of the  *)
(* contract or changes nothing it talks about.                             *)
KeepsContract == Contract!ContractSpec
=============================================================================
