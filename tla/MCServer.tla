------------------------------ MODULE MCServer ------------------------------
(***************************************************************************)
(* The parts of the server that do not touch one another, in one run: the  *)
(* first state says which part moves, and the others stay as they start.   *)
(* The reachable states are those of each part, one after the other, and   *)
(* every property below speaks of all of them.                             *)
(***************************************************************************)
EXTENDS MCDownloads, MCSourceHttp, Library, MangaDetails, Sessions, Registry,
        SourceIcons, BackupSchedule, SelfUpdate, Database, SourceSites,
        TrackerServices, Archives, Listings

CONSTANTS X, Y, A, B

VARIABLE focus

MCTitles == {X, Y}
MCNames == {A, B}
MCTyped == {A}

\* An archive with a title of two categories and one of none, each read from
\* the other.
Entry(x, id, in, filed, binding) ==
    [title |-> x, id |-> id, inLibrary |-> in, categories |-> filed, binding |-> binding]
MCDocuments ==
    {[categories |-> <<[id |-> 2, name |-> A], [id |-> 1, name |-> B]>>,
      manga |-> <<Entry(X, 2, TRUE, {1, 2}, 1), Entry(Y, 1, FALSE, {}, 2)>>]}

\* A release may lack a path it need not have, or one it must.
MCPayload == <<"server/dist", "server/bin", "web/dist">>
MCRequired == {"server/dist", "web/dist"}
MCReleases ==
    {[p \in Paths |-> IF p = missingPath THEN 0 ELSE 3] :
        missingPath \in {"server/bin", "web/dist", "none"}}

Parts == {"http", "downloads", "library", "details", "sessions", "registry",
          "icons", "schedule", "update", "database", "sites",
          "services", "archives", "listings"}

\* A page with a title its source says nothing of, and one with a title it
\* does and an entry that has no address.
MCGrids ==
    {<<[url |-> "u", title |-> "t", author |-> "", status |-> "UNKNOWN"]>>,
     <<[url |-> "", title |-> "t", author |-> "", status |-> "UNKNOWN"],
       [url |-> "u", title |-> "t", author |-> "a", status |-> "ONGOING"]>>}

\* The site that stands where no site is read.
MCSite ==
    [engine |-> "asura", odd |-> {}, total |-> TRUE, mode |-> "auto", offers |-> Forms,
     client |-> FALSE, override |-> "", markup |-> "theme", param |-> "page",
     searching |-> FALSE]

\* The settings of an account whose schedule is not looked at.
MCAsLeft == CHOOSE s \in Settings : s.interval = 0

ServerInit ==
    /\ focus \in Parts
    /\ HttpInit /\ Init /\ LibraryInit /\ DetailsInit /\ SessionsInit
    /\ RegistryInit /\ IconsInit /\ ScheduleInit /\ UpdateInit /\ DatabaseInit
    /\ SitesInit /\ ServicesInit /\ ArchivesInit
    /\ ListingsInit
    /\ focus # "details" => ~shell
    /\ focus # "schedule" => settings = MCAsLeft
    /\ focus # "database" => ~tables
    /\ focus # "sites" => site = MCSite /\ shelf = <<>>
    /\ focus # "services" => clientIds = Services

ServerNext ==
    /\ UNCHANGED focus
    /\ IF focus = "http" THEN TRUE ELSE UNCHANGED httpVars
    /\ IF focus = "downloads" THEN TRUE ELSE UNCHANGED vars
    /\ IF focus = "library" THEN TRUE ELSE UNCHANGED libraryVars
    /\ IF focus = "details" THEN TRUE ELSE UNCHANGED detailsVars
    /\ IF focus = "sessions" THEN TRUE ELSE UNCHANGED sessionVars
    /\ IF focus = "registry" THEN TRUE ELSE UNCHANGED registryVars
    /\ IF focus = "icons" THEN TRUE ELSE UNCHANGED iconVars
    /\ IF focus = "schedule" THEN TRUE ELSE UNCHANGED scheduleVars
    /\ IF focus = "update" THEN TRUE ELSE UNCHANGED updateVars
    /\ IF focus = "database" THEN TRUE ELSE UNCHANGED dbVars
    /\ IF focus = "sites" THEN TRUE ELSE UNCHANGED siteVars
    /\ IF focus = "services" THEN TRUE ELSE UNCHANGED serviceVars
    /\ IF focus = "archives" THEN TRUE ELSE UNCHANGED archiveVars
    /\ IF focus = "listings" THEN TRUE ELSE UNCHANGED listingVars
    /\ CASE focus = "http" -> HttpNext
         [] focus = "downloads" -> Next
         [] focus = "library" -> LibraryNext
         [] focus = "details" -> DetailsNext
         [] focus = "sessions" -> SessionsNext
         [] focus = "registry" -> RegistryNext
         [] focus = "icons" -> IconsNext
         [] focus = "schedule" -> ScheduleNext
         [] focus = "update" -> UpdateNext
         [] focus = "database" -> DatabaseNext
         [] focus = "sites" -> SitesNext
         [] focus = "services" -> ServicesNext
         [] focus = "archives" -> ArchivesNext
         [] focus = "listings" -> ListingsNext

serverVars ==
    <<focus, httpVars, vars, libraryVars, detailsVars, sessionVars,
      registryVars, iconVars, scheduleVars, updateVars, dbVars, siteVars,
      serviceVars, archiveVars, listingVars>>

ServerSpec == ServerInit /\ [][ServerNext]_serverVars

-----------------------------------------------------------------------------
\* The variables of every part hold what its code can put there.
ServerTypesOK ==
    /\ focus = "http" => HttpTypeOK
    /\ focus = "library" => LibraryTypeOK
    /\ focus = "details" => DetailsTypeOK
    /\ focus = "sessions" => SessionsTypeOK
    /\ focus = "registry" => RegistryTypeOK
    /\ focus = "icons" => IconsTypeOK
    /\ focus = "schedule" => ScheduleTypeOK
    /\ focus = "update" => UpdateTypeOK
    /\ focus = "database" => DatabaseTypeOK
    /\ focus = "sites" => SitesTypeOK
    /\ focus = "services" => ServicesTypeOK
    /\ focus = "archives" => ArchivesTypeOK
    /\ focus = "listings" => ListingsTypeOK

\* An account's categories are in order and what each of its titles is read
\* from is right, while it edits, restores and is itself removed; its sign-ins
\* are its own and its calls to a service come to what they say (category.ts,
\* apply.ts, track.ts, oauth.ts, anilist.ts, myanimelist.ts).
AccountIsSound ==
    /\ focus = "library" => CategoriesInOrder /\ BindingsAreRight
    /\ focus = "services" => ServicesAreUsed

\* Work in the background is done once, and in time: a request waits for its
\* host, an icon for nobody else who fetches it, a key that has died is
\* renewed, and the next archive is never long behind the last (http.ts,
\* icons.ts, mangahub.ts, schedule.ts).
BackgroundIsSound ==
    /\ focus = "http" => FirstAttemptFindsHostOpen
    /\ focus = "icons" => WarmedOnce
    /\ focus = "sites" => KeyIsRenewed
    /\ focus = "schedule" => NoLongGap

\* The process may stop at any step, with these exceptions in each: a session
\* that has ended stays ended, what an account chose of its sources stands, a
\* rollback that ends undoes its update unless the files it has were thinned,
\* and a database that opens is whole unless its first start or a BEGIN failed
\* (sessions.ts, registry.ts, update.ts, migrations.ts, open.ts).
KillsAreMended ==
    /\ focus = "sessions" => EndedStaysEnded
    /\ focus = "registry" => ChoicesStand
    /\ focus = "update" => RollbackUndoes
    /\ focus = "database" => DatabaseIsWhole

\* What leaves the server or is read into it comes through: a backup restores
\* to the same library, its file is read back whole or refused, a tracker's
\* list comes in once, a walk through a site that goes on publishing misses
\* nothing, and what is listed is what was asked for (create.ts, apply.ts,
\* format.ts, tachibk.ts, multipart.ts, anilist.ts, sources/themes,
\* sources/sites, library.ts, chapter.ts, search.ts).
ExchangesAreFaithful ==
    /\ focus = "library" => BackupIsFaithful
    /\ focus = "archives" => BackupsAreReadable
    /\ focus = "services" => ListComesOnce
    /\ focus = "sites" => SitesAreRead
    /\ focus = "listings" => ListingsAreSound

\* No step breaks what was promised before it: a restore brings all of its
\* archive, a title keeps the date it was added and what was read of it, a
\* host is left its pause, and there stays an archive to restore from
\* (apply.ts, library.ts, search.ts, http.ts, schedule.ts).
PromisesAreKept ==
    [][/\ focus = "library" => RestoreIsWhole
       /\ focus = "details" => DateHolds
       /\ focus = "listings" => ListingTakesNothing
       /\ focus = "http" => StartsSpaced
       /\ focus = "schedule" => SomethingToRestore]_serverVars

\* The pause after too many attempts to sign in lasts (ratelimit.ts).
NothingIsCutShort == [][focus = "sessions" => PauseIsKept]_serverVars
=============================================================================
