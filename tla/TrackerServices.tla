--------------------------- MODULE TrackerServices ---------------------------
(***************************************************************************)
(* Signing in to AniList and MyAnimeList from the tabs of a browser        *)
(* (utils/oauth.ts, OAuthCallbackPage.tsx, resolvers/track.ts,             *)
(* tracker/credentials.ts) and the calls to their interfaces               *)
(* (tracker/anilist.ts, tracker/myanimelist.ts): retries, refusals, and a  *)
(* title's shelf and progress as each service keeps them.                  *)
(*                                                                         *)
(* Module Tracker models what is done with the answers.  A token is named  *)
(* by the account it belongs to, a verifier by a number, progress by half  *)
(* chapters, and of the services one title is kept.                        *)
(***************************************************************************)
EXTENDS Naturals, Sequences, SequencesExt, FiniteSets

CONSTANTS
    Tabs,          \* tabs of the browser
    Holders,       \* accounts the reader has at a service
    MaxStarts,     \* bound: sign-ins started
    TokenLife,     \* DEFAULT_TOKEN_LIFETIME_MS
    LastInstant,   \* bound: the clock
    Tries,         \* MAX_ATTEMPTS of the AniList client
    FallbackPause, \* FALLBACK_RETRY_SECONDS
    LongestPause,  \* MAX_RETRY_SECONDS
    Pauses,        \* what Retry-After says, 0 where it says nothing
    Halves         \* progress reported, in half chapters

ASSUME TrackerServicesAssumption ==
    /\ TokenLife \in Nat \ {0} /\ Tries \in Nat \ {0}
    /\ MaxStarts \in Nat /\ LastInstant \in Nat
    /\ "none" \notin Holders
    /\ FallbackPause \in Nat \ {0} /\ FallbackPause <= LongestPause /\ LongestPause \in Nat
    /\ Pauses \subseteq Nat /\ Halves \subseteq Nat

VARIABLES
    clientIds,   \* the services this installation has a client id for, fixed
    instant,     \* the clock
    grant,       \* table tracker_credential: token, its end and the cached profile
    tab,         \* each tab: its sessionStorage, the grants it left for, its sign-in
    spent,       \* codes redeemed at MyAnimeList
    starts,      \* sign-ins started
    kept,        \* the title on each service's list of the account
    inquiry      \* the call to a service under way, or answered

serviceVars == <<clientIds, instant, grant, tab, spent, starts, kept, inquiry>>

MyAnimeList == 1
AniList == 2
Services == {MyAnimeList, AniList}
NoGrant == [token |-> "none"]
NoInquiry == [op |-> "none"]
SignIn(at) == [at |-> at, service |-> AniList, account |-> "none", challenge |-> 0,
               verifier |-> 0, first |-> FALSE]
Enter(x, s) == tab' = [tab EXCEPT ![x].signIn = s]
Elsewhere == UNCHANGED <<clientIds, instant, kept, inquiry>>

-----------------------------------------------------------------------------
(* Signing in.                                                             *)

\* Null where the installation has no client id (and secret).
AuthUrl(t) == t \in clientIds
AuthRequiresVerifier(t) == t = MyAnimeList

\* Mutant: one place for the verifier, whichever service it is for.
OneKey(t) == MyAnimeList
KeyFor(t) == t

\* The verifier is kept by the tab, which leaves for the service.
StartTrackerLogin(x, t) ==
    /\ AuthUrl(t) /\ starts < MaxStarts
    /\ starts' = starts + 1
    /\ LET verifier == IF AuthRequiresVerifier(t) THEN starts + 1 ELSE 0
       IN  tab' = [tab EXCEPT
              ![x].stash[KeyFor(t)] = IF verifier = 0 THEN @ ELSE verifier,
              ![x].left = @ \cup {[service |-> t, challenge |-> verifier]},
              ![x].latest[t] = verifier,
              ![x].signIn = SignIn("away")]
    /\ Elsewhere /\ UNCHANGED <<grant, spent>>

\* Of the pages of the service the tab can go back and forth between, the
\* reader answers one: for an account, or for none.
Authorized(x) ==
    /\ \E g \in tab[x].left, account \in Holders \cup {"none"} :
          tab' = [tab EXCEPT
              ![x].left = @ \ {g},
              ![x].signIn = [SignIn("callback") EXCEPT
                  !.service = g.service, !.challenge = g.challenge, !.account = account,
                  !.first = (tab[x].latest[g.service] = g.challenge)],
              ![x].latest[g.service] = 0]
    /\ Elsewhere /\ UNCHANGED <<grant, spent, starts>>

\* The page that is come back to hands over the verifier, which it removes,
\* and the address.
TakeVerifier(x) ==
    /\ tab[x].signIn.at = "callback"
    /\ LET key == KeyFor(tab[x].signIn.service)
       IN  tab' = [tab EXCEPT ![x].signIn.verifier = tab[x].stash[key],
                              ![x].stash[key] = 0,
                              ![x].signIn.at = "exchange"]
    /\ Elsewhere /\ UNCHANGED <<grant, spent, starts>>

\* The address is still there to be loaded again; bound: not before the answer
\* to the first time is in.
Reload(x) ==
    /\ tab[x].signIn.at \in {"done", "failed", "refused"}
    /\ Enter(x, [tab[x].signIn EXCEPT !.at = "callback", !.first = FALSE, !.verifier = 0])
    /\ Elsewhere /\ UNCHANGED <<grant, spent, starts>>

\* AniList has put the token in the address: nothing is waited for.
TokenFromCallback(x) ==
    /\ tab[x].signIn.at = "exchange" /\ tab[x].signIn.service = AniList
    /\ Enter(x, [tab[x].signIn EXCEPT !.at = IF tab[x].signIn.account = "none" THEN "failed" ELSE "viewer"])
    /\ Elsewhere /\ UNCHANGED <<grant, spent, starts>>

\* MyAnimeList redeems a code once, for who holds its verifier; or not at all.
ExchangeCode(x) ==
    /\ tab[x].signIn.at = "exchange" /\ tab[x].signIn.service = MyAnimeList
    /\ LET s == tab[x].signIn
           code == s.challenge
       IN  \/ /\ s.account # "none" /\ s.verifier = code /\ code \notin spent
              /\ spent' = spent \cup {code}
              /\ Enter(x, [s EXCEPT !.at = "viewer"])
           \/ /\ s.account = "none" \/ code \in spent
              /\ Enter(x, [s EXCEPT !.at = "failed"])
              /\ UNCHANGED spent
           \/ /\ s.account # "none" /\ s.verifier # code /\ code \notin spent
              /\ Enter(x, [s EXCEPT !.at = "refused"])
              /\ UNCHANGED spent
           \/ Enter(x, [s EXCEPT !.at = "failed"]) /\ UNCHANGED spent
    /\ Elsewhere /\ UNCHANGED <<grant, starts>>

\* saveCredential keeps the profile of the row, saveProfile makes no row.
SaveCredential(row, token) ==
    [token |-> token, until |-> instant + TokenLife,
     profile |-> IF row = NoGrant THEN "none" ELSE row.profile]

\* Mutant: the profile of the row is taken for the token's when there is one.
ProfileKept(row, account) == IF row.profile # "none" THEN row ELSE [row EXCEPT !.profile = account]
SaveProfile(row, account) == IF row = NoGrant THEN row ELSE [row EXCEPT !.profile = account]

\* Who the token belongs to is asked before anything is kept, both at once.
SignedInAs(row, account) == SaveProfile(SaveCredential(row, account), account)

LoginTrackerOAuth(x) ==
    /\ tab[x].signIn.at = "viewer"
    /\ LET s == tab[x].signIn
       IN  \/ /\ grant' = [grant EXCEPT ![s.service] = SignedInAs(@, s.account)]
              /\ Enter(x, [s EXCEPT !.at = "done"])
           \/ Enter(x, [s EXCEPT !.at = "failed"]) /\ UNCHANGED grant
    /\ Elsewhere /\ UNCHANGED <<spent, starts>>

DeleteCredential(t) ==
    /\ grant' = [grant EXCEPT ![t] = NoGrant]
    /\ Elsewhere /\ UNCHANGED <<tab, spent, starts>>

IsExpired(row) == row # NoGrant /\ row.until <= instant
RequireCredential(t) == grant[t] # NoGrant /\ ~IsExpired(grant[t])

\* What the settings page is shown.
TrackerView(t) ==
    [isLoggedIn |-> AuthUrl(t) /\ RequireCredential(t), isTokenExpired |-> IsExpired(grant[t]),
     user |-> IF RequireCredential(t) THEN grant[t].profile ELSE "none"]

TimeGoesOn ==
    /\ instant < LastInstant
    /\ instant' = instant + 1
    /\ UNCHANGED <<clientIds, grant, tab, spent, starts, kept, inquiry>>

-----------------------------------------------------------------------------
(* Shelves: 0 none, 1 reading, 2 completed, 3 on hold, 4 dropped, 5 planned, *)
(* 6 reading again.  AniList has a word for each; MyAnimeList marks the     *)
(* last on a title that is being read.                                      *)

Unlisted == [listed |-> FALSE, word |-> "", again |-> FALSE, progress |-> 0]

AniListWords == <<"CURRENT", "COMPLETED", "PAUSED", "DROPPED", "PLANNING", "REPEATING">>
MyAnimeListWords == <<"reading", "completed", "on_hold", "dropped", "plan_to_read", "reading">>

StatusFromNumber(t, status) ==
    LET words == IF t = AniList THEN AniListWords ELSE MyAnimeListWords
    IN  IF status \in DOMAIN words THEN words[status] ELSE ""

StatusToNumber(t, word) ==
    LET numbers == {n \in 1..6 : StatusFromNumber(t, n) = word}
    IN  IF numbers = {} THEN 0 ELSE CHOOSE n \in numbers : \A k \in numbers : n <= k

\* What a list entry is to the rest of the server.
AniListEntry(e) == [status |-> StatusToNumber(AniList, e.word), last |-> e.progress]
MyAnimeListEntry(e) ==
    LET status == StatusToNumber(MyAnimeList, e.word)
    IN  [status |-> IF status = 1 /\ e.again THEN 6 ELSE status, last |-> e.progress]
EntryFrom(t, e) == IF t = AniList THEN AniListEntry(e) ELSE MyAnimeListEntry(e)

WholeChapters(halves) == halves \div 2

\* A report without a shelf leaves the shelf alone.  A title put on a list by
\* one is filed by the service.
AniListUpdate(e, halves, shelf) ==
    [listed |-> TRUE, again |-> FALSE, progress |-> WholeChapters(halves),
     word |-> IF StatusFromNumber(AniList, shelf) # "" THEN StatusFromNumber(AniList, shelf)
              ELSE IF e.listed THEN e.word ELSE "CURRENT"]

\* Mutant: the mark is only ever set.
MarkedAgain(e, shelf) == e.again \/ shelf = 6
Again(e, shelf) == IF shelf = 0 THEN e.again ELSE shelf = 6

MyAnimeListUpdate(e, halves, shelf) ==
    [listed |-> TRUE, progress |-> WholeChapters(halves), again |-> Again(e, shelf),
     word |-> IF shelf # 0 THEN StatusFromNumber(MyAnimeList, shelf)
              ELSE IF e.listed THEN e.word ELSE "reading"]

\* userMangaList: an entry without its title is passed over, and one on
\* several lists counts where it comes first.
UserMangaList(entries) ==
    SelectSeq([k \in DOMAIN entries |-> [entry |-> entries[k],
                   first |-> \A j \in 1..(k - 1) : entries[j].media # entries[k].media]],
              LAMBDA e : e.first /\ e.entry.media # 0)

-----------------------------------------------------------------------------
(* Calls, one at a time; bound: to one of the services while the other's    *)
(* list is empty.  "did" counts what the service was made to change.        *)

Inquire(t, op, halves, shelf) ==
    inquiry' = [op |-> op, service |-> t, at |-> "sent", step |-> 1, attempt |-> 1, slept |-> 0,
                halves |-> halves, shelf |-> shelf, before |-> kept[t], did |-> 0,
                lost |-> FALSE, result |-> "none", entry |-> EntryFrom(t, Unlisted)]

CallService ==
    /\ inquiry # NoInquiry => inquiry.at = "answered"
    /\ \E t \in Services :
       /\ \A other \in Services \ {t} : ~kept[other].listed
       /\ \/ Inquire(t, "find", 0, 0)
          \/ Inquire(t, "delete", 0, 0)
          \/ \E halves \in Halves, shelf \in 0..6 : Inquire(t, "update", halves, shelf)
    /\ UNCHANGED <<clientIds, instant, grant, tab, spent, starts, kept>>

Result(result) == inquiry' = [inquiry EXCEPT !.at = "answered", !.result = result]

\* An AniListError: the list entry that cannot be had is taken for one there
\* is not, and the title itself is asked for; of a deletion, likewise.
AniListFails(unreached) ==
    IF inquiry.step = 1 /\ inquiry.op = "find"
      THEN inquiry' = [inquiry EXCEPT !.step = 2, !.attempt = 1, !.lost = @ \/ unreached]
    ELSE IF inquiry.step = 1 /\ inquiry.op = "delete"
      THEN inquiry' = [inquiry EXCEPT !.at = "answered", !.result = "false", !.lost = unreached]
    ELSE Result("error")

\* Mutant: a request that was cut off is sent again.
SendAgain == inquiry' = [inquiry EXCEPT !.did = 1, !.attempt = @ + 1]
AnswerLost == inquiry' = [inquiry EXCEPT !.did = @ + 1, !.at = "answered", !.result = "error"]

\* The last attempt, or a pause too long, is the end.
RateLimited ==
    \E said \in Pauses :
        LET pause == IF said > 0 THEN said ELSE FallbackPause
        IN  IF pause > LongestPause \/ inquiry.attempt = Tries THEN AniListFails(TRUE)
            ELSE inquiry' = [inquiry EXCEPT !.attempt = @ + 1, !.slept = @ + pause]

Sent(t) == inquiry # NoInquiry /\ inquiry.at = "sent" /\ inquiry.service = t

\* What is changed and answered, or changed and cut off before the answer.
Written(t, e) ==
    /\ kept' = [kept EXCEPT ![t] = e]
    /\ inquiry' = [inquiry EXCEPT !.at = "answered", !.did = @ + 1, !.result = "true"]
Found(e) ==
    inquiry' = [inquiry EXCEPT !.at = "answered", !.result = "entry",
                               !.entry = EntryFrom(inquiry.service, e)]

AniListFindEntry(e) ==
    /\ \/ inquiry.step = 1 /\ ~e.listed /\ AniListFails(FALSE)
       \/ inquiry.step = 1 /\ e.listed /\ Found(e)
       \/ inquiry.step = 2 /\ Found(Unlisted)
    /\ UNCHANGED kept

\* The entry is looked up first, and removed by its own id.
AniListDeleteEntry(e) ==
    \/ inquiry.step = 1 /\ ~e.listed /\ AniListFails(FALSE) /\ UNCHANGED kept
    \/ /\ inquiry.step = 1 /\ e.listed
       /\ inquiry' = [inquiry EXCEPT !.step = 2, !.attempt = 1]
       /\ UNCHANGED kept
    \/ /\ inquiry.step = 2
       /\ \/ Written(AniList, Unlisted)
          \/ AnswerLost /\ kept' = [kept EXCEPT ![AniList] = Unlisted]

AniListUpdateProgress(e) ==
    LET updated == AniListUpdate(e, inquiry.halves, inquiry.shelf)
    IN  \/ Written(AniList, updated)
        \/ AnswerLost /\ kept' = [kept EXCEPT ![AniList] = updated]

\* One POST: too many, refused or unreachable, or answered.
AniListRequest ==
    /\ Sent(AniList)
    /\ LET e == kept[AniList]
       IN  \/ (RateLimited \/ AniListFails(TRUE)) /\ UNCHANGED kept
           \/ inquiry.op = "find" /\ AniListFindEntry(e)
           \/ inquiry.op = "delete" /\ AniListDeleteEntry(e)
           \/ inquiry.op = "update" /\ AniListUpdateProgress(e)
    /\ UNCHANGED <<clientIds, instant, grant, tab, spent, starts>>

\* No retries.  A lookup that fails finds nothing, and a title that is not
\* there to be removed has been.
MyAnimeListFindEntry(e) == (Found(e) \/ Result("null")) /\ UNCHANGED kept
MyAnimeListDeleteEntry(e) ==
    \/ e.listed /\ Written(MyAnimeList, Unlisted)
    \/ ~e.listed /\ Result("false") /\ UNCHANGED kept

\* A title MyAnimeList does not have answers 404 to an update, which is taken
\* for done as it is of a deletion.
MyAnimeListUpdateProgress(e) ==
    \/ Written(MyAnimeList, MyAnimeListUpdate(e, inquiry.halves, inquiry.shelf))
    \/ Result("true") /\ UNCHANGED kept

MyAnimeListRequest ==
    /\ Sent(MyAnimeList)
    /\ LET e == kept[MyAnimeList]
       IN  \/ inquiry.op = "find" /\ MyAnimeListFindEntry(e)
           \/ inquiry.op = "delete" /\ MyAnimeListDeleteEntry(e)
           \/ inquiry.op = "update" /\ MyAnimeListUpdateProgress(e)
           \/ inquiry.op # "find" /\ Result("error") /\ UNCHANGED kept
    /\ UNCHANGED <<clientIds, instant, grant, tab, spent, starts>>

\* The whole list of an account, which custom lists repeat entries in.
ListCollection ==
    /\ inquiry = NoInquiry /\ starts = 0
    /\ \E a, b, c \in [media : 0..2, progress : 0..1] :
          inquiry' = [op |-> "import", at |-> "answered", lists |-> <<a, b, c>>,
                      entries |-> UserMangaList(<<a, b, c>>)]
    /\ UNCHANGED <<clientIds, instant, grant, tab, spent, starts, kept>>

-----------------------------------------------------------------------------
ServicesInit ==
    /\ clientIds \in {Services, {AniList}}
    /\ instant = 0
    /\ grant = [t \in Services |-> NoGrant]
    /\ tab = [x \in Tabs |-> [stash |-> [t \in Services |-> 0], left |-> {},
                              latest |-> [t \in Services |-> 0], signIn |-> SignIn("app")]]
    /\ spent = {} /\ starts = 0
    /\ kept = [t \in Services |-> Unlisted]
    /\ inquiry = NoInquiry

\* Sign-ins and calls touch nothing of one another's: a run has one or the
\* other.
ServicesNext ==
    \/ /\ inquiry = NoInquiry
       /\ \/ \E x \in Tabs :
                \/ \E t \in Services : StartTrackerLogin(x, t)
                \/ Authorized(x) \/ TakeVerifier(x) \/ Reload(x)
                \/ TokenFromCallback(x) \/ ExchangeCode(x) \/ LoginTrackerOAuth(x)
          \/ \E t \in Services : grant[t] # NoGrant /\ DeleteCredential(t)
          \/ \E t \in Services : grant[t] # NoGrant /\ TimeGoesOn
    \/ /\ starts = 0
       /\ CallService \/ AniListRequest \/ MyAnimeListRequest \/ ListCollection

ServicesSpec == ServicesInit /\ [][ServicesNext]_serviceVars

-----------------------------------------------------------------------------
\* What is kept is of its kind, and a call waits no longer than its attempts
\* between them may.
ServicesTypeOK ==
    /\ instant \in 0..LastInstant /\ starts \in 0..MaxStarts
    /\ \A t \in Services : grant[t] = NoGrant \/ grant[t].token \in Holders
    /\ \A x \in Tabs : tab[x].stash \in [Services -> 0..MaxStarts]
    /\ \A t \in Services : kept[t].progress \in {0} \cup {WholeChapters(n) : n \in Halves}
    /\ inquiry.op \in {"find", "update", "delete"} =>
          inquiry.attempt <= Tries /\ inquiry.slept <= 2 * (Tries - 1) * LongestPause

\* "Connected" means a token that works, shown under the name of the account
\* it belongs to, whoever else signed in or out meanwhile (track.ts:149-152).
ConnectedIsVerified ==
    \A t \in Services :
        /\ grant[t] # NoGrant => grant[t].profile = grant[t].token
        /\ TrackerView(t).isLoggedIn => RequireCredential(t) /\ TrackerView(t).user \in Holders

\* Coming back from MyAnimeList for the sign-in started last in a tab finds
\* the verifier it was started with, whatever service was signed in to between
\* (oauth.ts:5-11), unless an older one was come back to before it.
VerifierComesBack ==
    \A x \in Tabs : tab[x].signIn.at = "refused" => ~tab[x].signIn.first

\* An update said to be done that changed nothing.
Missed == inquiry.service = MyAnimeList /\ inquiry.did = 0

\* A service is made to change what it keeps once a call at most, retries or
\* not; and what comes of a call is what it says.  One call says more than
\* came of it: an update of a title MyAnimeList does not have, whose 404 is
\* taken for done (myanimelist.ts:273, :417); that changes nothing.
CallsDoWhatTheySay ==
    inquiry.op \in {"find", "update", "delete"} /\ inquiry.at = "answered" =>
        LET now == kept[inquiry.service]
            shown == EntryFrom(inquiry.service, now)
            was == EntryFrom(inquiry.service, inquiry.before)
        IN  /\ inquiry.did <= 1
            /\ inquiry.did = 0 => now = inquiry.before
            /\ inquiry.op = "update" /\ inquiry.result = "true" /\ ~Missed =>
                  /\ shown.last = inquiry.halves \div 2
                  /\ inquiry.shelf # 0 => shown.status = inquiry.shelf
                  /\ inquiry.shelf = 0 /\ inquiry.before.listed => shown.status = was.status
            /\ inquiry.op = "delete" /\ inquiry.result \in {"true", "false"} =>
                  ~now.listed \/ inquiry.lost
            /\ inquiry.result = "entry" => inquiry.entry = shown \/ inquiry.lost

\* Every title of an account comes in once, as its first list has it.
ListComesOnce ==
    inquiry.op = "import" =>
        LET media == [k \in DOMAIN inquiry.entries |-> inquiry.entries[k].entry.media]
        IN  /\ \A j, k \in DOMAIN media : media[j] = media[k] => j = k
            /\ ToSet(media) = {e.media : e \in ToSet(inquiry.lists)} \ {0}
            /\ \A k \in DOMAIN media : \E j \in DOMAIN inquiry.lists :
                  /\ inquiry.lists[j] = inquiry.entries[k].entry
                  /\ \A i \in 1..(j - 1) : inquiry.lists[i].media # media[k]

\* What a service is to an account: a sign-in that is its own, and calls that
\* come to what they say.
ServicesAreUsed == ConnectedIsVerified /\ VerifierComesBack /\ CallsDoWhatTheySay
=============================================================================
