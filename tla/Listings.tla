------------------------------ MODULE Listings ------------------------------
(***************************************************************************)
(* What an account is shown: the lists of its titles and chapters          *)
(* (graphql/resolvers/library.ts, chapter.ts) and what its sources have    *)
(* (search.ts), asked one at a time or several at once.                    *)
(*                                                                         *)
(* A column holds a number or a text.  An argument that may be left out is *)
(* a set of at most one value.                                             *)
(***************************************************************************)
EXTENDS Integers, Sequences, SequencesExt, FiniteSets

CONSTANTS
    Catalogues,    \* the sources there are
    Runners,       \* how many of a bulk search are asked at a time
    Grids          \* bound: what a source may have on a page

Item == [url : STRING, title : STRING, author : STRING, status : STRING]

ASSUME ListingsAssumption ==
    /\ Runners \in Nat \ {0}
    /\ \A page \in Grids : page \in Seq(Item)

VARIABLES
    query,     \* the list that was asked for, and its answer
    stored,    \* the account's titles, by where they are read
    browsing,      \* the browsing under way, or the last
    late       \* sources still at work when their wait was over

listingVars == <<query, stored, browsing, late>>

-----------------------------------------------------------------------------
(* Lists of what is stored.                                                *)

Num(n) == [type |-> "number", v |-> n]
Text(s) == [type |-> "text", v |-> s]

\* Numbers come before texts, whatever they are; texts are numbered by place.
Sorts(a, b) == IF a.type = b.type THEN a.v < b.v ELSE a.type = "number"

Clause(column, op, arg) == [column |-> column, op |-> op, arg |-> arg]

IntFilterClauses(column, f) ==
    {Clause(column, "=", v) : v \in f.equalTo} \cup {Clause(column, "<>",
                                                            v) : v \in f.notEqualTo}
        \cup {Clause(column, "in", S) : S \in f.in}
        \cup {Clause(column, "not in", S) : S \in f.notIn \ {{}}}
        \cup {Clause(column, ">", v) : v \in f.greaterThan}
        \cup {Clause(column, "<", v) : v \in f.lessThan}

BooleanFilterClauses(column, f) ==
    {Clause(column, "=", v) : v \in f.equalTo} \cup {Clause(column, "<>",
                                                            v) : v \in f.notEqualTo}

\* Mutant: what a stamp is compared with stays the text it came as.
AsItCame(column, f) == {Clause(column, ">", v) : v \in f.greaterThan}
\* A stamp arrives as digits, and as a text it would come after every number.
LongIntFilterClauses(column, f) == {Clause(column, ">", Num(v.v)) : v \in f.greaterThan}

\* A source id is a text, compared as one but for the order.
LongTextFilterClauses(column, f) ==
    {Clause(column, "=", v) : v \in f.equalTo} \cup {Clause(column, "in", S) : S \in f.in}

Holds(row, c) ==
    CASE c.op = "=" -> row[c.column] = c.arg
      [] c.op = "<>" -> row[c.column] # c.arg
      [] c.op = "in" -> row[c.column] \in c.arg
      [] c.op = "not in" -> row[c.column] \notin c.arg
      [] c.op = ">" -> Sorts(c.arg, row[c.column])
      [] c.op = "<" -> Sorts(row[c.column], c.arg)

\* What is asked of a column there is, then the id; or else the usual order.
OrderClause(order, columns, usual) ==
    LET rules == SelectSeq(order, LAMBDA r : r.by \in columns)
    IN  IF rules = <<>> THEN usual ELSE Append(rules, [by |-> "id", byType |-> "ASC"])

ComesBefore(a, b, order) ==
    \E k \in DOMAIN order :
        /\ \A j \in 1..(k - 1) : a[order[j].by] = b[order[j].by]
        /\ IF order[k].byType = "DESC" THEN Sorts(b[order[k].by], a[order[k].by])
                                       ELSE Sorts(a[order[k].by], b[order[k].by])

Cut(nodes, first) ==
    IF \E n \in first : n >= 0 /\ n < Len(nodes)
    THEN SubSeq(nodes, 1, CHOOSE n \in first : TRUE) ELSE nodes

Listed(rows, clauses, order, first) ==
    LET nodes == SetToSortSeq({r \in rows : \A c \in clauses : Holds(r, c)},
                              LAMBDA a, b : ComesBefore(a, b, order))
    IN  [nodes |-> Cut(nodes, first), totalCount |-> Len(nodes)]

Ascending(column) == [by |-> column, byType |-> "ASC"]

\* Mutant: the title whose chapters are asked for gives way to the argument.
ParentReplaced(parent, condition) ==
    {Clause("mangaId", "=", v) : v \in IF condition.mangaId = {} THEN parent
                                       ELSE condition.mangaId}
ParentClauses(parent, condition) ==
    {Clause("mangaId", "=", v) : v \in parent \cup condition.mangaId}

ListChapters(rows, parent, condition, filter, order, first) ==
    Listed(rows,
           {Clause("user", "=", Text(1))} \cup ParentClauses(parent, condition)
               \cup {Clause("isRead", "=", v) : v \in condition.isRead}
               \cup IntFilterClauses("id", filter.id)
               \cup BooleanFilterClauses("isRead", filter.isRead)
               \cup LongIntFilterClauses("lastReadAt", filter.lastReadAt),
           OrderClause(order, {"id", "lastReadAt"},
                       <<Ascending("mangaId"), Ascending("sourceOrder")>>),
           first)

ListMangas(rows, condition, filter, order, first) ==
    Listed(rows,
           {Clause("user", "=", Text(1))} \cup {Clause("inLibrary", "=",
                                                       v) : v \in condition.inLibrary}
               \cup IntFilterClauses("id", filter.id)
               \cup LongTextFilterClauses("sourceId", filter.sourceId),
           OrderClause(order, {"id", "inLibraryAt"}, <<Ascending("title"), Ascending("id")>>),
           first)

-----------------------------------------------------------------------------
(* Some rows, of this account and of another, and what may be asked.       *)

ChapterRows ==
    {[id |-> Num(1), user |-> Text(1), mangaId |-> Num(1), sourceOrder |-> Num(2),
      isRead |-> Num(1), lastReadAt |-> Num(7)],
     [id |-> Num(2), user |-> Text(1), mangaId |-> Num(1), sourceOrder |-> Num(1),
      isRead |-> Num(0), lastReadAt |-> Num(7)],
     [id |-> Num(3), user |-> Text(1), mangaId |-> Num(2), sourceOrder |-> Num(1),
      isRead |-> Num(1), lastReadAt |-> Num(0)],
     [id |-> Num(4), user |-> Text(2), mangaId |-> Num(3), sourceOrder |-> Num(1),
      isRead |-> Num(1), lastReadAt |-> Num(9)]}
MangaRows ==
    {[id |-> Num(1), user |-> Text(1), title |-> Text(2), sourceId |-> Text(1),
      inLibrary |-> Num(1), inLibraryAt |-> Num(4)],
     [id |-> Num(2), user |-> Text(1), title |-> Text(1), sourceId |-> Text(2),
      inLibrary |-> Num(1), inLibraryAt |-> Num(4)],
     [id |-> Num(3), user |-> Text(2), title |-> Text(1), sourceId |-> Text(2),
      inLibrary |-> Num(1), inLibraryAt |-> Num(5)],
     [id |-> Num(4), user |-> Text(1), title |-> Text(2), sourceId |-> Text(2),
      inLibrary |-> Num(0), inLibraryAt |-> Num(0)]}

Unsaid == [equalTo |-> {}, notEqualTo |-> {}, in |-> {}, notIn |-> {}, greaterThan |-> {},
           lessThan |-> {}]
IdFilters ==
    {Unsaid, [Unsaid EXCEPT !.in = {{}}], [Unsaid EXCEPT !.in = {{Num(1), Num(4)}}],
     [Unsaid EXCEPT !.notIn = {{}}, !.greaterThan = {Num(1)}],
     [Unsaid EXCEPT !.notIn = {{Num(2)}}, !.notEqualTo = {Num(3)}]}
Orders(column) ==
    {<<>>, <<[by |-> column, byType |-> "DESC"]>>, <<[by |-> "unheard of", byType |-> "ASC"]>>}
Firsts == {{}, {0}, {1}, {-1}}

QueryChapters ==
    /\ query.of = "nothing" /\ browsing.stage = "none"
    /\ \E parent \in {{}, {Num(1)}}, manga \in {{}, {Num(2)}}, isRead \in {{}, {Num(1)}},
          ids \in IdFilters, since \in {{}, {Text(5)}}, order \in Orders("lastReadAt"), first \in Firsts :
          LET condition == [mangaId |-> manga, isRead |-> isRead]
              filter == [id |-> ids, isRead |-> Unsaid,
                         lastReadAt |-> [Unsaid EXCEPT !.greaterThan = since]]
          IN  query' = [of |-> "chapters", parent |-> parent, condition |-> condition,
                        filter |-> filter,
                        order |-> order, first |-> first,
                        answer |-> ListChapters(ChapterRows, parent, condition, filter, order,
                                                first)]
    /\ UNCHANGED <<stored, browsing, late>>

QueryMangas ==
    /\ query.of = "nothing" /\ browsing.stage = "none"
    /\ \E inLibrary \in {{}, {Num(1)}}, ids \in IdFilters,
          origin \in {Unsaid, [Unsaid EXCEPT !.equalTo = {Text(2)}],
                      [Unsaid EXCEPT !.in = {{}}]},
          order \in Orders("inLibraryAt"), first \in Firsts :
          LET condition == [inLibrary |-> inLibrary]
              filter == [id |-> ids, sourceId |-> origin]
          IN  query' = [of |-> "mangas", condition |-> condition, filter |-> filter,
                        order |-> order,
                        first |-> first, answer |-> ListMangas(MangaRows, condition, filter,
                                                               order, first)]
    /\ UNCHANGED <<stored, browsing, late>>

-----------------------------------------------------------------------------
(* What a source has.  A listing has a name and may have more; a stored    *)
(* title has had its details read or not.                                  *)

Nowhere == [title |-> "", author |-> "", status |-> "UNKNOWN", initialized |-> FALSE,
            inLibrary |-> FALSE]
\* Texts, among them those that are put where a source said nothing.
AnyText == {"", "UNKNOWN", "ONGOING", "told"} \cup STRING
TitleRow == [title : AnyText, author : AnyText, status : AnyText, initialized : BOOLEAN, inLibrary : BOOLEAN]
IsStored(row) == row.title # ""
Told(a, b) == IF a = "" THEN b ELSE a

\* Mutant: a listing that says nothing of the author says there is none.
Overwritten(row, item) ==
    [row EXCEPT !.title = item.title, !.author = item.author, !.status = item.status]
UpsertSourceManga(row, item) ==
    [row EXCEPT !.title = item.title, !.author = Told(item.author, @),
                !.status = IF item.status = "UNKNOWN" THEN @ ELSE item.status]

\* An entry with no url or no title is left out.
Usable(item) == item.url # "" /\ item.title # ""
StoreItem(s, rows, item) ==
    IF Usable(item) THEN [rows EXCEPT ![<<s, item.url>>] = UpsertSourceManga(@, item)] ELSE rows
StoreGrid(s, page) == FoldLeft(LAMBDA rows, item : StoreItem(s, rows, item), stored, page)

\* What sources may have.
UrlsOf(page) == {item.url : item \in {i \in ToSet(page) : Usable(i)}}
Listable == Catalogues \X UNION {UrlsOf(page) : page \in Grids}

Waiting == [kind |-> "waiting"]
Refusal(why) == [kind |-> "error", why |-> why, urls |-> {}]
Shown(page) == [kind |-> "mangas", urls |-> UrlsOf(page)]

NoCall == [stage |-> "none"]
OpenCall(kind, ids) ==
    [stage |-> "open", kind |-> kind, ids |-> ids, next |-> 1, working |-> {},
     results |-> [s \in ToSet(ids) |-> Waiting], said |-> [s \in ToSet(ids) |-> "nothing yet"]]

Distinct(ids) == FoldLeft(LAMBDA acc, s : IF Contains(acc, s) THEN acc ELSE Append(acc, s),
                          <<>>, ids)

FetchSourceManga(s) ==
    /\ query.of = "nothing" /\ browsing.stage # "open" /\ s \in Catalogues
    /\ browsing' = OpenCall("one", <<s>>)
    /\ UNCHANGED <<query, stored, late>>

FetchSourceMangaBulk(sources) ==
    /\ query.of = "nothing" /\ browsing.stage # "open"
    /\ browsing' = OpenCall("bulk", Distinct(sources))
    /\ UNCHANGED <<query, stored, late>>

\* The next of them, where there is room; a source there is not is answered
\* for at once.
InBatches ==
    /\ browsing.stage = "open" /\ browsing.next <= Len(browsing.ids)
    /\ Cardinality(browsing.working) < Runners
    /\ LET s == browsing.ids[browsing.next]
       IN  browsing' = IF s \in Catalogues
                   THEN [browsing EXCEPT !.next = @ + 1, !.working = @ \cup {s}]
                   ELSE [browsing EXCEPT !.next = @ + 1,
                                         !.results[s] = Refusal("no such source")]
    /\ UNCHANGED <<query, stored, late>>

\* Mutant: the first source that fails fails them all.
OneForAll(s, result) ==
    IF result.kind = "error"
    THEN [browsing EXCEPT !.working = {}, !.next = Len(browsing.ids) + 1,
                          !.results = [t \in DOMAIN @ |-> result]]
    ELSE [browsing EXCEPT !.working = @ \ {s}, !.results[s] = result]
Settle(s, result) == [browsing EXCEPT !.working = @ \ {s}, !.results[s] = result]

Answers(s, page) ==
    /\ browsing.stage = "open" /\ s \in browsing.working
    /\ stored' = StoreGrid(s, page)
    /\ browsing' = [Settle(s, Shown(page)) EXCEPT !.said[s] = "a page"]
    /\ UNCHANGED <<query, late>>

\* Nothing under that title is an empty grid to one, and a word to several.
NoResults(s) ==
    /\ browsing.stage = "open" /\ s \in browsing.working
    /\ browsing' = Settle(s, IF browsing.kind = "one" THEN Shown(<<>>)
                             ELSE Refusal("nothing under that title"))
    /\ UNCHANGED <<query, stored, late>>

SourceError(s) ==
    /\ browsing.stage = "open" /\ s \in browsing.working
    /\ browsing' = Settle(s, Refusal("did not answer"))
    /\ UNCHANGED <<query, stored, late>>

\* The wait is over and not the work, whose page nobody stores any more.
Deadline(s) ==
    /\ browsing.stage = "open" /\ browsing.kind = "bulk" /\ s \in browsing.working
    /\ browsing' = Settle(s, Refusal("took too long"))
    /\ late' = late \cup {s}
    /\ UNCHANGED <<query, stored>>

LateAnswer(s) == s \in late /\ late' = late \ {s} /\ UNCHANGED <<query, stored, browsing>>

Respond ==
    /\ browsing.stage = "open" /\ browsing.next > Len(browsing.ids) /\ browsing.working = {}
    /\ browsing' = [browsing EXCEPT !.stage = "done"]
    /\ UNCHANGED <<query, stored, late>>

\* Meanwhile the title is opened, or put on a shelf (module MangaDetails).
OpenTitle(x) ==
    /\ IsStored(stored[x])
    /\ stored' = [stored EXCEPT ![x].author = "told", ![x].status = "ONGOING",
                                ![x].initialized = TRUE]
    /\ UNCHANGED <<query, browsing, late>>
ShelveTitle(x) ==
    /\ IsStored(stored[x])
    /\ stored' = [stored EXCEPT ![x].inLibrary = TRUE]
    /\ UNCHANGED <<query, browsing, late>>

-----------------------------------------------------------------------------
BulkAsks == {<<"s1", "s2">>, <<"s2", "s1", "s2">>, <<"s9", "s1">>}

ListingsInit ==
    /\ query = [of |-> "nothing"] /\ browsing = NoCall /\ late = {}
    /\ stored = [x \in Listable |-> Nowhere]

ListingsNext ==
    \/ QueryChapters \/ QueryMangas \/ InBatches \/ Respond
    \/ \E sources \in BulkAsks : FetchSourceMangaBulk(sources)
    \/ \E s \in Catalogues : FetchSourceManga(s) \/ NoResults(s) \/ SourceError(s) \/ Deadline(s)
                              \/ LateAnswer(s) \/ \E page \in Grids : Answers(s, page)
    \/ \E x \in DOMAIN stored : OpenTitle(x) \/ ShelveTitle(x)

ListingsSpec == ListingsInit /\ [][ListingsNext]_listingVars

-----------------------------------------------------------------------------
\* The variables hold what the code can put there.
ListingsTypeOK ==
    /\ query.of \in {"nothing", "chapters", "mangas"} /\ late \subseteq Catalogues
    /\ stored \in [Listable -> TitleRow]
    /\ browsing.stage \in {"none", "open", "done"}
    /\ browsing.stage = "open" => browsing.working \subseteq Catalogues /\ Cardinality(browsing.working) <= Runners

\* A list is this account's rows that meet everything that was said, an empty
\* choice being met by none, as many as asked for and counted in full; a stamp
\* is later than one it is later than (chapter.ts:217-223, library.ts:298-299, 370-377).
ListsAreExact ==
    query.of # "nothing" =>
        LET said == query.filter.id
            meets(r) ==
                /\ r.user = Text(1)
                /\ \A S \in said.in : r.id \in S
                /\ \A S \in said.notIn : r.id \notin S
                /\ \A v \in said.notEqualTo : r.id # v
                /\ \A v \in said.greaterThan : r.id.v > v.v
                /\ query.of = "chapters" =>
                      /\ \A v \in query.parent \cup query.condition.mangaId : r.mangaId = v
                      /\ \A v \in query.condition.isRead : r.isRead = v
                      /\ \A v \in query.filter.lastReadAt.greaterThan : r.lastReadAt.v > v.v
                /\ query.of = "mangas" =>
                      /\ \A v \in query.condition.inLibrary : r.inLibrary = v
                      /\ \A v \in query.filter.sourceId.equalTo : r.sourceId = v
                      /\ \A S \in query.filter.sourceId.in : r.sourceId \in S
            wanted == {r \in IF query.of = "chapters" THEN ChapterRows
                             ELSE MangaRows : meets(r)}
            got == query.answer.nodes
            limits == {n \in query.first : n >= 0}
        IN  /\ query.answer.totalCount = Cardinality(wanted)
            /\ ToSet(got) \subseteq wanted /\ IsInjective(got)
            /\ limits = {} => ToSet(got) = wanted
            /\ \A n \in limits : Len(got) = (IF n < Cardinality(wanted) THEN n
                                             ELSE Cardinality(wanted))
            /\ query.of = "chapters" /\ query.order # <<>> /\ query.order[1].byType = "DESC" =>
                  \A i, j \in DOMAIN got : i < j => got[i].lastReadAt.v >= got[j].lastReadAt.v

\* Asked of several sources, each answers once and for itself: one that had a
\* page is shown with what was stored of it, whatever became of the others
\* (search.ts:269-276).
EachAnswersForItself ==
    browsing.stage = "done" =>
        \A s \in DOMAIN browsing.results :
            /\ browsing.results[s] # Waiting
            /\ (browsing.results[s].kind = "mangas" <=> browsing.said[s] = "a page") \/ browsing.kind = "one"
            /\ \A url \in browsing.results[s].urls : IsStored(stored[<<s, url>>])

\* All that is asked of what is listed.
ListingsAreSound == ListsAreExact /\ EachAnswersForItself

\* A listing takes nothing from a title that is stored: what was read of it
\* stays known and it stays where it was put (search.ts:11-16, 58-65).
ListingTakesNothing ==
    \A x \in DOMAIN stored :
        /\ IsStored(stored[x]) => IsStored(stored'[x])
        /\ stored[x].author # "" => stored'[x].author # ""
        /\ stored[x].status # "UNKNOWN" => stored'[x].status # "UNKNOWN"
        /\ stored[x].initialized => stored'[x].initialized
        /\ stored[x].inLibrary => stored'[x].inLibrary

ListingsKeep == [][ListingTakesNothing]_listingVars
=============================================================================
