---------------------------- MODULE WebOverrides ---------------------------
(***************************************************************************)
(* What the web reader keeps per title: the preferences a title overrides  *)
(* (src/web/src/utils/mangaSettings.ts) and the zoom level of each layout  *)
(* (the zoom memory of pages/ReaderPage.tsx).  Both live in the title's    *)
(* meta, are adopted from the reader's query, and go back as whole rows    *)
(* after a delay, on walking to another title and on closing the reader.   *)
(* The client's document cache answers a title it has already been asked   *)
(* about at once, until the result of a mutation drops what it holds.      *)
(***************************************************************************)
EXTENDS Naturals, FiniteSets

CONSTANTS Shelf,       \* titles
          NoTitle,     \* no title
          Names,       \* preferences a title may override
          Picks,       \* what one may be set to
          Unpicked,    \* not overridden
          Levels,      \* zoom levels
          Fit,         \* the level of a layout that has none stored
          MaxPicks     \* bound: choices made here and elsewhere

ASSUME OverridesAssumption == /\ Unpicked \notin Picks /\ Fit \in Levels
                              /\ NoTitle \notin Shelf /\ MaxPicks \in Nat

Layouts   == {"paged", "strip"}
Overrides == [Names -> Picks \cup {Unpicked}]
Zooms     == [Layouts -> Levels]
Rows      == [over : Overrides, zoom : Zooms]
NoneOver  == [n \in Names |-> Unpicked]
AllFit    == [l \in Layouts |-> Fit]
NotCached == [fresh |-> FALSE, data |-> [over |-> NoneOver, zoom |-> AllFit]]
Nothing   == [manga |-> NoTitle]

VARIABLES row,     \* what each title's meta holds, overrides and levels
          cached,  \* the answers the document cache holds, by title
          showing, \* the title the reader is open on
          store,   \* the override store of the page
          zooming, \* the zoom memory of the open reader
          sending, \* pushes on their way to the server
          picks

overridesVars == <<row, cached, showing, store, zooming, sending, picks>>

\* A push replaces one half of a title's row.  It carries the answer it was
\* made from and the names chosen on this page since.
Push(part, m, values, base, names) ==
    [part |-> part, manga |-> m, values |-> values, base |-> base, names |-> names]

Only(push) == IF push = Nothing THEN {} ELSE {push}

\* held, adoptedFor, changedHere, pending and the mirrored title, and as
\* history the last answer adopted, what was picked here for the title held
\* and what was pushed of that.
EmptyStore(mirror) ==
    [held |-> mirror, adopted |-> NoTitle, named |-> {}, owed |-> Nothing, mirror |-> mirror,
     answer |-> [manga |-> NoTitle, over |-> NoneOver], picked |-> NoneOver, told |-> NoneOver]

ValuesFor(s, m) == IF s.held.manga = m THEN s.held.values ELSE NoneOver

Owed(s) == IF s.adopted = s.held.manga /\ s.answer.manga = s.held.manga
           THEN Push("over", s.held.manga, s.held.values, s.answer.over, s.named)
           ELSE Push("over", s.held.manga, s.held.values, NoneOver, {})

\* What the store says once the pending push has gone out: flushMangaSettings.
FlushedStore(s) ==
    [s EXCEPT !.owed = Nothing,
              !.told = IF s.owed # Nothing /\ s.owed.manga = s.held.manga
                       THEN [n \in Names |-> IF s.picked[n] = Unpicked THEN Unpicked
                                             ELSE s.owed.values[n]]
                       ELSE @]

\* Two titles are never owed at once: the one pending goes out first.
PaidOff(s) == IF s.owed # Nothing /\ s.owed.manga # s.held.manga THEN Only(s.owed) ELSE {}

Schedule(s) == [s EXCEPT !.owed = Owed(s)]

\* The answer is the truth, except for the names chosen here; what the server
\* lacks of those is owed to it.
MergedOver(s, m, over) ==
    [n \in Names |-> IF n \in s.named /\ ValuesFor(s, m)[n] # Unpicked
                     THEN ValuesFor(s, m)[n] ELSE over[n]]

Adopt(s, m, over) ==
    LET merged == MergedOver(s, m, over)
        same   == s.held.manga = m
        holder == [s EXCEPT !.held = [manga |-> m, values |-> merged],
                            !.mirror = [manga |-> m, values |-> merged],
                            !.adopted = m,
                            !.answer = [manga |-> m, over |-> over],
                            !.picked = IF same THEN @ ELSE NoneOver,
                            !.told = IF same THEN @ ELSE NoneOver]
    IN IF merged = over THEN [store |-> holder, out |-> {}]
       ELSE [store |-> Schedule(holder), out |-> PaidOff(holder)]

\* A title the store already works from stays; any other pays off the last.
Opened(s, m) ==
    IF s.held.manga = m /\ s.adopted = m THEN [store |-> s, out |-> {}]
    ELSE [store |-> [FlushedStore(s) EXCEPT
                        !.named = {}, !.adopted = NoTitle,
                        !.held = IF @.manga = m THEN @ ELSE [manga |-> NoTitle,
                                                             values |-> NoneOver],
                        !.picked = NoneOver, !.told = NoneOver],
          out |-> Only(s.owed)]

OverridesInit ==
    /\ row \in [Shelf -> [over : Overrides, zoom : {[l \in Layouts |-> level] : level \in Levels}]]
    /\ cached = [m \in Shelf |-> NotCached]
    /\ showing = NoTitle
    /\ \E m \in Shelf, values \in Overrides : store = EmptyStore([manga |-> m,
                                                                  values |-> values])
    /\ zooming = [adopted |-> NoTitle, levels |-> AllFit, owed |-> Nothing, base |-> AllFit,
                  names |-> {}]
    /\ sending = {} /\ picks = 0

\* The reader opens on a title, or walks to it.  A cached answer is adopted
\* before the store hears of the title, which then has nothing left to do.
\* The levels drop to fit in every case, and wait for an answer.
OpenReader(m) ==
    /\ m # showing
    /\ showing' = m
    /\ LET first  == IF cached[m].fresh THEN Adopt(store, m, cached[m].data.over)
                     ELSE [store |-> store, out |-> {}]
           second == Opened(first.store, m)
       IN /\ store' = second.store
          /\ sending' = sending \cup first.out \cup second.out \cup Only(zooming.owed)
    /\ zooming' = [adopted |-> NoTitle, levels |-> AllFit, owed |-> Nothing, base |-> AllFit,
                   names |-> {}]
    /\ UNCHANGED <<row, cached, picks>>

\* The reader's query is answered, for the first time or again.
ReaderAnswered ==
    /\ showing # NoTitle
    /\ cached' = [cached EXCEPT ![showing] = [fresh |-> TRUE, data |-> row[showing]]]
    /\ IF zooming.adopted = showing THEN UNCHANGED <<store, zooming, sending>>
       ELSE LET result == Adopt(store, showing, row[showing].over) IN
            /\ store' = result.store
            /\ sending' = sending \cup result.out
            /\ zooming' = [zooming EXCEPT !.adopted = showing, !.levels = row[showing].zoom,
                                          !.base = row[showing].zoom, !.names = {}]
    /\ UNCHANGED <<row, showing, picks>>

\* Mutant: the push is scheduled whether or not the answer has been adopted.
PickedAtOnce(n, value) ==
    LET m == showing
        holder == [store EXCEPT !.held = [manga |-> m,
                                          values |-> [ValuesFor(store, m) EXCEPT ![n] = value]],
                                !.mirror = [manga |-> m,
                                            values |-> [ValuesFor(store,
                                                                  m) EXCEPT ![n] = value]],
                                !.named = @ \cup {n}]
    IN [store |-> Schedule(holder), out |-> PaidOff(holder)]

\* An override is picked for the title on screen.  Until its answer has been
\* adopted there is no whole row to push it in.
PickedStore(n, value) ==
    LET m == showing
        same == store.held.manga = m
        holder == [store EXCEPT !.held = [manga |-> m,
                                          values |-> [ValuesFor(store, m) EXCEPT ![n] = value]],
                                !.mirror = [manga |-> m,
                                            values |-> [ValuesFor(store,
                                                                  m) EXCEPT ![n] = value]],
                                !.named = @ \cup {n},
                                !.picked = [IF same THEN @ ELSE NoneOver EXCEPT ![n] = value],
                                !.told = IF same THEN @ ELSE NoneOver]
    IN IF store.adopted = m THEN [store |-> Schedule(holder), out |-> PaidOff(holder)]
       ELSE [store |-> holder, out |-> {}]

WriteOverride(n, value) ==
    /\ showing # NoTitle /\ picks < MaxPicks
    /\ ValuesFor(store, showing)[n] # value
    /\ LET result == PickedStore(n, value) IN
       /\ store' = result.store
       /\ sending' = sending \cup result.out
    /\ picks' = picks + 1
    /\ UNCHANGED <<row, cached, showing, zooming>>

FlushOverrides ==
    /\ store.owed # Nothing
    /\ store' = FlushedStore(store)
    /\ sending' = sending \cup {store.owed}
    /\ UNCHANGED <<row, cached, showing, zooming, picks>>

\* Nothing is remembered of a level moved before the title's own was adopted.
Remembered(z, l) ==
    IF z.adopted # showing THEN z
    ELSE LET names == z.names \cup {l}
         IN [z EXCEPT !.names = names, !.owed = Push("zoom", showing, z.levels, z.base, names)]

MoveZoom(l, level) ==
    /\ showing # NoTitle /\ picks < MaxPicks /\ zooming.levels[l] # level
    /\ zooming' = Remembered([zooming EXCEPT !.levels[l] = level], l)
    /\ picks' = picks + 1
    /\ UNCHANGED <<row, cached, showing, store, sending>>

FlushZoom ==
    /\ zooming.owed # Nothing
    /\ sending' = sending \cup {zooming.owed}
    /\ zooming' = [zooming EXCEPT !.owed = Nothing]
    /\ UNCHANGED <<row, cached, showing, store, picks>>

CloseReader ==
    /\ showing # NoTitle
    /\ showing' = NoTitle
    /\ sending' = sending \cup Only(zooming.owed) \cup Only(store.owed)
    /\ store' = FlushedStore(store)
    /\ zooming' = [adopted |-> NoTitle, levels |-> AllFit, owed |-> Nothing, base |-> AllFit,
                   names |-> {}]
    /\ UNCHANGED <<row, cached, picks>>

\* A push reaches the server, and its result empties the document cache.
RowPushed(push) ==
    /\ push \in sending
    /\ row' = [row EXCEPT ![push.manga] =
                 IF push.part = "over" THEN [@ EXCEPT !.over = push.values]
                 ELSE [@ EXCEPT !.zoom = push.values]]
    /\ sending' = sending \ {push}
    /\ cached' = [m \in Shelf |-> NotCached]
    /\ UNCHANGED <<showing, store, zooming, picks>>

RowLost(push) ==
    /\ push \in sending
    /\ sending' = sending \ {push}
    /\ UNCHANGED <<row, cached, showing, store, zooming, picks>>

\* Another device pushes the row of a title with one override changed.
OverriddenElsewhere(m, n, value) ==
    /\ picks < MaxPicks /\ row[m].over[n] # value
    /\ row' = [row EXCEPT ![m].over[n] = value]
    /\ picks' = picks + 1
    /\ UNCHANGED <<cached, showing, store, zooming, sending>>

OverridesNext ==
    \/ \E m \in Shelf : OpenReader(m)
    \/ ReaderAnswered \/ CloseReader \/ FlushOverrides \/ FlushZoom
    \/ \E n \in Names, value \in Picks :
          \/ WriteOverride(n, value)
          \/ \E m \in Shelf : OverriddenElsewhere(m, n, value)
    \/ \E l \in Layouts, level \in Levels : MoveZoom(l, level)
    \/ \E push \in sending : RowPushed(push) \/ RowLost(push)

OverridesSpec == OverridesInit /\ [][OverridesNext]_overridesVars

-----------------------------------------------------------------------------

OverridePushes == sending \cup Only(store.owed) \cup Only(zooming.owed)

\* The store and the memory hold what their declarations say.
OverridesTypeOK ==
    /\ row \in [Shelf -> Rows]
    /\ showing \in Shelf \cup {NoTitle}
    /\ {store.held.values, store.mirror.values, store.picked, store.told} \subseteq Overrides
    /\ store.named \subseteq Names
    /\ zooming.levels \in Zooms

\* What goes to the server for a title is the answer adopted for that title
\* with nothing changed but what was chosen here, so a whole row can replace
\* the stored one; and a choice made for a title that has been adopted is
\* pending, has been pushed, or is what the answer said already (mangaSettings.ts:118-127, :164-174, :266-269;
\* ReaderPage.tsx:841-848).
TitlesKeepTheirOwn ==
    /\ \A p \in OverridePushes :
          \A n \in DOMAIN p.values : p.values[n] # p.base[n] => n \in p.names
    /\ store.adopted = store.held.manga =>
          \A n \in Names : store.picked[n] # Unpicked =>
             /\ store.held.values[n] = store.picked[n]
             /\ \/ store.picked[n] \in {store.told[n], store.answer.over[n]}
                \/ store.owed # Nothing /\ store.owed.manga = store.held.manga
                      /\ store.owed.values[n] = store.picked[n]
=============================================================================
