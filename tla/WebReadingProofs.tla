--------------------------- MODULE WebReadingProofs ---------------------------
(***************************************************************************)
(* What is proved of the page that reads, its gestures and keys, the       *)
(* shelves and the title's page, for any chapters, wide pages, keys,       *)
(* titles, scanlations, rows and answers on their way.  First where the    *)
(* spreads of a chapter begin, and the invariant of the page that reads;   *)
(* then fingers and keys; then lists and folds over them; then the list of *)
(* a title and the queue, its view, the counting of its pages and the two  *)
(* dialogs; and last the five of them together.                            *)
(***************************************************************************)
EXTENDS MCWebReading, FiniteOrders, SequenceTheorems

-----------------------------------------------------------------------------
(* Where a spread begins when wide pages stand alone: the pages w are wide. *)

GroupAfter(w, s) == IF {s, s + 1} \cap w # {} THEN s + 1 ELSE s + 2
Onward(w, s, t) == IF GroupAfter(w, s) > t THEN s ELSE GroupAfter(w, s)

\* The walk, page by page up to n.
Walks(w, n) == {g \in [0..n -> Nat] :
                   \A t \in 0..n : g[t] = IF t = 0 THEN 0 ELSE Onward(w, g[t - 1], t)}

Walk(w) == CHOOSE f : f = [t \in Nat |-> IF t = 0 THEN 0 ELSE Onward(w, f[t - 1], t)]

(* AutoPairStart is that walk over the pages known to be wide.             *)
LEMMA AutoPairStartIsWalk == \A t \in Nat : AutoPairStart(t) = Walk(wide)[t]
BY Zenon DEF AutoPairStart, Walk, Onward, GroupAfter

LEMMA OnwardTyped == \A w : \A s, t \in Nat : GroupAfter(w, s) \in {s + 1, s + 2} /\ Onward(w, s, t) \in Nat
BY DEF Onward, GroupAfter

(* The walk can be made up to any page.                                    *)
LEMMA WalksExist == ASSUME NEW w, NEW m \in Nat PROVE Walks(w, m) # {}
<1> DEFINE Bad == {n \in Nat : Walks(w, n) = {}}
<1>1. SUFFICES ASSUME Bad # {} PROVE FALSE
  OBVIOUS
<1>2. PICK n \in Bad : \A k \in Bad : n <= k
  BY <1>1, SmallestOf
<1>3. CASE n = 0
  <2>1. [t \in 0..0 |-> 0] \in Walks(w, 0)
    BY DEF Walks
  <2> QED  BY <1>2, <1>3, <2>1
<1>4. CASE n # 0
  <2>1. n \in Nat /\ n - 1 \in Nat /\ n - 1 \notin Bad
    BY <1>2, <1>4
  <2>2. PICK g \in Walks(w, n - 1) : TRUE
    BY <2>1
  <2> DEFINE h == [t \in 0..n |-> IF t = n THEN Onward(w, g[n - 1], n) ELSE g[t]]
  <2>3. /\ g \in [0..(n - 1) -> Nat]
        /\ \A t \in 0..(n - 1) : g[t] = IF t = 0 THEN 0 ELSE Onward(w, g[t - 1], t)
    BY <2>2 DEF Walks
  <2>4. g[n - 1] \in Nat
    BY <2>1, <2>3
  <2>5. Onward(w, g[n - 1], n) \in Nat
    BY <2>1, <2>4, OnwardTyped
  <2>6. h \in [0..n -> Nat]
    BY <2>1, <2>3, <2>5
  <2>7. ASSUME NEW t \in 0..n
        PROVE  h[t] = IF t = 0 THEN 0 ELSE Onward(w, h[t - 1], t)
    BY <2>1, <2>3, <1>4
  <2>8. h \in Walks(w, n)
    BY <2>6, <2>7 DEF Walks
  <2> QED  BY <2>8, <1>2
<1> QED  BY <1>3, <1>4

(* And in one way only.                                                    *)
LEMMA WalksAgree ==
  ASSUME NEW w, NEW m \in Nat, NEW n \in Nat, m <= n, NEW g \in Walks(w, m), NEW h \in Walks(w, n)
  PROVE  \A t \in 0..m : g[t] = h[t]
<1> DEFINE Bad == {t \in 0..m : g[t] # h[t]}
<1>1. SUFFICES ASSUME Bad # {} PROVE FALSE
  OBVIOUS
<1>2. Bad \in SUBSET Nat
  OBVIOUS
<1>3. PICK t \in Bad : \A k \in Bad : t <= k
  BY <1>1, <1>2, SmallestOf
<1>4. /\ g[t] = IF t = 0 THEN 0 ELSE Onward(w, g[t - 1], t)
      /\ h[t] = IF t = 0 THEN 0 ELSE Onward(w, h[t - 1], t)
  BY <1>3 DEF Walks
<1>5. CASE t = 0
  BY <1>3, <1>4, <1>5
<1>6. CASE t # 0
  <2>1. t - 1 \in 0..m /\ t - 1 \notin Bad
    BY <1>3, <1>6
  <2> QED  BY <2>1, <1>3, <1>4, <1>6
<1> QED  BY <1>5, <1>6

(* So there is a function that the walk's equation holds of.               *)
LEMMA WalkRecurs ==
  ASSUME NEW w
  PROVE  Walk(w) = [t \in Nat |-> IF t = 0 THEN 0 ELSE Onward(w, Walk(w)[t - 1], t)]
<1> DEFINE part == [t \in Nat |-> CHOOSE g \in Walks(w, t) : TRUE]
           f == [t \in Nat |-> part[t][t]]
<1>1. \A t \in Nat : part[t] \in Walks(w, t)
  BY WalksExist
<1> HIDE DEF part
<1>2. ASSUME NEW t \in Nat
      PROVE  f[t] = IF t = 0 THEN 0 ELSE Onward(w, f[t - 1], t)
  <2>1. part[t] \in Walks(w, t)
    BY <1>1
  <2>2. part[t][t] = IF t = 0 THEN 0 ELSE Onward(w, part[t][t - 1], t)
    BY <2>1 DEF Walks
  <2>3. CASE t = 0
    BY <2>2, <2>3
  <2>4. CASE t # 0
    <3>1. t - 1 \in Nat /\ part[t - 1] \in Walks(w, t - 1) /\ t - 1 \in 0..(t - 1) /\ t - 1 <= t
      BY <1>1, <2>4
    <3>2. part[t - 1][t - 1] = part[t][t - 1]
      BY <3>1, <2>1, WalksAgree
    <3>3. f[t - 1] = part[t][t - 1] /\ f[t] = part[t][t]
      BY <3>1, <3>2
    <3> QED  BY <3>3, <2>2, <2>4
  <2> QED  BY <2>3, <2>4
<1>3. f = [t \in Nat |-> IF t = 0 THEN 0 ELSE Onward(w, f[t - 1], t)]
  BY <1>2
<1> HIDE DEF f
<1> QED  BY <1>3 DEF Walk

LEMMA WalkSteps ==
  ASSUME NEW w
  PROVE  /\ Walk(w)[0] = 0
         /\ \A t \in Nat : t # 0 => Walk(w)[t] = Onward(w, Walk(w)[t - 1], t)
BY WalkRecurs

(* A page is in the group it is said to be in: the first of it, or the     *)
(* second where neither of the two is wide.                                *)
Grouped(w, t) ==
    LET s == Walk(w)[t]
    IN  /\ s \in Nat /\ (t = s \/ t = s + 1)
        /\ t = s + 1 => {s, s + 1} \cap w = {}

LEMMA PageIsInItsGroup == ASSUME NEW w, NEW m \in Nat PROVE Grouped(w, m)
<1> DEFINE Bad == {t \in Nat : ~Grouped(w, t)}
<1>1. SUFFICES ASSUME Bad # {} PROVE FALSE
  OBVIOUS
<1>2. PICK t \in Bad : \A k \in Bad : t <= k
  BY <1>1, SmallestOf
<1>3. t # 0
  BY <1>2, WalkSteps DEF Grouped
<1>4. t \in Nat /\ t - 1 \in Nat /\ Grouped(w, t - 1)
  BY <1>2, <1>3
<1>5. Walk(w)[t] = Onward(w, Walk(w)[t - 1], t)
  BY <1>3, <1>4, WalkSteps
<1>6. Grouped(w, t)
  <2> DEFINE s == Walk(w)[t - 1]
  <2>1. /\ s \in Nat /\ (t - 1 = s \/ t - 1 = s + 1)
        /\ t - 1 = s + 1 => {s, s + 1} \cap w = {}
    BY <1>4 DEF Grouped
  <2> HIDE DEF s
  <2>2. Walk(w)[t] = Onward(w, s, t)
    BY <1>5 DEF s
  <2>3. CASE {s, s + 1} \cap w = {}
    <3>1. Walk(w)[t] = IF t = s + 1 THEN s ELSE t
      BY <2>1, <2>2, <2>3, <1>4 DEF Onward, GroupAfter
    <3> QED  BY <3>1, <2>1, <2>3, <1>4 DEF Grouped
  <2>4. CASE {s, s + 1} \cap w # {}
    <3>1. Walk(w)[t] = t
      BY <2>1, <2>2, <2>4, <1>4 DEF Onward, GroupAfter
    <3> QED  BY <3>1, <1>4 DEF Grouped
  <2> QED  BY <2>3, <2>4
<1> QED  BY <1>2, <1>6

(* Groups follow one another: where one begins, it is the group of its own *)
(* first page, the next begins after it, and the one before ends there.    *)
LEMMA GroupsFollow ==
  ASSUME NEW w, NEW t \in Nat
  PROVE  LET s == Walk(w)[t]
         IN  /\ Walk(w)[s] = s
             /\ Walk(w)[GroupAfter(w, s)] = GroupAfter(w, s)
             /\ s # 0 => GroupAfter(w, Walk(w)[s - 1]) = s
<1> DEFINE s == Walk(w)[t]
<1>1. s \in Nat /\ Grouped(w, t) /\ Grouped(w, s)
  BY PageIsInItsGroup DEF Grouped
<1>2. Walk(w)[s] = s
  <2>1. CASE t = s
    BY <2>1
  <2>2. CASE t = s + 1
    <3>1. t # 0 /\ t - 1 = s /\ s = Onward(w, Walk(w)[s], t)
      BY <2>2, <1>1, WalkSteps
    <3> DEFINE r == Walk(w)[s]
    <3>2. /\ r \in Nat /\ (s = r \/ s = r + 1)
          /\ s = r + 1 => {r, r + 1} \cap w = {}
      BY <1>1 DEF Grouped
    <3> HIDE DEF r
    <3>3. s = IF GroupAfter(w, r) > s + 1 THEN r ELSE GroupAfter(w, r)
      BY <3>1, <2>2 DEF Onward, r
    <3>4. s = r + 1 => GroupAfter(w, r) = r + 2
      BY <3>2 DEF GroupAfter
    <3>5. s = r => GroupAfter(w, r) > s
      BY <3>2, OnwardTyped
    <3>6. s = r
      BY <3>2, <3>3, <3>4, <1>1
    <3> QED  BY <3>6 DEF r
  <2> QED  BY <2>1, <2>2, <1>1 DEF Grouped
<1>3. Walk(w)[GroupAfter(w, s)] = GroupAfter(w, s)
  <2>1. Walk(w)[s + 1] = Onward(w, s, s + 1) /\ Walk(w)[s + 2] = Onward(w, Walk(w)[s + 1], s + 2)
    <3>1. s + 1 \in Nat /\ s + 2 \in Nat /\ s + 1 # 0 /\ s + 2 # 0 /\ (s + 1) - 1 = s /\ (s + 2) - 1 = s + 1
      BY <1>1
    <3> QED  BY <3>1, <1>2, WalkSteps
  <2>2. CASE GroupAfter(w, s) = s + 1
    <3>1. Onward(w, s, s + 1) = s + 1
      BY <1>1, <2>2 DEF Onward
    <3> QED  BY <2>1, <2>2, <3>1
  <2>3. CASE GroupAfter(w, s) = s + 2
    <3>1. Onward(w, s, s + 1) = s /\ Onward(w, s, s + 2) = s + 2
      BY <1>1, <2>3 DEF Onward
    <3> QED  BY <2>1, <2>3, <3>1
  <2> QED  BY <1>1, <2>2, <2>3, OnwardTyped
<1>4. ASSUME s # 0 PROVE GroupAfter(w, Walk(w)[s - 1]) = s
  <2>1. s - 1 \in Nat /\ s = Onward(w, Walk(w)[s - 1], s)
    BY <1>1, <1>2, <1>4, WalkSteps
  <2>2. Walk(w)[s - 1] \in Nat /\ Walk(w)[s - 1] <= s - 1
    BY <2>1, PageIsInItsGroup DEF Grouped
  <2> QED  BY <2>1, <2>2, <1>1 DEF Onward
<1> QED  BY <1>2, <1>3, <1>4

-----------------------------------------------------------------------------
(* Spreads, for a layout l: whether they are shown, pairing, offset, the   *)
(* wide pages and the last page.                                           *)

Layout == [active |-> SpreadActive, pairing |-> pairing, offset |-> offset,
           wide |-> wide, last |-> LastOf(at)]

IsLayout(l) == l.offset \in 0..1 /\ l.last \in Nat

\* Where the pages before t would be paired from, and where they are.
Counts(l, t) == IF l.pairing = "auto" THEN Walk(l.wide)[t] ELSE PairStart(t, l.offset)
Begins(l, t) == IF l.active THEN Counts(l, t) ELSE t

Pairs(l, s) ==
    /\ l.active
    /\ s + 1 <= l.last
    /\ IF l.pairing = "auto" THEN {s, s + 1} \cap l.wide = {} ELSE s >= l.offset

Ends(l, s) == IF Pairs(l, s) THEN s + 1 ELSE s

(* The spread of the reader is that of its layout.                         *)
LEMMA SpreadOfLayout ==
  /\ \A t \in Nat : StartOf(t) = Counts(Layout, t)
  /\ page \in Nat => SpreadFirst = Begins(Layout, page)
  /\ SpreadLast = Ends(Layout, SpreadFirst)
<1>1. \A t \in Nat : StartOf(t) = Counts(Layout, t)
  BY AutoPairStartIsWalk DEF StartOf, Counts, Layout
<1>3. page \in Nat => SpreadFirst = Begins(Layout, page)
  BY <1>1 DEF SpreadFirst, Begins, Layout
<1>2. SpreadLast = Ends(Layout, SpreadFirst)
  BY DEF SpreadLast, Ends, Pairs, Pairable, Layout
<1> QED  BY <1>1, <1>2, <1>3

(* Pairs from a fixed offset.                                              *)
LEMMA PairsAlternate ==
  ASSUME NEW off \in 0..1, NEW t \in Nat
  PROVE  LET s == PairStart(t, off)
         IN  /\ s \in Nat /\ (t = s \/ t = s + 1)
             /\ t = s + 1 => s >= off
             /\ PairStart(s, off) = s
             /\ s >= off => PairStart(s + 2, off) = s + 2
             /\ s < off => s = 0 /\ PairStart(1, off) = 1
             /\ s # 0 => PairStart(s - 1, off) = IF s = 1 THEN 0 ELSE s - 2
<1>1. CASE t < off
  BY <1>1 DEF PairStart
<1>2. CASE ~(t < off)
  <2> DEFINE s == t - ((t - off) % 2)
  <2>1. PairStart(t, off) = s
    BY <1>2 DEF PairStart
  <2>2. (t - off) \in Nat /\ (t - off) % 2 \in 0..1
    BY <1>2
  <2>3. s \in Nat /\ (t = s \/ t = s + 1) /\ s >= off
    BY <2>2, <1>2
  <2>4. (s - off) % 2 = 0 /\ ((s + 2) - off) % 2 = 0 /\ (s - off >= 1 => ((s - 1) - off) % 2 = 1)
    BY <2>2, <2>3
  <2> HIDE DEF s
  <2>5. PairStart(s, off) = s /\ PairStart(s + 2, off) = s + 2
    BY <2>3, <2>4 DEF PairStart
  <2>6. ASSUME s # 0 PROVE PairStart(s - 1, off) = IF s = 1 THEN 0 ELSE s - 2
    BY <2>3, <2>4, <2>6 DEF PairStart
  <2> QED  BY <2>1, <2>3, <2>5, <2>6
<1> QED  BY <1>1, <1>2

(* The spread of a page has the page, and pages only.                      *)
LEMMA SpreadHasThePage ==
  ASSUME NEW l, IsLayout(l), NEW t \in 0..l.last
  PROVE  LET s == Begins(l, t)
         IN  s \in 0..t /\ Ends(l, s) \in t..l.last /\ Ends(l, s) \in {s, s + 1}
<1> USE DEF IsLayout
<1>1. CASE ~l.active
  BY <1>1 DEF Begins, Counts, Ends, Pairs
<1>2. CASE l.active /\ l.pairing = "auto"
  <2>1. Begins(l, t) = Walk(l.wide)[t] /\ Grouped(l.wide, t)
    BY <1>2, PageIsInItsGroup DEF Begins, Counts
  <2> QED  BY <1>2, <2>1 DEF Ends, Pairs, Grouped
<1>3. CASE l.active /\ l.pairing # "auto"
  <2>1. Begins(l, t) = PairStart(t, l.offset)
    BY <1>3 DEF Begins, Counts
  <2>2. LET s == PairStart(t, l.offset)
        IN  s \in Nat /\ (t = s \/ t = s + 1) /\ (t = s + 1 => s >= l.offset)
    BY PairsAlternate
  <2> QED  BY <1>3, <2>1, <2>2 DEF Ends, Pairs
<1> QED  BY <1>1, <1>2, <1>3

(* The next spread begins behind it.                                       *)
LEMMA NextSpreadFollows ==
  ASSUME NEW l, IsLayout(l), NEW t \in 0..l.last, Ends(l, Begins(l, t)) + 1 <= l.last
  PROVE  Begins(l, Ends(l, Begins(l, t)) + 1) = Ends(l, Begins(l, t)) + 1
<1> USE DEF IsLayout
<1> DEFINE s == Begins(l, t)
<1>0. s \in Nat
  BY SpreadHasThePage
<1>1. CASE ~l.active
  BY <1>1, <1>0 DEF Begins, Counts
<1>2. CASE l.active /\ l.pairing = "auto"
  <2>1. s = Walk(l.wide)[t] /\ Walk(l.wide)[GroupAfter(l.wide, s)] = GroupAfter(l.wide, s)
    BY <1>2, GroupsFollow DEF Begins, Counts
  <2>2. \A u : Begins(l, u) = Walk(l.wide)[u]
    BY <1>2 DEF Begins, Counts
  <2> HIDE DEF s
  <2>3. Ends(l, s) + 1 = GroupAfter(l.wide, s)
    <3>1. Ends(l, s) + 1 <= l.last
      BY DEF s
    <3> QED  BY <3>1, <1>0, <1>2 DEF Ends, Pairs, GroupAfter
  <2> QED  BY <2>1, <2>2, <2>3 DEF s
<1>3. CASE l.active /\ l.pairing # "auto"
  <2>1. \A u : Begins(l, u) = PairStart(u, l.offset)
    BY <1>3 DEF Begins, Counts
  <2>2. /\ s >= l.offset => PairStart(s + 2, l.offset) = s + 2
        /\ s < l.offset => s = 0 /\ PairStart(1, l.offset) = 1
    BY <2>1, PairsAlternate
  <2> HIDE DEF s
  <2>3. Ends(l, s) + 1 <= l.last
    BY DEF s
  <2>4. Ends(l, s) + 1 = IF s >= l.offset THEN s + 2 ELSE 1
    BY <2>2, <2>3, <1>0, <1>3 DEF Ends, Pairs
  <2>5. PairStart(Ends(l, s) + 1, l.offset) = Ends(l, s) + 1
    BY <2>2, <2>4, <1>0
  <2> QED  BY <2>1, <2>5 DEF s
<1> QED  BY <1>1, <1>2, <1>3

(* The spread before it begins where it says and ends just before it.      *)
LEMMA SpreadBefore ==
  ASSUME NEW l, IsLayout(l), NEW t \in 0..l.last, Begins(l, t) # 0
  PROVE  LET b == Begins(l, Begins(l, t) - 1)
         IN  /\ b \in 0..(Begins(l, t) - 1)
             /\ Begins(l, b) = b
             /\ Begins(l, t) - 1 \in b..Ends(l, b)
<1> USE DEF IsLayout
<1> DEFINE s == Begins(l, t)
           b == Begins(l, s - 1)
<1>0. s \in 0..t /\ s # 0 /\ s - 1 \in 0..l.last
  BY SpreadHasThePage
<1>4. b \in 0..(s - 1) /\ Ends(l, b) \in (s - 1)..l.last
  BY <1>0, SpreadHasThePage
<1>5. Begins(l, b) = b
  <2>1. CASE ~l.active
    BY <2>1 DEF Begins, Counts
  <2>2. CASE l.active /\ l.pairing = "auto"
    BY <2>2, <1>0, GroupsFollow DEF Begins, Counts
  <2>3. CASE l.active /\ l.pairing # "auto"
    BY <2>3, <1>0, PairsAlternate DEF Begins, Counts
  <2> QED  BY <2>1, <2>2, <2>3
<1> QED  BY <1>0, <1>4, <1>5

(* Where spreads are not shown, the step back is of one page or of two.    *)
LEMMA StepsBack ==
  ASSUME NEW l, IsLayout(l), NEW t \in 0..l.last, t # 0
  PROVE  Counts(l, t - 1) \in {t - 2, t - 1} /\ Counts(l, t - 1) \in 0..l.last
<1> USE DEF IsLayout
<1>1. t - 1 \in Nat /\ t - 1 <= l.last
  OBVIOUS
<1>2. CASE l.pairing = "auto"
  <2>1. Grouped(l.wide, t - 1)
    BY <1>1, PageIsInItsGroup
  <2> QED  BY <1>1, <1>2, <2>1 DEF Counts, Grouped
<1>3. CASE l.pairing # "auto"
  <2>1. LET s == PairStart(t - 1, l.offset) IN s \in Nat /\ (t - 1 = s \/ t - 1 = s + 1)
    BY <1>1, PairsAlternate
  <2> QED  BY <1>1, <1>3, <2>1 DEF Counts
<1> QED  BY <1>2, <1>3

-----------------------------------------------------------------------------
(* The inductive invariant of the page that reads.                         *)

ReaderTyped ==
    /\ at \in ChapterNos /\ going \in 0..ChapterCount /\ atEnd \in BOOLEAN
    /\ pending \in Seq(ChapterNos) /\ result \in {Failed, Fetching} \cup ChapterNos
    /\ mode \in Modes /\ pairing \in Pairings /\ offset \in 0..1 /\ room \in BOOLEAN
    /\ page \in Nat /\ anchor \in {Pending, Free} \cup Nat
    /\ opened \in [end : BOOLEAN, crossed : BOOLEAN, moved : BOOLEAN]

\* What is known of pages is about pages of this chapter.
PagesKnown ==
    /\ Prepared => page \in Pages
    /\ wide \subseteq Pages /\ DOMAIN images \subseteq Pages

\* A chapter that was backed into waits for its pages, has none, or stands at
\* its last until the reader moves.
StandsAtItsEnd ==
    going = 0 /\ opened.end /\ ~opened.crossed /\ ~opened.moved =>
        \/ pending = <<at>> /\ atEnd /\ result = Fetching
        \/ pending = <<>> /\ result = Failed
        \/ /\ pending = <<>> /\ result = at
           /\ page = LastOf(at) /\ anchor = IF page > 0 THEN page ELSE Free

PlaceSound == ReaderTyped /\ PagesKnown /\ StandsAtItsEnd

(* Chapters have pages.                                                    *)
LEMMA ChaptersHavePages ==
  /\ ChapterCount \in Nat \ {0}
  /\ \A c \in ChapterNos : c \in Nat \ {0} /\ Count(c) \in Nat \ {0} /\ LastOf(c) \in Nat /\ 0 \in 0..LastOf(c)
  /\ 1 \in ChapterNos
<1>1. ChapterCount \in Nat \ {0}
  BY WebReaderAssumption DEF ChapterCount
<1>2. \A c \in ChapterNos : Count(c) \in Nat \ {0}
  BY WebReaderAssumption DEF ChapterNos, ChapterCount, Count
<1> QED  BY <1>1, <1>2 DEF ChapterNos, LastOf

(* The spread of a prepared chapter has the page and is of its pages.      *)
SpreadFits ==
    /\ IsLayout(Layout)
    /\ Prepared => /\ page \in Spread /\ Spread \subseteq Pages
                   /\ SpreadFirst = Begins(Layout, page)
                   /\ SpreadLast = Ends(Layout, SpreadFirst)
                   /\ SpreadFirst \in 0..page /\ SpreadLast \in page..LastOf(at)
                   /\ SpreadLast \in {SpreadFirst, SpreadFirst + 1}

LEMMA SpreadIsOfPages == PlaceSound => SpreadFits
<1> SUFFICES ASSUME PlaceSound PROVE SpreadFits
  OBVIOUS
<1>1. LastOf(at) \in Nat /\ mode \in Modes /\ pairing \in Pairings /\ offset \in 0..1 /\ page \in Nat
  BY ChaptersHavePages DEF PlaceSound, ReaderTyped
<1>2. IsLayout(Layout) /\ Layout.last = LastOf(at)
  BY <1>1 DEF IsLayout, Layout
<1>3. ASSUME Prepared
      PROVE  /\ page \in Spread /\ Spread \subseteq Pages
             /\ SpreadFirst = Begins(Layout, page)
             /\ SpreadLast = Ends(Layout, SpreadFirst)
             /\ SpreadFirst \in 0..page /\ SpreadLast \in page..LastOf(at)
             /\ SpreadLast \in {SpreadFirst, SpreadFirst + 1}
  <2>1. page \in 0..Layout.last
    BY <1>2, <1>3 DEF PlaceSound, PagesKnown, Pages
  <2>2. SpreadFirst = Begins(Layout, page) /\ SpreadLast = Ends(Layout, SpreadFirst)
    BY <1>1, SpreadOfLayout
  <2>3. SpreadFirst \in 0..page /\ SpreadLast \in page..LastOf(at) /\ SpreadLast \in {SpreadFirst, SpreadFirst + 1}
    BY <1>2, <2>1, <2>2, SpreadHasThePage
  <2> QED  BY <1>1, <2>2, <2>3 DEF Spread, Pages
<1> QED  BY <1>2, <1>3 DEF SpreadFits

LEMMA PlaceInitially == ReaderInit => PlaceSound
<1> SUFFICES ASSUME ReaderInit PROVE PlaceSound
  OBVIOUS
<1>1. ReaderTyped
  <2>1. at \in ChapterNos /\ mode \in Modes /\ pairing \in Pairings
    BY DEF ReaderInit
  <2>2. pending \in Seq(ChapterNos)
    BY <2>1 DEF ReaderInit
  <2>3. going = 0 /\ atEnd = FALSE /\ offset = 0 /\ page = 0
    BY DEF ReaderInit
  <2>4. atEnd \in BOOLEAN
    BY <2>3, Zenon
  <2>5. going \in 0..ChapterCount /\ atEnd \in BOOLEAN /\ offset \in 0..1 /\ page \in Nat
    <3>1. ChapterCount \in Nat
      BY ChaptersHavePages
    <3> QED  BY <2>3, <2>4, <3>1
  <2>6. /\ result \in {Failed, Fetching} \cup ChapterNos /\ anchor \in {Pending, Free} \cup Nat
        /\ opened \in [end : BOOLEAN, crossed : BOOLEAN, moved : BOOLEAN]
        /\ room \in BOOLEAN
    BY DEF ReaderInit
  <2> QED  BY <2>1, <2>2, <2>5, <2>6 DEF ReaderTyped
<1>2. PagesKnown
  BY ChaptersHavePages DEF ReaderInit, PagesKnown, Prepared, Fetching
<1>3. StandsAtItsEnd
  BY DEF ReaderInit, StandsAtItsEnd
<1> QED  BY <1>1, <1>2, <1>3 DEF PlaceSound

LEMMA OpenChapterKeeps ==
  ASSUME PlaceSound, NEW c, NEW end \in BOOLEAN, OpenChapter(c, end)
  PROVE  PlaceSound'
<1> USE DEF PlaceSound, OpenChapter
<1>1. ReaderTyped'
  BY ChaptersHavePages DEF ReaderTyped, ChapterNos, paged
<1>2. PagesKnown'
  BY ChaptersHavePages DEF ReaderTyped, PagesKnown, Prepared, Pages
<1>3. StandsAtItsEnd'
  BY ChaptersHavePages DEF StandsAtItsEnd
<1> QED  BY <1>1, <1>2, <1>3

LEMMA LandKeeps == ASSUME PlaceSound, Land PROVE PlaceSound'
<1> USE DEF PlaceSound, Land
<1>1. going \in ChapterNos
  BY DEF ReaderTyped, ChapterNos
<1>2. ReaderTyped'
  <2>1. pending' \in Seq(ChapterNos)
    BY <1>1, AppendProperties DEF ReaderTyped
  <2>2. going' \in 0..ChapterCount /\ page' \in Nat
    BY ChaptersHavePages
  <2>3. /\ result' \in {Failed, Fetching} \cup ChapterNos /\ anchor' \in {Pending, Free} \cup Nat
        /\ opened' \in [end : BOOLEAN, crossed : BOOLEAN, moved : BOOLEAN]
    BY DEF ReaderTyped
  <2> QED  BY <1>1, <2>1, <2>2, <2>3 DEF ReaderTyped, paged
<1>3. PagesKnown'
  BY <1>1, ChaptersHavePages DEF PagesKnown, Prepared, Fetching
<1>4. StandsAtItsEnd'
  <2>1. pending = <<>> => Append(pending, going) = <<going>>
    OBVIOUS
  <2> QED  BY <2>1 DEF StandsAtItsEnd, ReaderTyped, paged
<1> QED  BY <1>2, <1>3, <1>4

(* What is still out when an answer has come.                              *)
LEMMA OneAnswerLess ==
  ASSUME PlaceSound, NEW i \in DOMAIN pending
  PROVE  /\ Without(pending, i) \in Seq(ChapterNos)
         /\ pending[i] \in ChapterNos
         /\ pending = <<at>> => Without(pending, i) = <<>> /\ pending[i] = at
         /\ pending # <<>>
<1>1. pending \in Seq(ChapterNos)
  BY DEF PlaceSound, ReaderTyped
<1>2. Len(pending) \in Nat /\ i \in 1..Len(pending) /\ pending[i] \in ChapterNos
  BY <1>1
<1>3. SubSeq(pending, 1, i - 1) \in Seq(ChapterNos) /\ SubSeq(pending, i + 1, Len(pending)) \in Seq(ChapterNos)
  <2>1. \A k \in 1..(i - 1) : pending[k] \in ChapterNos
    BY <1>1, <1>2
  <2>2. \A k \in (i + 1)..Len(pending) : pending[k] \in ChapterNos
    BY <1>1, <1>2
  <2> QED  BY <1>1, <1>2, <2>1, <2>2, SubSeqProperties
<1>4. Without(pending, i) \in Seq(ChapterNos)
  BY <1>3, ConcatProperties DEF Without
<1>5. ASSUME pending = <<at>> PROVE Without(pending, i) = <<>> /\ pending[i] = at
  <2>1. i = 1 /\ Len(pending) = 1
    BY <1>2, <1>5
  <2>2. SubSeq(pending, 1, 0) = <<>> /\ SubSeq(pending, 2, 1) = <<>>
    BY <1>1
  <2> QED  BY <1>5, <2>1, <2>2 DEF Without
<1> QED  BY <1>2, <1>4, <1>5

LEMMA AnsweredKeeps ==
  ASSUME PlaceSound, NEW i, NEW lastRead \in Nat, Answered(i, lastRead)
  PROVE  PlaceSound'
<1> DEFINE c == pending[i]
           resumeAt == IF atEnd THEN Count(c) - 1 ELSE Lesser(lastRead, Count(c) - 1)
<1>1. /\ i \in DOMAIN pending /\ pending' = Without(pending, i) /\ result' = c
      /\ page' = resumeAt /\ anchor' = (IF resumeAt > 0 THEN resumeAt ELSE Free) /\ atEnd' = FALSE
      /\ at' = at /\ going' = going /\ UNCHANGED paged
      /\ wide' = wide /\ images' = images /\ opened' = opened
  BY DEF Answered, Resumed
<1>2. /\ Without(pending, i) \in Seq(ChapterNos) /\ c \in ChapterNos
      /\ pending = <<at>> => Without(pending, i) = <<>> /\ c = at
      /\ pending # <<>>
  BY <1>1, OneAnswerLess
<1> HIDE DEF c
<1>3. resumeAt \in 0..LastOf(c) /\ (atEnd => resumeAt = LastOf(c))
  BY <1>2, ChaptersHavePages DEF Lesser, LastOf
<1> HIDE DEF resumeAt
<1>4. LastOf(c) \in Nat /\ resumeAt \in Nat
  BY <1>2, <1>3, ChaptersHavePages
<1>5. ReaderTyped'
  <2>1. anchor' \in {Pending, Free} \cup Nat
    BY <1>1, <1>4
  <2> QED  BY <1>1, <1>2, <1>4, <2>1 DEF PlaceSound, ReaderTyped, paged
<1>6. PagesKnown'
  BY <1>1, <1>3 DEF PlaceSound, PagesKnown, Prepared, Pages
<1>7. StandsAtItsEnd'
  BY <1>1, <1>2, <1>3 DEF PlaceSound, StandsAtItsEnd
<1> QED  BY <1>5, <1>6, <1>7 DEF PlaceSound

LEMMA FetchFailedKeeps == ASSUME PlaceSound, NEW i, FetchFailed(i) PROVE PlaceSound'
<1>1. /\ i \in DOMAIN pending /\ pending' = Without(pending, i) /\ result' = Failed
      /\ page' = 0 /\ anchor' = Free /\ atEnd' = FALSE
      /\ at' = at /\ going' = going /\ UNCHANGED paged
      /\ wide' = wide /\ images' = images /\ opened' = opened
  BY DEF FetchFailed, Resumed, Lesser
<1>2. /\ Without(pending, i) \in Seq(ChapterNos)
      /\ pending = <<at>> => Without(pending, i) = <<>>
      /\ pending # <<>>
  BY <1>1, OneAnswerLess
<1>3. ReaderTyped'
  BY <1>1, <1>2 DEF PlaceSound, ReaderTyped, paged
<1>4. PagesKnown'
  BY <1>1, ChaptersHavePages DEF PlaceSound, ReaderTyped, PagesKnown, Prepared, Pages
<1>5. StandsAtItsEnd'
  BY <1>1, <1>2 DEF PlaceSound, StandsAtItsEnd
<1> QED  BY <1>3, <1>4, <1>5 DEF PlaceSound


(* Turning, jumping and the strip's own moves.                             *)
LEMMA MovingKeeps ==
  ASSUME PlaceSound, NEW p \in Pages, page' = p, opened' = [opened EXCEPT !.moved = TRUE],
         anchor' = p \/ anchor' = anchor,
         UNCHANGED <<at, going, atEnd, pending, result, paged, wide, images>>
  PROVE  PlaceSound'
<1>0. p \in Nat
  BY DEF Pages
<1>1. ReaderTyped'
  BY <1>0 DEF PlaceSound, ReaderTyped, paged
<1>2. PagesKnown'
  BY DEF PlaceSound, PagesKnown, Prepared, Pages
<1>3. StandsAtItsEnd'
  BY DEF PlaceSound, ReaderTyped, StandsAtItsEnd
<1> QED  BY <1>1, <1>2, <1>3 DEF PlaceSound

LEMMA GoToPageKeeps ==
  ASSUME PlaceSound, NEW target, GoToPage(target)
  PROVE  PlaceSound'
<1>1. CASE OpenChapter(at + 1, FALSE) \/ OpenChapter(at - 1, TRUE)
  BY <1>1, OpenChapterKeeps
<1>2. CASE /\ target \in Pages /\ page' = target
           /\ opened' = [opened EXCEPT !.moved = TRUE]
           /\ anchor' = target \/ anchor' = anchor
           /\ UNCHANGED <<at, going, atEnd, pending, result, paged, wide, images>>
  BY <1>2, MovingKeeps
<1> QED  BY <1>1, <1>2 DEF GoToPage

\* Nothing of the place changes but what is known of the chapter's pages.
ImagesKnown ==
    /\ wide' \subseteq Pages /\ DOMAIN images' \subseteq Pages
    /\ UNCHANGED <<at, going, atEnd, pending, result, page, paged, anchor, opened>>

LEMMA ImagesKeep == ASSUME PlaceSound, ImagesKnown PROVE PlaceSound'
<1> USE DEF PlaceSound, ImagesKnown
<1>1. ReaderTyped'
  BY DEF ReaderTyped, paged
<1>2. PagesKnown'
  BY DEF PagesKnown, Prepared, Pages
<1>3. StandsAtItsEnd'
  BY DEF StandsAtItsEnd
<1> QED  BY <1>1, <1>2, <1>3

LEMMA LeadLoadsKeeps == ASSUME PlaceSound, LeadLoads PROVE PlaceSound'
<1>1. SpreadFirst \in Pages
  BY ChaptersHavePages, SpreadIsOfPages DEF SpreadFits, LeadLoads, PlaceSound, PagesKnown, Pages, ReaderTyped
<1>2. wide \subseteq Pages /\ DOMAIN images \subseteq Pages
  BY DEF PlaceSound, PagesKnown
<1>3. wide' \subseteq Pages
  BY <1>1, <1>2 DEF LeadLoads, Notes
<1>4. DOMAIN images' \subseteq Pages
  BY <1>1, <1>2 DEF LeadLoads, Becomes
<1>5. ImagesKnown
  BY <1>3, <1>4 DEF LeadLoads, ImagesKnown
<1> QED  BY <1>5, ImagesKeep

LEMMA PageLoadsKeeps == ASSUME PlaceSound, NEW p, PageLoads(p) PROVE PlaceSound'
<1>1. p \in Pages
  BY DEF PageLoads
<1>2. wide \subseteq Pages /\ DOMAIN images \subseteq Pages
  BY DEF PlaceSound, PagesKnown
<1>3. wide' \subseteq Pages
  BY <1>1, <1>2 DEF PageLoads, Notes
<1>4. DOMAIN images' \subseteq Pages
  BY <1>1, <1>2 DEF PageLoads, Becomes
<1>5. ImagesKnown
  BY <1>3, <1>4 DEF PageLoads, ImagesKnown
<1> QED  BY <1>5, ImagesKeep

LEMMA FailPageKeeps == ASSUME PlaceSound, NEW p, FailPage(p) PROVE PlaceSound'
<1>1. p \in Pages
  BY SpreadIsOfPages DEF SpreadFits, FailPage
<1>2. wide \subseteq Pages /\ DOMAIN images \subseteq Pages
  BY DEF PlaceSound, PagesKnown
<1>3. wide' \subseteq Pages
  BY <1>2 DEF FailPage
<1>4. DOMAIN images' \subseteq Pages
  BY <1>1, <1>2 DEF FailPage, Becomes
<1>5. ImagesKnown
  BY <1>3, <1>4 DEF FailPage, ImagesKnown
<1> QED  BY <1>5, ImagesKeep

LEMMA RetryPageKeeps == ASSUME PlaceSound, NEW p, RetryPage(p) PROVE PlaceSound'
<1>1. wide' \subseteq Pages /\ DOMAIN images' \subseteq Pages
  BY DEF PlaceSound, PagesKnown, RetryPage
<1>2. ImagesKnown
  BY <1>1 DEF RetryPage, ImagesKnown
<1> QED  BY <1>2, ImagesKeep

LEMMA SetModeKeeps == ASSUME PlaceSound, NEW next, SetMode(next) PROVE PlaceSound'
<1> USE DEF PlaceSound, SetMode
<1>1. ReaderTyped'
  BY DEF ReaderTyped, paged
<1>2. PagesKnown'
  BY DEF PagesKnown, Prepared, Pages
<1>3. StandsAtItsEnd'
  BY ChaptersHavePages DEF StandsAtItsEnd, ReaderTyped
<1> QED  BY <1>1, <1>2, <1>3

LEMMA SetSpreadKeeps ==
  ASSUME PlaceSound, NEW next \in Pairings, NEW off \in 0..1, SetSpread(next, off)
  PROVE  PlaceSound'
<1> USE DEF PlaceSound, SetSpread
<1>1. ReaderTyped'
  BY DEF ReaderTyped, paged
<1>2. PagesKnown'
  BY DEF PagesKnown, Prepared, Pages
<1>3. StandsAtItsEnd'
  BY DEF StandsAtItsEnd
<1> QED  BY <1>1, <1>2, <1>3

LEMMA StripUpdateKeeps ==
  ASSUME PlaceSound, NEW visible \in Pages, StripUpdate(visible)
  PROVE  PlaceSound'
<1> DEFINE p == IF anchor >= 0 THEN Lesser(anchor, LastOf(at)) ELSE visible
<1>1. /\ Prepared /\ anchor # Pending /\ p \in Pages /\ page' = p
      /\ UNCHANGED <<at, going, atEnd, pending, result, paged, wide, images, anchor, opened>>
  BY DEF StripUpdate
<1>2. LastOf(at) \in Nat /\ page \in Nat /\ anchor \in {Pending, Free} \cup Nat
  BY ChaptersHavePages DEF PlaceSound, ReaderTyped
<1>3. (anchor = IF page > 0 THEN page ELSE Free) /\ page = LastOf(at) => p = page
  BY <1>2 DEF Free, Lesser, Pages
<1> HIDE DEF p
<1>4. p \in Nat
  BY <1>1 DEF Pages
<1>5. ReaderTyped'
  BY <1>1, <1>4 DEF PlaceSound, ReaderTyped, paged
<1>6. PagesKnown'
  BY <1>1 DEF PlaceSound, PagesKnown, Prepared, Pages
<1>7. StandsAtItsEnd'
  BY <1>1, <1>3 DEF PlaceSound, StandsAtItsEnd
<1> QED  BY <1>5, <1>6, <1>7 DEF PlaceSound

LEMMA ResizeKeeps == ASSUME PlaceSound, Resize PROVE PlaceSound'
<1> USE DEF PlaceSound, Resize
<1>1. ReaderTyped'
  BY DEF ReaderTyped, paged
<1>2. PagesKnown'
  BY DEF PagesKnown, Prepared, Pages
<1>3. StandsAtItsEnd'
  BY DEF StandsAtItsEnd
<1> QED  BY <1>1, <1>2, <1>3

LEMMA ReleaseAnchorKeeps == ASSUME PlaceSound, ReleaseAnchor PROVE PlaceSound'
<1> USE DEF PlaceSound, ReleaseAnchor
<1>1. ReaderTyped'
  BY DEF ReaderTyped, paged
<1>2. PagesKnown'
  BY DEF PagesKnown, Prepared, Pages
<1>3. StandsAtItsEnd'
  BY DEF ReaderTyped, StandsAtItsEnd
<1> QED  BY <1>1, <1>2, <1>3

\* Each of the page's steps, named.
LEMMA ReaderSteps ==
  ASSUME ReaderNext
  PROVE  \/ \E c \in ChapterNos : OpenChapter(c, FALSE)
         \/ Land
         \/ \E i : FetchFailed(i) \/ \E lastRead \in Nat : Answered(i, lastRead)
         \/ TurnForward \/ TurnBack \/ \E p \in Pages : JumpTo(p)
         \/ LeadLoads
         \/ \E p \in Pages : PageLoads(p) \/ FailPage(p) \/ RetryPage(p) \/ StripUpdate(p)
         \/ \E next \in Modes : SetMode(next)
         \/ \E next \in Pairings, off \in 0..1 : SetSpread(next, off)
         \/ Resize
         \/ ReleaseAnchor
<1>1. Resumes \subseteq Nat
  BY WebReaderAssumption
<1>2. (\E i \in 1..MaxPending : FetchFailed(i) \/ \E lastRead \in Resumes : Answered(i, lastRead))
        => \E i : FetchFailed(i) \/ \E lastRead \in Nat : Answered(i, lastRead)
  BY <1>1
<1> QED  BY <1>2 DEF ReaderNext

LEMMA PlaceStep == PlaceSound /\ [ReaderNext]_readerVars => PlaceSound'
<1> SUFFICES ASSUME PlaceSound, [ReaderNext]_readerVars PROVE PlaceSound'
  OBVIOUS
<1>1. ASSUME NEW c \in ChapterNos, OpenChapter(c, FALSE) PROVE PlaceSound'
  BY <1>1, OpenChapterKeeps
<1>2. CASE Land
  BY <1>2, LandKeeps
<1>3. ASSUME NEW i, FetchFailed(i) PROVE PlaceSound'
  BY <1>3, FetchFailedKeeps
<1>4. ASSUME NEW i, NEW lastRead \in Nat, Answered(i, lastRead) PROVE PlaceSound'
  BY <1>4, AnsweredKeeps
<1>5. CASE TurnForward
  BY <1>5, GoToPageKeeps DEF TurnForward
<1>6. CASE TurnBack
  BY <1>6, GoToPageKeeps DEF TurnBack
<1>7. ASSUME NEW p \in Pages, JumpTo(p) PROVE PlaceSound'
  BY <1>7, GoToPageKeeps DEF JumpTo
<1>8. CASE LeadLoads
  BY <1>8, LeadLoadsKeeps
<1>9. ASSUME NEW p \in Pages, PageLoads(p) \/ FailPage(p) \/ RetryPage(p) \/ StripUpdate(p)
      PROVE  PlaceSound'
  BY <1>9, PageLoadsKeeps, FailPageKeeps, RetryPageKeeps, StripUpdateKeeps
<1>10. ASSUME NEW next \in Modes, SetMode(next) PROVE PlaceSound'
  BY <1>10, SetModeKeeps
<1>11. ASSUME NEW next \in Pairings, NEW off \in 0..1, SetSpread(next, off) PROVE PlaceSound'
  BY <1>11, SetSpreadKeeps
<1>12. CASE ReleaseAnchor
  BY <1>12, ReleaseAnchorKeeps
<1>13. CASE Resize
  BY <1>13, ResizeKeeps
<1>14. CASE UNCHANGED readerVars
  <2>1. ReaderTyped' /\ PagesKnown' /\ StandsAtItsEnd'
    BY <1>14 DEF PlaceSound, ReaderTyped, PagesKnown, StandsAtItsEnd, Prepared, Pages, readerVars, paged
  <2> QED  BY <2>1 DEF PlaceSound
<1> QED  BY <1>1, <1>2, <1>3, <1>4, <1>5, <1>6, <1>7, <1>8, <1>9, <1>10, <1>11, <1>12, <1>13, <1>14, ReaderSteps

LEMMA PlaceHolds == ReaderPageSpec => []PlaceSound
<1> QED  BY PlaceInitially, PlaceStep, PTL DEF ReaderPageSpec

\* A prepared page's spread, in the state a step leads to.
LEMMA SpreadNext == PlaceSound' => SpreadFits'
BY SpreadIsOfPages, PTL

\* The layout stays when a page is gone to within the chapter.
LEMMA SpreadGoneTo ==
  ASSUME PlaceSound, PlaceSound', Prepared, NEW p \in Pages, page' = p,
         UNCHANGED <<at, going, result, paged, wide>>
  PROVE  /\ SpreadFirst' = Begins(Layout, p)
         /\ SpreadLast' = Ends(Layout, Begins(Layout, p))
         /\ Spread' = SpreadFirst'..SpreadLast'
<1>1. Layout' = Layout
  BY DEF Layout, SpreadActive, paged
<1>2. Prepared' => SpreadFirst' = Begins(Layout', page') /\ SpreadLast' = Ends(Layout', SpreadFirst')
  BY SpreadNext DEF SpreadFits
<1>3. Prepared'
  BY DEF Prepared
<1>4. Spread' = SpreadFirst'..SpreadLast'
  BY DEF Spread
<1> HIDE DEF Layout
<1> QED  BY <1>1, <1>2, <1>3, <1>4

\* Turning on shows the page behind the spread, and what it begins with is
\* not behind that; or hops, from the last page.
LEMMA TurnsForward ==
  ASSUME PlaceSound, PlaceSound', going = 0, TurnForward
  PROVE  Forward
<1>1. /\ IsLayout(Layout) /\ Layout.last = LastOf(at) /\ Prepared
      /\ page \in 0..LastOf(at)
      /\ SpreadFirst = Begins(Layout, page) /\ SpreadLast = Ends(Layout, SpreadFirst)
      /\ SpreadLast \in page..LastOf(at) /\ LastOf(at) \in Nat
  <2>1. Prepared
    BY DEF TurnForward, GoToPage
  <2>2. page \in Pages /\ at \in ChapterNos
    BY <2>1 DEF PlaceSound, PagesKnown, ReaderTyped
  <2> QED  BY <2>1, <2>2, SpreadIsOfPages, ChaptersHavePages DEF SpreadFits, Pages, Layout
<1>2. CASE SpreadLast + 1 > LastOf(at) /\ OpenChapter(at + 1, FALSE)
  <2>1. going' # 0
    BY <1>2, ChaptersHavePages DEF OpenChapter
  <2>2. SpreadLast = LastOf(at)
    BY <1>1, <1>2
  <2> QED  BY <2>1, <2>2 DEF Forward
<1>3. CASE SpreadLast + 1 < 0
  BY <1>1, <1>3
<1>4. CASE /\ SpreadLast + 1 \in Pages /\ page' = SpreadLast + 1
           /\ UNCHANGED <<at, going, result, paged, wide>>
  <2> DEFINE e == SpreadLast + 1
  <2>1. e \in 0..Layout.last /\ e = Ends(Layout, Begins(Layout, page)) + 1
    BY <1>1, <1>4 DEF Pages
  <2>2. Begins(Layout, e) = e
    BY <1>1, <2>1, NextSpreadFollows
  <2>3. Ends(Layout, e) \in e..LastOf(at)
    BY <1>1, <2>1, <2>2, SpreadHasThePage
  <2>4. SpreadFirst' = e /\ Spread' = SpreadFirst'..SpreadLast' /\ SpreadLast' = Ends(Layout, e)
    BY <1>1, <1>4, <2>2, SpreadGoneTo
  <2>5. e \in Spread' /\ SpreadFirst' <= e /\ going' = 0
    BY <1>1, <1>4, <2>1, <2>3, <2>4
  <2> QED  BY <2>5 DEF Forward
<1> QED  BY <1>2, <1>3, <1>4 DEF TurnForward, GoToPage, ForwardPage

\* Turning back shows the page before the spread and begins before it, or, where
\* spreads are not shown, goes one page back or two; or hops, from the first.
LEMMA TurnsBack ==
  ASSUME PlaceSound, PlaceSound', going = 0, TurnBack
  PROVE  Back
<1>1. /\ IsLayout(Layout) /\ Layout.last = LastOf(at) /\ Prepared
      /\ page \in 0..LastOf(at) /\ LastOf(at) \in Nat
      /\ SpreadFirst = Begins(Layout, page) /\ SpreadFirst \in 0..page
  <2>1. Prepared
    BY DEF TurnBack, GoToPage
  <2>2. page \in Pages /\ at \in ChapterNos
    BY <2>1 DEF PlaceSound, PagesKnown, ReaderTyped
  <2> QED  BY <2>1, <2>2, SpreadIsOfPages, ChaptersHavePages DEF SpreadFits, Pages, Layout
<1>2. CASE SpreadFirst = 0
  <2>1. BackwardPage = -1
    BY <1>2 DEF BackwardPage
  <2>2. OpenChapter(at - 1, TRUE)
    <3>1. ~(-1 > LastOf(at)) /\ -1 \notin Pages
      BY <1>1 DEF Pages
    <3>2. GoToPage(-1)
      BY <2>1 DEF TurnBack
    <3> QED  BY <3>1, <3>2 DEF GoToPage
  <2>3. going' # 0
    BY <2>2, ChaptersHavePages DEF OpenChapter
  <2> QED  BY <1>2, <2>3 DEF Back
<1>3. CASE SpreadFirst # 0 /\ SpreadActive
  <2> DEFINE b == Begins(Layout, SpreadFirst - 1)
  <2>1. /\ b \in 0..(SpreadFirst - 1) /\ Begins(Layout, b) = b
        /\ SpreadFirst - 1 \in b..Ends(Layout, b)
    BY <1>1, <1>3, SpreadBefore
  <2>2. BackwardPage = b
    <3>1. StartOf(SpreadFirst - 1) = Counts(Layout, SpreadFirst - 1)
      BY <1>1, <1>3, SpreadOfLayout
    <3>2. Layout.active
      BY <1>3 DEF Layout
    <3> QED  BY <1>3, <3>1, <3>2 DEF BackwardPage, Begins
  <2> HIDE DEF b
  <2>3. b \in Pages /\ ~(b > LastOf(at)) /\ ~(b < 0)
    BY <1>1, <2>1 DEF Pages
  <2>4. page' = b /\ UNCHANGED <<at, going, result, paged, wide>>
    BY <2>2, <2>3 DEF TurnBack, GoToPage
  <2>5. SpreadFirst' = b /\ SpreadLast' = Ends(Layout, b) /\ Spread' = SpreadFirst'..SpreadLast'
    BY <1>1, <2>1, <2>3, <2>4, SpreadGoneTo
  <2>6. SpreadFirst' < SpreadFirst /\ SpreadFirst - 1 \in Spread'
    BY <1>1, <2>1, <2>5
  <2> QED  BY <1>3, <2>4, <2>6 DEF Back
<1>4. CASE SpreadFirst # 0 /\ ~SpreadActive
  <2> DEFINE b == Counts(Layout, page - 1)
  <2>1. SpreadFirst = page /\ ~Layout.active
    BY <1>4 DEF SpreadFirst, Layout
  <2>2. b \in {page - 2, page - 1} /\ b \in 0..LastOf(at)
    BY <1>1, <1>4, <2>1, StepsBack
  <2>3. BackwardPage = b
    BY <1>1, <1>4, <2>1, SpreadOfLayout DEF BackwardPage
  <2> HIDE DEF b
  <2>4. b \in Pages /\ ~(b > LastOf(at)) /\ ~(b < 0)
    BY <1>1, <2>2 DEF Pages
  <2>5. page' = b /\ UNCHANGED <<at, going, result, paged, wide>>
    BY <2>3, <2>4 DEF TurnBack, GoToPage
  <2>6. SpreadFirst' = b
    BY <2>1, <2>4, <2>5, SpreadGoneTo, <1>1 DEF Begins
  <2>7. SpreadFirst' < SpreadFirst /\ SpreadFirst' >= SpreadFirst - 2
    BY <1>1, <2>1, <2>2, <2>6
  <2> QED  BY <1>1, <1>4, <2>5, <2>7 DEF Back
<1> QED  BY <1>2, <1>3, <1>4

\* A hop under way ends where it was going.
LEMMA HopsLand ==
  ASSUME going # 0, [ReaderNext]_readerVars
  PROVE  going' = going \/ (going' = 0 /\ at' = going)
<1>1. \A target, end : ~OpenChapter(target, end)
  BY DEF OpenChapter
<1>2. ASSUME NEW target, GoToPage(target) PROVE going' = going
  BY <1>1, <1>2 DEF GoToPage
<1>3. CASE ReaderNext
  <2>1. CASE Land
    BY <2>1 DEF Land
  <2>2. CASE \E i : FetchFailed(i) \/ \E lastRead \in Nat : Answered(i, lastRead)
    BY <2>2 DEF FetchFailed, Answered
  <2>3. CASE TurnForward \/ TurnBack \/ \E p \in Pages : JumpTo(p)
    BY <2>3, <1>2 DEF TurnForward, TurnBack, JumpTo
  <2>4. CASE LeadLoads \/ \E p \in Pages : PageLoads(p) \/ FailPage(p) \/ RetryPage(p)
    BY <2>4 DEF LeadLoads, PageLoads, FailPage, RetryPage
  <2>5. CASE \E p \in Pages : StripUpdate(p)
    BY <2>5 DEF StripUpdate
  <2>6. CASE ReleaseAnchor \/ Resize \/ \E next \in Modes : SetMode(next)
    BY <2>6 DEF SetMode, Resize, ReleaseAnchor
  <2>7. CASE \E next \in Pairings, off \in 0..1 : SetSpread(next, off)
    BY <2>7 DEF SetSpread
  <2> QED  BY <1>1, <1>3, <2>1, <2>2, <2>3, <2>4, <2>5, <2>6, <2>7, ReaderSteps
<1>4. CASE UNCHANGED readerVars
  BY <1>4 DEF readerVars, paged
<1> QED  BY <1>3, <1>4

LEMMA TurningReadsOn ==
  ASSUME PlaceSound, PlaceSound', [ReaderNext]_readerVars
  PROVE  TurnsReadOn
<1>1. mode = "paged" /\ going = 0 /\ TurnForward => Forward
  BY TurnsForward
<1>2. mode = "paged" /\ going = 0 /\ TurnBack => Back
  BY TurnsBack
<1>3. going # 0 => going' = going \/ (going' = 0 /\ at' = going)
  BY HopsLand
<1>4. Prepared' => page' \in Spread'
  BY SpreadNext DEF SpreadFits
<1>5. (Prepared /\ going = 0 /\ opened.end /\ ~opened.crossed /\ ~opened.moved)' => page' = LastOf(at')
  <2>1. ReaderTyped' /\ StandsAtItsEnd'
    BY DEF PlaceSound
  <2>2. at' \in ChapterNos
    BY <2>1 DEF ReaderTyped
  <2>3. at' # Fetching /\ at' # Failed
    BY <2>2, ChaptersHavePages DEF Fetching, Failed
  <2> QED  BY <2>1, <2>3 DEF StandsAtItsEnd, Prepared
<1> HIDE DEF Forward, Back
<1> QED  BY <1>1, <1>2, <1>3, <1>4, <1>5 DEF TurnsReadOn


\* The furthest page of a spread that is there.
LEMMA SeenIsThere ==
  ASSUME PlaceSound, Prepared, SpreadFirst \notin FailedPages
  PROVE  Seen \in Spread /\ Seen \notin FailedPages
<1> DEFINE seen == Spread \ FailedPages
<1>1. /\ SpreadFirst \in Nat /\ SpreadLast \in {SpreadFirst, SpreadFirst + 1}
      /\ Spread = SpreadFirst..SpreadLast
  BY SpreadIsOfPages DEF SpreadFits, Spread
<1>2. SpreadFirst \in seen /\ \A p \in seen : p \in {SpreadFirst, SpreadFirst + 1}
  BY <1>1
<1> HIDE DEF seen
<1>3. \E p \in seen : \A q \in seen : q <= p
  <2>1. CASE SpreadFirst + 1 \in seen
    BY <2>1, <1>1, <1>2
  <2>2. CASE SpreadFirst + 1 \notin seen
    BY <2>2, <1>1, <1>2
  <2> QED  BY <2>1, <2>2
<1>4. Seen \in seen
  <2>1. Seen = CHOOSE p \in seen : \A q \in seen : q <= p
    BY <1>2 DEF Seen, seen
  <2> QED  BY <1>3, <2>1
<1> QED  BY <1>4 DEF seen

\* A step that reports, reports what was seen.
LEMMA ReportedWasSeen ==
  ASSUME PlaceSound, ReaderNext
  PROVE  ReportsWereSeen
<1>2. SUFFICES ASSUME report' # <<>> PROVE ReportsWereSeen
  BY DEF ReportsWereSeen
<1>3. \A target, end : ~OpenChapter(target, end)
  BY <1>2 DEF OpenChapter
<1>4. ASSUME NEW target, GoToPage(target) PROVE ReportsWereSeen
  <2>1. /\ Prepared /\ mode = "strip" /\ report' = PageReports(target)
        /\ opened' = [opened EXCEPT !.moved = TRUE]
    BY <1>2, <1>3, <1>4 DEF GoToPage
  <2>2. opened'.moved
    BY <2>1 DEF PlaceSound, ReaderTyped
  <2> QED  BY <2>1, <2>2 DEF ReportsWereSeen, PageReports
<1>5. CASE TurnForward \/ TurnBack \/ \E p \in Pages : JumpTo(p)
  BY <1>4, <1>5 DEF TurnForward, TurnBack, JumpTo
<1>6. CASE LeadLoads
  <2>1. /\ Prepared /\ mode = "paged" /\ SpreadFirst \notin FailedPages
        /\ report' = PageReports(Seen)
    BY <1>6 DEF LeadLoads
  <2>2. Seen \in Spread /\ Seen \notin FailedPages
    BY <2>1, SeenIsThere
  <2>3. report'[1] = at /\ report'[2] = Seen /\ report'[3] = (Seen = LastOf(at))
    BY <2>1 DEF PageReports
  <2> HIDE DEF FailedPages
  <2> QED  BY <2>1, <2>2, <2>3 DEF ReportsWereSeen
<1>7. CASE \E p \in Pages : StripUpdate(p)
  <2>1. Prepared /\ mode = "strip" /\ anchor = Free
    BY <1>2, <1>7 DEF StripUpdate
  <2>2. PICK p : report' = PageReports(p)
    BY <1>2, <1>7 DEF StripUpdate
  <2>3. report'[1] = at /\ report'[2] = p /\ report'[3] = (p = LastOf(at))
    BY <2>2 DEF PageReports
  <2>4. ~(anchor >= 0)
    BY <2>1 DEF Free
  <2> QED  BY <2>1, <2>3, <2>4 DEF ReportsWereSeen
<1>8. CASE Land \/ Resize \/ ReleaseAnchor \/ \E next \in Modes : SetMode(next)
  BY <1>2, <1>8 DEF Land, SetMode, Resize, ReleaseAnchor
<1>9. CASE \E i : FetchFailed(i) \/ \E lastRead \in Nat : Answered(i, lastRead)
  BY <1>2, <1>9 DEF FetchFailed, Answered
<1>10. CASE \E p \in Pages : PageLoads(p) \/ FailPage(p) \/ RetryPage(p)
  BY <1>2, <1>10 DEF PageLoads, FailPage, RetryPage
<1>11. CASE \E next \in Pairings, off \in 0..1 : SetSpread(next, off)
  BY <1>2, <1>11 DEF SetSpread
<1> QED  BY <1>3, <1>5, <1>6, <1>7, <1>8, <1>9, <1>10, <1>11, ReaderSteps


-----------------------------------------------------------------------------
(* Fingers and keys.                                                       *)

\* A swipe is of the only finger, before anything turned; a click is still to
\* come once no finger is left; and either of a page that was dragged knows it.
FingersSound ==
    /\ turns <= 1
    /\ swipe # 0 => down = {swipe} /\ turns = 0 /\ click = "none"
    /\ click # "none" => down = {}
    /\ click = "turn" /\ ~panned => turns = 0
    /\ dragged /\ (click # "none" \/ swipe # 0) => panned

\* No key is bound to two actions.
KeysSound == \A a, b \in Actions : a # b => keybinds[a] \cap keybinds[b] = {}

GesturesSound == WebGesturesTypeOK /\ FingersSound /\ KeysSound

LEMMA GesturesInitially == GestureInit => GesturesSound
<1> SUFFICES ASSUME GestureInit PROVE GesturesSound
  OBVIOUS
<1>1. keybinds = Defaults
  BY DEF GestureInit
<1>2. /\ down = {} /\ swipe = 0 /\ click = "none" /\ turns = 0 /\ capturing = NoAction
      /\ panned = FALSE /\ pinching = FALSE /\ zoomed = FALSE /\ lastTap = FALSE
      /\ dragged = FALSE /\ optionsOpen = FALSE
  BY DEF GestureInit
<1>3. {panned, pinching, zoomed, lastTap, dragged, optionsOpen} \subseteq BOOLEAN
  BY <1>2, Zenon
<1>4. WebGesturesTypeOK
  BY <1>1, <1>2, <1>3, WebGesturesAssumption DEF WebGesturesTypeOK, Regions
<1>5. FingersSound
  BY <1>2 DEF FingersSound
<1>6. KeysSound
  BY <1>1, WebGesturesAssumption DEF KeysSound
<1> QED  BY <1>4, <1>5, <1>6 DEF GesturesSound

\* Six flags are flags.
LEMMA SixFlags ==
  ASSUME NEW a \in BOOLEAN, NEW b \in BOOLEAN, NEW c \in BOOLEAN, NEW d \in BOOLEAN,
         NEW e \in BOOLEAN, NEW f \in BOOLEAN
  PROVE  {a, b, c, d, e, f} \subseteq BOOLEAN
BY Zenon

LEMMA FlagsAreFlags ==
  ASSUME WebGesturesTypeOK
  PROVE  /\ panned \in BOOLEAN /\ pinching \in BOOLEAN /\ zoomed \in BOOLEAN
         /\ lastTap \in BOOLEAN /\ dragged \in BOOLEAN /\ optionsOpen \in BOOLEAN
<1>1. {panned, pinching, zoomed, lastTap, dragged, optionsOpen} \subseteq BOOLEAN
  BY DEF WebGesturesTypeOK
<1> QED  BY <1>1, Zenon

LEMMA PointerDownKeeps ==
  ASSUME GesturesSound, NEW f \in Fingers, PointerDown(f)
  PROVE  GesturesSound'
<1>0. WebGesturesTypeOK /\ FingersSound /\ KeysSound
  BY DEF GesturesSound
<1>1. UNCHANGED <<zoomed, lastTap, click, optionsOpen, capturing, keybinds>>
  BY DEF PointerDown, keyVars
<1>2. {panned, pinching, zoomed, lastTap, dragged, optionsOpen}' \subseteq BOOLEAN
  <2>1. panned' \in BOOLEAN /\ pinching' \in BOOLEAN
    BY DEF PointerDown
  <2>2. dragged' \in BOOLEAN
    BY <1>0, FlagsAreFlags DEF PointerDown
  <2> QED  BY <1>0, <1>1, <2>1, <2>2, FlagsAreFlags, SixFlags
<1>3. /\ down' \subseteq Fingers /\ swipe' \in {0} \cup Fingers /\ click' \in Regions /\ turns' \in Nat
      /\ capturing' \in Actions \cup {NoAction} /\ keybinds' \in [Actions -> SUBSET Chords]
  BY <1>0, <1>1 DEF PointerDown, WebGesturesTypeOK
<1>4. WebGesturesTypeOK'
  BY <1>2, <1>3 DEF WebGesturesTypeOK
<1>5. FingersSound'
  <2>1. CASE down = {}
    BY <1>0, <1>1, <2>1 DEF PointerDown, FingersSound
  <2>2. CASE down # {}
    BY <1>0, <1>1, <2>2 DEF PointerDown, FingersSound
  <2> QED  BY <2>1, <2>2
<1>6. KeysSound'
  BY <1>0, <1>1 DEF KeysSound
<1> QED  BY <1>4, <1>5, <1>6 DEF GesturesSound

LEMMA PointerMoveKeeps ==
  ASSUME GesturesSound, NEW far \in BOOLEAN, PointerMove(far)
  PROVE  GesturesSound'
<1>0. WebGesturesTypeOK /\ FingersSound /\ KeysSound
  BY DEF GesturesSound
<1>1. /\ UNCHANGED <<down, swipe, pinching, lastTap, click, turns, optionsOpen, capturing, keybinds>>
      /\ down # {}
  BY DEF PointerMove, keyVars
<1>2. {panned, pinching, zoomed, lastTap, dragged, optionsOpen}' \subseteq BOOLEAN
  <2>1. panned' \in BOOLEAN /\ zoomed' \in BOOLEAN /\ dragged' \in BOOLEAN
    BY <1>0, FlagsAreFlags DEF PointerMove
  <2> QED  BY <1>0, <1>1, <2>1, FlagsAreFlags, SixFlags
<1>3. WebGesturesTypeOK'
  BY <1>0, <1>1, <1>2 DEF WebGesturesTypeOK
<1>4. dragged' => dragged \/ panned'
  BY DEF PointerMove
<1>5. panned => panned'
  BY DEF PointerMove
<1>6. FingersSound'
  BY <1>0, <1>1, <1>4, <1>5 DEF FingersSound
<1>7. KeysSound'
  BY <1>0, <1>1 DEF KeysSound
<1> QED  BY <1>3, <1>6, <1>7 DEF GesturesSound

LEMMA PointerUpKeeps ==
  ASSUME GesturesSound, NEW f \in Fingers, NEW far \in BOOLEAN, NEW region \in Regions,
         PointerUp(f, far, region)
  PROVE  GesturesSound'
<1>0. WebGesturesTypeOK /\ FingersSound /\ KeysSound
  BY DEF GesturesSound
<1>1. /\ UNCHANGED <<dragged, optionsOpen, capturing, keybinds>>
      /\ f \in down /\ down' = down \ {f} /\ pinching' = FALSE
      /\ swipe' = IF swipe = f THEN 0 ELSE swipe
      /\ click' = IF swipe = f /\ down = {f} THEN region ELSE click
  BY DEF PointerUp, keyVars
<1>2. \/ swipe = f /\ down = {f} /\ turns' = turns + 1 /\ panned' = TRUE
      \/ UNCHANGED <<turns, panned>>
  BY DEF PointerUp, Swiped
<1>3. {panned, pinching, zoomed, lastTap, dragged, optionsOpen}' \subseteq BOOLEAN
  <2>1. panned' \in BOOLEAN /\ zoomed' \in BOOLEAN /\ lastTap' \in BOOLEAN
    BY <1>0, FlagsAreFlags DEF PointerUp
  <2>2. pinching' \in BOOLEAN
    BY <1>1, Zenon
  <2> QED  BY <1>0, <1>1, <2>1, <2>2, FlagsAreFlags, SixFlags
<1>4. WebGesturesTypeOK'
  BY <1>0, <1>1, <1>2, <1>3 DEF WebGesturesTypeOK
<1>5. FingersSound'
  <2>1. swipe = f \/ swipe = 0
    BY <1>0, <1>1 DEF FingersSound
  <2>2. swipe' = 0
    BY <1>1, <2>1
  <2>3. CASE swipe = f
    <3>1. f # 0 /\ down = {f} /\ turns = 0 /\ down' = {} /\ click' = region
      BY <1>0, <1>1, <2>3 DEF FingersSound, Fingers
    <3>2. dragged => panned'
      BY <1>0, <1>2, <2>3, <3>1 DEF FingersSound
    <3> QED  BY <1>0, <1>1, <1>2, <2>2, <3>1, <3>2 DEF FingersSound
  <2>4. CASE swipe # f
    <3>1. UNCHANGED <<turns, panned, click>> /\ click = "none"
      BY <1>0, <1>1, <1>2, <2>4 DEF FingersSound
    <3> QED  BY <1>0, <2>2, <3>1 DEF FingersSound
  <2> QED  BY <2>3, <2>4
<1>6. KeysSound'
  BY <1>0, <1>1 DEF KeysSound
<1> QED  BY <1>4, <1>5, <1>6 DEF GesturesSound

LEMMA ClickKeeps == ASSUME GesturesSound, Click PROVE GesturesSound'
<1>0. WebGesturesTypeOK /\ FingersSound /\ KeysSound
  BY DEF GesturesSound
<1>1. /\ UNCHANGED <<down, panned, swipe, pinching, zoomed, lastTap, dragged, optionsOpen, capturing, keybinds>>
      /\ click # "none" /\ click' = "none"
      /\ turns' = IF click = "turn" /\ ~panned THEN turns + 1 ELSE turns
  BY DEF Click, keyVars
<1>2. WebGesturesTypeOK'
  BY <1>0, <1>1 DEF WebGesturesTypeOK, Regions
<1>3. FingersSound'
  <2>1. swipe = 0
    BY <1>0, <1>1 DEF FingersSound
  <2> QED  BY <1>0, <1>1, <2>1 DEF FingersSound
<1>4. KeysSound'
  BY <1>0, <1>1 DEF KeysSound
<1> QED  BY <1>2, <1>3, <1>4 DEF GesturesSound

\* Keys move no finger, though they may zoom.
LEMMA FingersRest ==
  ASSUME GesturesSound, UNCHANGED <<down, panned, swipe, pinching, lastTap, click, turns, dragged>>,
         zoomed' \in BOOLEAN, optionsOpen' \in BOOLEAN,
         capturing' \in Actions \cup {NoAction}, keybinds' \in [Actions -> SUBSET Chords], KeysSound'
  PROVE  GesturesSound'
<1>0. WebGesturesTypeOK /\ FingersSound
  BY DEF GesturesSound
<1>1. {panned, pinching, zoomed, lastTap, dragged, optionsOpen}' \subseteq BOOLEAN
  BY <1>0, FlagsAreFlags, SixFlags
<1>2. WebGesturesTypeOK'
  BY <1>0, <1>1 DEF WebGesturesTypeOK
<1>3. FingersSound'
  BY <1>0 DEF FingersSound
<1> QED  BY <1>2, <1>3 DEF GesturesSound

LEMMA KeysKeep ==
  ASSUME GesturesSound, NEW k \in Chords, Record(k) \/ KeyInDialog(k) \/ KeyDown(k)
  PROVE  GesturesSound'
<1>0. WebGesturesTypeOK /\ KeysSound
  BY DEF GesturesSound
<1>1. /\ zoomed \in BOOLEAN /\ optionsOpen \in BOOLEAN
      /\ capturing \in Actions \cup {NoAction} /\ keybinds \in [Actions -> SUBSET Chords]
  BY <1>0, FlagsAreFlags DEF WebGesturesTypeOK
<1>2. CASE Record(k)
  <2>1. UNCHANGED <<down, panned, swipe, pinching, lastTap, click, turns, dragged, zoomed, optionsOpen>>
    BY <1>2 DEF Record, pointerVars
  <2>2. capturing \in Actions /\ capturing' = NoAction
    BY <1>1, <1>2 DEF Record
  <2>3. keybinds' = keybinds \/ keybinds' = BindChord(keybinds, capturing, k)
    BY <1>2 DEF Record
  <2>4. keybinds' \in [Actions -> SUBSET Chords]
    BY <1>1, <2>2, <2>3 DEF BindChord
  <2>5. KeysSound'
    <3>1. CASE keybinds' = keybinds
      BY <1>0, <3>1 DEF KeysSound
    <3>2. CASE keybinds' = BindChord(keybinds, capturing, k)
      BY <1>0, <1>1, <2>2, <3>2 DEF KeysSound, BindChord
    <3> QED  BY <2>3, <3>1, <3>2
  <2> QED  BY <1>1, <2>1, <2>2, <2>4, <2>5, FingersRest
<1>3. CASE KeyInDialog(k)
  <2>1. UNCHANGED <<down, panned, swipe, pinching, lastTap, click, turns, dragged, zoomed, capturing, keybinds>>
    BY <1>3 DEF KeyInDialog, pointerVars
  <2>2. optionsOpen' \in BOOLEAN
    BY <1>3 DEF KeyInDialog
  <2>3. KeysSound'
    BY <1>0, <2>1 DEF KeysSound
  <2> QED  BY <1>1, <2>1, <2>2, <2>3, FingersRest
<1>4. CASE KeyDown(k)
  <2>1. UNCHANGED <<down, panned, swipe, pinching, lastTap, click, turns, dragged, capturing, keybinds>>
    BY <1>4 DEF KeyDown
  <2>2. optionsOpen' \in BOOLEAN
    BY <1>4 DEF KeyDown
  <2>4. zoomed' \in BOOLEAN
    BY <1>1, <1>4 DEF KeyDown
  <2>3. KeysSound'
    BY <1>0, <2>1 DEF KeysSound
  <2> QED  BY <1>1, <2>1, <2>2, <2>3, <2>4, FingersRest
<1> QED  BY <1>2, <1>3, <1>4

LEMMA DialogKeeps ==
  ASSUME GesturesSound,
         ResetKeybinds \/ \E a \in Actions : Listen(a) \/ \E k \in Chords : RemoveChord(a, k)
  PROVE  GesturesSound'
<1>0. WebGesturesTypeOK /\ KeysSound
  BY DEF GesturesSound
<1>1. /\ zoomed \in BOOLEAN /\ optionsOpen \in BOOLEAN
      /\ capturing \in Actions \cup {NoAction} /\ keybinds \in [Actions -> SUBSET Chords]
  BY <1>0, FlagsAreFlags DEF WebGesturesTypeOK
<1>2. UNCHANGED <<down, panned, swipe, pinching, lastTap, click, turns, dragged, zoomed, optionsOpen>>
  BY DEF ResetKeybinds, Listen, RemoveChord, pointerVars
<1>3. CASE ResetKeybinds
  <2>1. capturing' = NoAction /\ keybinds' = Defaults
    BY <1>3 DEF ResetKeybinds
  <2>2. keybinds' \in [Actions -> SUBSET Chords] /\ KeysSound'
    BY <2>1, WebGesturesAssumption DEF KeysSound
  <2> QED  BY <1>1, <1>2, <2>1, <2>2, FingersRest
<1>4. ASSUME NEW a \in Actions, Listen(a) PROVE GesturesSound'
  <2>1. keybinds' = keybinds /\ capturing' \in Actions \cup {NoAction}
    BY <1>4 DEF Listen
  <2>2. KeysSound'
    BY <1>0, <2>1 DEF KeysSound
  <2> QED  BY <1>1, <1>2, <2>1, <2>2, FingersRest
<1>5. ASSUME NEW a \in Actions, NEW k \in Chords, RemoveChord(a, k) PROVE GesturesSound'
  <2>1. keybinds' = [keybinds EXCEPT ![a] = @ \ {k}] /\ capturing' = capturing
    BY <1>5 DEF RemoveChord
  <2>2. keybinds' \in [Actions -> SUBSET Chords] /\ KeysSound'
    BY <1>0, <1>1, <2>1 DEF KeysSound
  <2> QED  BY <1>1, <1>2, <2>1, <2>2, FingersRest
<1> QED  BY <1>3, <1>4, <1>5

LEMMA GesturesStep == GesturesSound /\ [GestureNext]_gestureVars => GesturesSound'
<1> SUFFICES ASSUME GesturesSound, [GestureNext]_gestureVars PROVE GesturesSound'
  OBVIOUS
<1>1. ASSUME NEW f \in Fingers, PointerDown(f) PROVE GesturesSound'
  BY <1>1, PointerDownKeeps
<1>2. ASSUME NEW f \in Fingers, NEW far \in BOOLEAN, NEW region \in Regions, PointerUp(f, far, region)
      PROVE  GesturesSound'
  BY <1>2, PointerUpKeeps
<1>3. ASSUME NEW far \in BOOLEAN, PointerMove(far) PROVE GesturesSound'
  BY <1>3, PointerMoveKeeps
<1>4. ASSUME NEW k \in Chords, Record(k) \/ KeyInDialog(k) \/ KeyDown(k) PROVE GesturesSound'
  BY <1>4, KeysKeep
<1>5. CASE ResetKeybinds \/ \E a \in Actions : Listen(a) \/ \E k \in Chords : RemoveChord(a, k)
  BY <1>5, DialogKeeps
<1>6. CASE UNCHANGED gestureVars
  BY <1>6 DEF gestureVars, pointerVars, keyVars, GesturesSound, WebGesturesTypeOK, FingersSound, KeysSound
<1> QED  BY <1>1, <1>2, <1>3, <1>4, <1>5, <1>6, ClickKeeps DEF GestureNext

\* What the invariant says of a gesture and a key.
LEMMA GesturesMeanOneThing == GesturesSound => OneThingAtATime
<1> SUFFICES ASSUME GesturesSound PROVE OneThingAtATime
  OBVIOUS
<1>1. ASSUME NEW k \in Chords PROVE Cardinality(Holders(k)) <= 1
  <2>1. \A a, b \in Holders(k) : a = b
    BY DEF GesturesSound, KeysSound, Holders
  <2>2. CASE Holders(k) = {}
    BY <2>2, FS_EmptySet
  <2>3. CASE Holders(k) # {}
    <3>1. PICK a \in Holders(k) : TRUE
      BY <2>3
    <3>2. Holders(k) = {a}
      BY <2>1, <3>1
    <3> QED  BY <3>2, FS_Singleton
  <2> QED  BY <2>2, <2>3
<1> QED  BY <1>1 DEF GesturesSound, FingersSound, OneThingAtATime


-----------------------------------------------------------------------------
(* A queue without some of its entries.                                    *)

Leaves(q, ids, f) ==
    [s \in SUBSET (DOMAIN q) |-> IF s = {} THEN <<>>
                                 ELSE IF q[Max(s)] \in ids THEN f[s \ {Max(s)}]
                                 ELSE Append(f[s \ {Max(s)}], q[Max(s)])]
Leaving(q, ids) == CHOOSE f : f = Leaves(q, ids, f)

LEMMA WithoutAllIsAFold ==
  \A q, ids : WithoutAll(q, ids) = Leaving(q, ids)[DOMAIN q]
BY Zenon DEF WithoutAll, FoldLeft, MapThenFoldSet, Leaving, Leaves

LEMMA LeavingRecurs ==
  ASSUME NEW T, NEW q \in Seq(T), NEW ids
  PROVE  /\ Leaving(q, ids)[{}] = <<>>
         /\ \A k \in 1..Len(q) :
               /\ Leaving(q, ids)[1..(k - 1)] \in Seq(T)
               /\ Leaving(q, ids)[1..k] = IF q[k] \in ids THEN Leaving(q, ids)[1..(k - 1)]
                                          ELSE Append(Leaving(q, ids)[1..(k - 1)], q[k])
<1> DEFINE n == Len(q)
           V == Seq(T)
           g == [p \in V \X (1..n) |-> IF q[p[2]] \in ids THEN p[1] ELSE Append(p[1], q[p[2]])]
<1>1. n \in Nat /\ DOMAIN q = 1..n /\ <<>> \in V /\ \A k \in 1..n : q[k] \in T
  OBVIOUS
<1>2. ASSUME NEW s \in V, NEW k \in 1..n
      PROVE  /\ <<s, k>> \in V \X (1..n) /\ g[<<s, k>>] \in V
             /\ g[<<s, k>>] = IF q[k] \in ids THEN s ELSE Append(s, q[k])
  <2>1. <<s, k>> \in V \X (1..n) /\ g[<<s, k>>] = IF q[k] \in ids THEN s ELSE Append(s, q[k])
    OBVIOUS
  <2>2. Append(s, q[k]) \in V
    BY <1>1
  <2> QED  BY <2>1, <2>2
<1>3. g \in [V \X (1..n) -> V]
  <2>1. \A p \in V \X (1..n) : p[1] \in V /\ p[2] \in 1..n /\ p = <<p[1], p[2]>>
    OBVIOUS
  <2>2. \A p \in V \X (1..n) : g[p] \in V
    BY <2>1, <1>2
  <2> QED  BY <2>2
<1> HIDE DEF n, V, g
<1>4. PICK f : IsFold(f, n, V, <<>>, g)
  <2>1. n \in 0..n
    BY <1>1
  <2> QED  BY <1>1, <1>3, <2>1, FoldsExist
<1>5. ASSUME NEW S \in SUBSET (1..n)
      PROVE  f[S] = IF S = {} THEN <<>> ELSE IF q[Max(S)] \in ids THEN f[S \ {Max(S)}]
                                              ELSE Append(f[S \ {Max(S)}], q[Max(S)])
  <2>1. f[S] = IF S = {} THEN <<>> ELSE g[<<f[S \ {Max(S)}], Max(S)>>]
    BY <1>4 DEF IsFold
  <2>2. CASE S # {}
    <3>1. Max(S) \in 1..n /\ S \ {Max(S)} \in SUBSET (1..n)
      BY <1>1, <2>2, MaxIsOne
    <3>2. f[S \ {Max(S)}] \in V
      BY <1>4, <3>1 DEF IsFold
    <3> QED  BY <2>1, <2>2, <3>1, <3>2, <1>2
  <2> QED  BY <2>1, <2>2
<1>6. f = Leaves(q, ids, f)
  <2>1. f = [S \in SUBSET (1..n) |-> f[S]]
    BY <1>4 DEF IsFold
  <2> QED  BY <1>1, <1>5, <2>1 DEF Leaves
<1>7. Leaving(q, ids) = Leaves(q, ids, Leaving(q, ids))
  BY <1>6, Zenon DEF Leaving
<1> DEFINE h == Leaving(q, ids)
<1> HIDE DEF h
<1>8. \A S \in SUBSET (1..n) : h[S] = IF S = {} THEN <<>> ELSE IF q[Max(S)] \in ids THEN h[S \ {Max(S)}]
                                                               ELSE Append(h[S \ {Max(S)}], q[Max(S)])
  BY <1>1, <1>7 DEF h, Leaves
<1>9. h[{}] = <<>>
  BY <1>8
<1>10. ASSUME NEW k \in 1..n
       PROVE  h[1..k] = IF q[k] \in ids THEN h[1..(k - 1)] ELSE Append(h[1..(k - 1)], q[k])
  <2>1. 1..k \in SUBSET (1..n) /\ k \in 1..k /\ k \in Nat
    BY <1>1
  <2>2. (1..k) \ {k} = 1..(k - 1) /\ 1..k # {}
    BY <2>1
  <2>3. Max(1..k) = k
    BY <2>1, MaxOfSome
  <2> QED  BY <1>8, <2>1, <2>2, <2>3
<1>11. \A k \in 1..n : h[1..(k - 1)] \in V
  <2> DEFINE Bad == {k \in 1..n : h[1..(k - 1)] \notin V}
  <2>1. SUFFICES ASSUME Bad # {} PROVE FALSE
    OBVIOUS
  <2>2. Bad \in SUBSET Nat
    BY <1>1
  <2>3. PICK k \in Bad : \A j \in Bad : k <= j
    BY <2>1, <2>2, SmallestOf
  <2>4. CASE k = 1
    <3>1. 1..(k - 1) = {}
      BY <2>4
    <3> QED  BY <1>1, <1>9, <2>3, <3>1
  <2>5. CASE k # 1
    <3>1. k - 1 \in 1..n /\ k - 1 \notin Bad
      BY <1>1, <2>3, <2>5
    <3>2. h[1..((k - 1) - 1)] \in V
      BY <3>1
    <3>3. Append(h[1..((k - 1) - 1)], q[k - 1]) \in V
      BY <1>1, <3>1, <3>2 DEF V
    <3>4. h[1..(k - 1)] \in V
      BY <1>10, <3>1, <3>2, <3>3
    <3> QED  BY <2>3, <3>4
  <2> QED  BY <2>4, <2>5
<1> QED  BY <1>9, <1>10, <1>11 DEF h, n, V

(* What is left is what was there and is not among them.                   *)
LEMMA WhatIsLeft ==
  ASSUME NEW T, NEW q \in Seq(T), NEW ids
  PROVE  WithoutAll(q, ids) \in Seq(T) /\ ToSet(WithoutAll(q, ids)) = ToSet(q) \ ids
<1> DEFINE n == Len(q)
           h == Leaving(q, ids)
           Right(k) == h[1..k] \in Seq(T) /\ ToSet(h[1..k]) = {q[i] : i \in 1..k} \ ids
           Bad == {k \in 0..n : ~Right(k)}
<1>1. n \in Nat /\ DOMAIN q = 1..n /\ \A k \in 1..n : q[k] \in T
  OBVIOUS
<1>2. /\ h[{}] = <<>>
      /\ \A k \in 1..n : /\ h[1..(k - 1)] \in Seq(T)
                         /\ h[1..k] = IF q[k] \in ids THEN h[1..(k - 1)] ELSE Append(h[1..(k - 1)], q[k])
  BY LeavingRecurs
<1>3. Bad = {}
  <2>1. SUFFICES ASSUME Bad # {} PROVE FALSE
    OBVIOUS
  <2>2. Bad \in SUBSET Nat
    BY <1>1
  <2>3. PICK k \in Bad : \A j \in Bad : k <= j
    <3> HIDE DEF Bad
    <3> QED  BY <2>1, <2>2, SmallestOf
  <2>4. k \in 0..n /\ ~Right(k)
    BY <2>3
  <2>5. CASE k = 0
    <3>1. 1..k = {} /\ {q[i] : i \in 1..k} = {}
      BY <2>5
    <3>2. h[1..k] = <<>>
      BY <1>2, <3>1
    <3>3. <<>> \in Seq(T) /\ ToSet(<<>>) = {}
      BY DEF ToSet
    <3> QED  BY <2>4, <3>1, <3>2, <3>3
  <2>6. CASE k # 0
    <3>0. k - 1 \in 0..n /\ k \in 1..n /\ ~(k <= k - 1)
      BY <1>1, <2>4, <2>6
    <3>1. k - 1 \in 0..n /\ k - 1 \notin Bad /\ k \in 1..n
      <4> HIDE DEF Bad
      <4> QED  BY <3>0, <2>3
    <3>2. Right(k - 1)
      BY <3>1
    <3> DEFINE a == h[1..(k - 1)]
    <3>3. a \in Seq(T) /\ ToSet(a) = {q[i] : i \in 1..(k - 1)} \ ids
      BY <3>2
    <3>4. {q[i] : i \in 1..k} = {q[i] : i \in 1..(k - 1)} \cup {q[k]}
      BY <3>1, <1>1
    <3>5. h[1..k] = IF q[k] \in ids THEN a ELSE Append(a, q[k])
      BY <1>2, <3>1
    <3> HIDE DEF a, h
    <3>6. q[k] \in T
      BY <1>1, <3>1
    <3>7. Append(a, q[k]) \in Seq(T) /\ ToSet(Append(a, q[k])) = ToSet(a) \cup {q[k]}
      <4>1. DOMAIN Append(a, q[k]) = 1..(Len(a) + 1) /\ DOMAIN a = 1..Len(a) /\ Len(a) \in Nat
        BY <3>3, <3>6
      <4>2. \A i \in 1..Len(a) : Append(a, q[k])[i] = a[i]
        BY <3>3, <3>6
      <4>3. Append(a, q[k])[Len(a) + 1] = q[k]
        BY <3>3, <3>6
      <4>4. 1..(Len(a) + 1) = 1..Len(a) \cup {Len(a) + 1}
        BY <4>1
      <4> QED  BY <4>1, <4>2, <4>3, <4>4, <3>3, <3>6 DEF ToSet
    <3>8. CASE q[k] \in ids
      BY <3>8, <3>3, <3>4, <3>5, <2>4 DEF a
    <3>9. CASE q[k] \notin ids
      <4>1. Right(k)
        BY <3>9, <3>3, <3>4, <3>5, <3>7
      <4> QED  BY <4>1, <2>4
    <3> QED  BY <3>8, <3>9
  <2> QED  BY <2>5, <2>6
<1>4. n \in 0..n /\ Right(n)
  <2>1. n \in 0..n
    BY <1>1
  <2> QED  BY <1>3, <2>1
<1>5. WithoutAll(q, ids) = h[1..n]
  BY <1>1, WithoutAllIsAFold
<1>6. ToSet(q) = {q[i] : i \in 1..n}
  BY <1>1 DEF ToSet
<1> QED  BY <1>4, <1>5, <1>6


-----------------------------------------------------------------------------
(* Numbers in their order, and an entry of a queue in another place.       *)

LEMMA OrderedLineUp ==
  ASSUME NEW S, IsFiniteSet(S), NEW R, TotallyOrders(S, R)
  PROVE  \E f \in [1..Cardinality(S) -> S] :
            \A i, j \in 1..Cardinality(S) : i < j => f[i] # f[j] /\ <<f[i], f[j]>> \in R
<1>1. \A k \in 1..Cardinality(S) : \E u \in S : Standing(S, R)[u] = k
  BY StandingsAreDense
<1> DEFINE n == Cardinality(S)
           rank == Standing(S, R)
           f == [k \in 1..n |-> CHOOSE u \in S : rank[u] = k]
<1>2. n \in Nat
  BY FS_CardinalityType
<1>3. \A k \in 1..n : f[k] \in S /\ rank[f[k]] = k
  BY <1>1
<1>4. f = [k \in 1..n |-> f[k]]
  OBVIOUS
<1> HIDE DEF f, n, rank
<1>5. ASSUME NEW i \in 1..n, NEW j \in 1..n, i < j PROVE f[i] # f[j] /\ <<f[i], f[j]>> \in R
  <2>1. f[i] \in S /\ f[j] \in S /\ rank[f[i]] = i /\ rank[f[j]] = j /\ i \in Nat /\ j \in Nat
    BY <1>2, <1>3
  <2>2. f[i] # f[j]
    BY <2>1, <1>5
  <2>3. SUFFICES ASSUME <<f[i], f[j]>> \notin R PROVE FALSE
    BY <2>2
  <2>4. <<f[j], f[i]>> \in R
    BY <2>1, <2>3 DEF TotallyOrders
  <2>5. Preceding(S, R, f[j]) \in SUBSET Preceding(S, R, f[i]) /\ Preceding(S, R, f[i]) \in SUBSET S
    BY <2>1, <2>4 DEF Preceding, TotallyOrders
  <2>6. Cardinality(Preceding(S, R, f[j])) <= Cardinality(Preceding(S, R, f[i]))
    BY <2>5, FS_Subset
  <2>7. i = Cardinality(Preceding(S, R, f[i])) /\ j = Cardinality(Preceding(S, R, f[j]))
    BY <2>1 DEF Standing, rank
  <2> QED  BY <2>1, <2>6, <2>7, <1>5
<1>6. f \in [1..n -> S]
  BY <1>3, <1>4
<1> QED  BY <1>5, <1>6 DEF n

LEMMA NumbersLineUp ==
  ASSUME NEW S \in SUBSET Nat, IsFiniteSet(S)
  PROVE  \E f \in [1..Cardinality(S) -> S] : \A i, j \in DOMAIN f : i < j => f[i] < f[j]
<1> DEFINE R == {p \in S \X S : p[1] <= p[2]}
<1>1. \A u, v \in S : <<u, v>> \in R <=> u <= v
  OBVIOUS
<1> HIDE DEF R
<1>2. TotallyOrders(S, R)
  BY <1>1 DEF TotallyOrders
<1>3. PICK f \in [1..Cardinality(S) -> S] :
               \A i, j \in 1..Cardinality(S) : i < j => f[i] # f[j] /\ <<f[i], f[j]>> \in R
  BY <1>2, OrderedLineUp
<1>4. ASSUME NEW i \in DOMAIN f, NEW j \in DOMAIN f, i < j PROVE f[i] < f[j]
  <2>1. f[i] \in S /\ f[j] \in S /\ f[i] # f[j] /\ <<f[i], f[j]>> \in R
    BY <1>3, <1>4
  <2>2. f[i] <= f[j] /\ f[i] \in Nat /\ f[j] \in Nat
    BY <2>1, <1>1
  <2> QED  BY <2>1, <2>2
<1> QED  BY <1>4

LEMMA AscendingIs ==
  ASSUME NEW S \in SUBSET Nat, IsFiniteSet(S)
  PROVE  /\ Ascending(S) \in Seq(S) /\ Len(Ascending(S)) = Cardinality(S)
         /\ \A i, j \in 1..Cardinality(S) : i # j => Ascending(S)[i] # Ascending(S)[j]
         /\ ToSet(Ascending(S)) = S
<1> DEFINE n == Cardinality(S)
           f == Ascending(S)
<1>1. n \in Nat
  BY FS_CardinalityType
<1>2. f \in [1..n -> S] /\ \A i, j \in 1..n : i < j => f[i] < f[j]
  BY NumbersLineUp, Zenon DEF Ascending
<1> HIDE DEF f
<1>3. \A i, j \in 1..n : i # j => f[i] # f[j]
  <2>1. ASSUME NEW i \in 1..n, NEW j \in 1..n, i < j PROVE f[i] # f[j]
    <3>1. f[i] < f[j] /\ f[i] \in Nat /\ f[j] \in Nat
      BY <2>1, <1>2
    <3> QED  BY <3>1
  <2>2. \A i, j \in 1..n : i # j => i < j \/ j < i
    BY <1>1
  <2> QED  BY <2>1, <2>2
<1>4. f \in Seq(S) /\ Len(f) = n
  BY <1>1, <1>2
<1>5. f \in Injection(1..n, S)
  BY <1>2, <1>3 DEF Injection, IsInjective
<1>6. Cardinality(1..n) = n
  BY <1>1, FS_Interval
<1>7. f \in Surjection(1..n, S)
  BY <1>5, <1>6, FS_Injection
<1>8. ToSet(f) = S
  <2>1. DOMAIN f = 1..n
    BY <1>2
  <2>2. \A x \in S : \E i \in 1..n : f[i] = x
    BY <1>7 DEF Surjection
  <2> QED  BY <1>2, <2>1, <2>2 DEF ToSet
<1> QED  BY <1>3, <1>4, <1>8 DEF f

LEMMA OfTwoQueues ==
  ASSUME NEW T, NEW p \in Seq(T), NEW q \in Seq(T)
  PROVE  p \o q \in Seq(T) /\ ToSet(p \o q) = ToSet(p) \cup ToSet(q)
<1> DEFINE r == p \o q
<1>1. /\ r \in Seq(T) /\ Len(p) \in Nat /\ Len(q) \in Nat /\ Len(r) = Len(p) + Len(q)
      /\ DOMAIN p = 1..Len(p) /\ DOMAIN q = 1..Len(q) /\ DOMAIN r = 1..(Len(p) + Len(q))
      /\ \A i \in 1..(Len(p) + Len(q)) : r[i] = IF i <= Len(p) THEN p[i] ELSE q[i - Len(p)]
  BY ConcatProperties
<1> HIDE DEF r
<1>2. ASSUME NEW x, x \in ToSet(r) PROVE x \in ToSet(p) \cup ToSet(q)
  <2>1. PICK i \in 1..(Len(p) + Len(q)) : x = r[i]
    BY <1>1, <1>2 DEF ToSet
  <2>2. CASE i <= Len(p)
    <3>1. i \in 1..Len(p) /\ x = p[i]
      BY <2>1, <2>2, <1>1
    <3> QED  BY <3>1, <1>1 DEF ToSet
  <2>3. CASE ~(i <= Len(p))
    <3>1. i - Len(p) \in 1..Len(q) /\ x = q[i - Len(p)]
      BY <2>1, <2>3, <1>1
    <3> QED  BY <3>1, <1>1 DEF ToSet
  <2> QED  BY <2>2, <2>3
<1>3. ASSUME NEW x, x \in ToSet(p) PROVE x \in ToSet(r)
  <2>1. PICK i \in 1..Len(p) : x = p[i]
    BY <1>1, <1>3 DEF ToSet
  <2>2. i \in 1..(Len(p) + Len(q)) /\ r[i] = p[i]
    BY <1>1
  <2> QED  BY <2>1, <2>2, <1>1 DEF ToSet
<1>4. ASSUME NEW x, x \in ToSet(q) PROVE x \in ToSet(r)
  <2>1. PICK i \in 1..Len(q) : x = q[i]
    BY <1>1, <1>4 DEF ToSet
  <2>2. i + Len(p) \in 1..(Len(p) + Len(q)) /\ r[i + Len(p)] = q[i]
    BY <1>1
  <2> QED  BY <2>1, <2>2, <1>1 DEF ToSet
<1> QED  BY <1>1, <1>2, <1>3, <1>4 DEF r

LEMMA InsertedIs ==
  ASSUME NEW T, NEW q \in Seq(T), NEW i \in 1..(Len(q) + 1), NEW e \in T
  PROVE  InsertAt(q, i, e) \in Seq(T) /\ ToSet(InsertAt(q, i, e)) = ToSet(q) \cup {e}
<1> DEFINE a == SubSeq(q, 1, i - 1)
           b == SubSeq(q, i, Len(q))
<1>1. Len(q) \in Nat /\ i \in Nat /\ DOMAIN q = 1..Len(q) /\ \A k \in 1..Len(q) : q[k] \in T
  OBVIOUS
<1>2. a \in Seq(T) /\ Len(a) = i - 1 /\ \A k \in 1..(i - 1) : a[k] = q[k]
  <2>1. \A k \in 1..(i - 1) : q[k] \in T
    BY <1>1
  <2>2. /\ a \in Seq(T) /\ Len(a) = IF 1 <= i - 1 THEN i - 1 - 1 + 1 ELSE 0
        /\ \A k \in 1..(i - 1 - 1 + 1) : a[k] = q[1 + k - 1]
    BY <1>1, <2>1, SubSeqProperties
  <2> HIDE DEF a
  <2> QED  BY <1>1, <2>2
<1>3. b \in Seq(T) /\ Len(b) = Len(q) - i + 1 /\ \A k \in 1..(Len(q) - i + 1) : b[k] = q[i + k - 1]
  <2>1. \A k \in i..Len(q) : q[k] \in T
    BY <1>1
  <2>2. /\ b \in Seq(T) /\ Len(b) = IF i <= Len(q) THEN Len(q) - i + 1 ELSE 0
        /\ \A k \in 1..(Len(q) - i + 1) : b[k] = q[i + k - 1]
    BY <1>1, <2>1, SubSeqProperties
  <2> HIDE DEF b
  <2> QED  BY <1>1, <2>2
<1> HIDE DEF a, b
<1>4. <<e>> \in Seq(T) /\ ToSet(<<e>>) = {e}
  BY DEF ToSet
<1> DEFINE s == <<e>>
           c == a \o s
<1> HIDE DEF s
<1>5. c \in Seq(T) /\ ToSet(c) = ToSet(a) \cup {e}
  <2>1. s \in Seq(T) /\ ToSet(s) = {e}
    BY <1>4 DEF s
  <2>2. a \o s \in Seq(T) /\ ToSet(a \o s) = ToSet(a) \cup ToSet(s)
    BY <2>1, <1>2, OfTwoQueues
  <2> QED  BY <2>1, <2>2
<1> HIDE DEF c
<1>6. c \o b \in Seq(T) /\ ToSet(c \o b) = ToSet(a) \cup {e} \cup ToSet(b)
  BY <1>3, <1>5, OfTwoQueues
<1>7. ToSet(a) \cup ToSet(b) = ToSet(q)
  <2>1. DOMAIN a = 1..(i - 1) /\ DOMAIN b = 1..(Len(q) - i + 1)
    BY <1>2, <1>3
  <2>2. ASSUME NEW x, x \in ToSet(q) PROVE x \in ToSet(a) \cup ToSet(b)
    <3>1. PICK k \in 1..Len(q) : x = q[k]
      BY <1>1, <2>2 DEF ToSet
    <3>2. CASE k <= i - 1
      <4>1. k \in 1..(i - 1)
        BY <3>2, <1>1
      <4> QED  BY <4>1, <3>1, <2>1, <1>2 DEF ToSet
    <3>3. CASE k > i - 1
      <4>1. k - i + 1 \in 1..(Len(q) - i + 1) /\ i + (k - i + 1) - 1 = k
        BY <3>3, <1>1
      <4>2. b[k - i + 1] = q[k]
        BY <4>1, <1>3
      <4> QED  BY <4>1, <4>2, <3>1, <2>1 DEF ToSet
    <3> QED  BY <3>2, <3>3, <1>1
  <2>3. ASSUME NEW x, x \in ToSet(a) PROVE x \in ToSet(q)
    <3>1. PICK k \in 1..(i - 1) : x = a[k]
      BY <2>1, <2>3 DEF ToSet
    <3>2. k \in 1..Len(q)
      BY <1>1
    <3> QED  BY <3>1, <3>2, <1>1, <1>2 DEF ToSet
  <2>4. ASSUME NEW x, x \in ToSet(b) PROVE x \in ToSet(q)
    <3>1. PICK k \in 1..(Len(q) - i + 1) : x = b[k]
      BY <2>1, <2>4 DEF ToSet
    <3>2. i + k - 1 \in 1..Len(q) /\ b[k] = q[i + k - 1]
      BY <1>1, <1>3
    <3> QED  BY <3>1, <3>2, <1>1 DEF ToSet
  <2> QED  BY <2>2, <2>3, <2>4
<1> QED  BY <1>6, <1>7 DEF InsertAt, a, b, c, s

(* Moving an entry keeps the queue's entries.                              *)
LEMMA MovedIs ==
  ASSUME NEW T, NEW q \in Seq(T), NEW c, NEW n \in Nat
  PROVE  Moved(q, c, n) \in Seq(T) /\ ToSet(Moved(q, c, n)) = ToSet(q)
<1> DEFINE rest == WithoutAll(q, {c})
           place == Min({n, Len(rest)})
<1>1. CASE c \notin ToSet(q)
  BY <1>1 DEF Moved
<1>2. CASE c \in ToSet(q)
  <2>1. rest \in Seq(T) /\ ToSet(rest) = ToSet(q) \ {c}
    BY WhatIsLeft
  <2>2. c \in T
    BY <1>2 DEF ToSet
  <2> HIDE DEF rest
  <2>3. place \in 0..Len(rest)
    <3>1. Len(rest) \in Nat
      BY <2>1
    <3>2. \E x \in {n, Len(rest)} : \A y \in {n, Len(rest)} : x =< y
      BY <3>1
    <3>3. place \in {n, Len(rest)} /\ \A y \in {n, Len(rest)} : place =< y
      BY <3>2, Zenon DEF Min
    <3> QED  BY <3>1, <3>3
  <2> HIDE DEF place
  <2>4. place + 1 \in 1..(Len(rest) + 1)
    BY <2>1, <2>3
  <2>5. InsertAt(rest, place + 1, c) \in Seq(T) /\ ToSet(InsertAt(rest, place + 1, c)) = ToSet(rest) \cup {c}
    BY <2>1, <2>2, <2>4, InsertedIs
  <2>6. Moved(q, c, n) = InsertAt(rest, place + 1, c)
    BY <1>2 DEF Moved, rest, place
  <2> QED  BY <1>2, <2>1, <2>5, <2>6
<1> QED  BY <1>1, <1>2


-----------------------------------------------------------------------------
(* The two views of the downloads.                                         *)

Queues == Seq(Chapters)
Requests == {"enqueue", "start", "stop", "clear", "dequeue", "move", "delete"}
IsServer(s) ==
    s \in [down : SUBSET Chapters, queue : Queues, failed : SUBSET Chapters,
           running : BOOLEAN, paused : BOOLEAN]
IsStatus(s) == s \in [queue : Queues, running : BOOLEAN]
IsRows(r) == r \in [down : SUBSET Chapters]

DownTyped ==
    /\ IsServer(server) /\ server.failed \subseteq ToSet(server.queue)
    /\ DOMAIN screen = {"which", "rows", "polled", "seenKey", "seen", "sent"}
    /\ screen.which \in {"list", "disk"} /\ IsRows(screen.rows) /\ IsStatus(screen.polled)
    /\ screen.seenKey = screen.polled.queue /\ screen.seen \subseteq Chapters
    /\ DOMAIN asks = {"queue", "rows"}
    /\ \A q \in {"queue", "rows"} : /\ DOMAIN asks[q] = {"state", "what"}
                                    /\ asks[q].state \in {"idle", "sent", "back"}
    /\ asks["queue"].state = "back" => IsStatus(asks["queue"].what)
    /\ asks["rows"].state = "back" => IsRows(asks["rows"].what)
    /\ \A o \in ops : o \in [kind : Requests, ids : SUBSET Chapters, to : Nat]

(* An entry that was seen and is still queued is in the queue that was     *)
(* last shown, and in the one on its way.                                  *)
SeenIsShown ==
    \A c \in screen.seen \cap ToSet(server.queue) :
        /\ c \in ToSet(screen.polled.queue)
        /\ asks["queue"].state = "back" => c \in ToSet(asks["queue"].what.queue)

(* An entry that was seen and has left: the rows were asked since, or its  *)
(* leaving is still to be noticed, or the rows have it as it is.           *)
LeftIsKnown(c) ==
    \/ asks["rows"].state = "sent"
    \/ c \in ToSet(screen.polled.queue)
    \/ asks["rows"].state = "back" /\ (c \in asks["rows"].what.down <=> c \in server.down)
    \/ asks["rows"].state = "idle" /\ (c \in screen.rows.down <=> c \in server.down)
LeavingIsNoticed ==
    trouble # "lost" => \A c \in screen.seen \ ToSet(server.queue) : LeftIsKnown(c)

DownSound == DownTyped /\ SeenIsShown /\ LeavingIsNoticed /\ QueuedIsStarted

LEMMA SomethingWaits ==
  ASSUME NEW s, IsServer(s)
  PROVE  /\ WithoutAll(s.queue, s.failed) \in Queues
         /\ ToSet(WithoutAll(s.queue, s.failed)) = ToSet(s.queue) \ s.failed
         /\ WithoutAll(s.queue, s.failed) # <<>> <=> \E c \in ToSet(s.queue) : c \notin s.failed
         /\ WithoutAll(s.queue, s.failed) # <<>> =>
               WithoutAll(s.queue, s.failed)[1] \in ToSet(s.queue) \ s.failed
<1> DEFINE w == WithoutAll(s.queue, s.failed)
<1>1. s.queue \in Queues
  BY DEF IsServer
<1>2. w \in Queues /\ ToSet(w) = ToSet(s.queue) \ s.failed
  BY <1>1, WhatIsLeft DEF Queues
<1> HIDE DEF w
<1>3. w # <<>> => 1 \in DOMAIN w /\ w[1] \in ToSet(w)
  BY <1>2 DEF Queues, ToSet
<1>4. w = <<>> => ToSet(w) = {}
  BY DEF ToSet
<1> QED  BY <1>2, <1>3, <1>4 DEF w

LEMMA WaitingIs ==
  ASSUME DownTyped
  PROVE  /\ Waiting # <<>> <=> \E c \in ToSet(server.queue) : c \notin server.failed
         /\ Waiting # <<>> => Waiting[1] \in ToSet(server.queue) \ server.failed
BY SomethingWaits DEF DownTyped, Waiting

(* The entries of a queue of chapters are chapters.                        *)
LEMMA QueuedAreChapters == \A q \in Queues : ToSet(q) \in SUBSET Chapters
BY DEF Queues, ToSet

LEMMA EnqueuedIs ==
  ASSUME NEW s, IsServer(s), NEW ids \in SUBSET Chapters
  PROVE  LET new == ids \ (s.down \cup ToSet(s.queue))
         IN  /\ s.queue \o Ascending(new) \in Queues
             /\ ToSet(s.queue \o Ascending(new)) = ToSet(s.queue) \cup new
<1> DEFINE new == ids \ (s.down \cup ToSet(s.queue))
           a == Ascending(new)
           q == s.queue
<1>1. new \in SUBSET Nat /\ IsFiniteSet(new) /\ new \in SUBSET Chapters
  BY ChaptersAssumption, FS_Subset
<1> HIDE DEF new
<1>2. a \in Seq(new) /\ ToSet(a) = new
  BY <1>1, AscendingIs
<1>3. q \in Seq(Chapters)
  BY DEF IsServer, Queues
<1> HIDE DEF a, q
<1>4. a \in Seq(Chapters)
  <2>1. a \in [1..Len(a) -> new] /\ Len(a) \in Nat
    BY <1>2
  <2>2. a \in [1..Len(a) -> Chapters]
    BY <2>1, <1>1
  <2> QED  BY <2>1, <2>2
<1>5. q \o a \in Seq(Chapters) /\ ToSet(q \o a) = ToSet(q) \cup ToSet(a)
  BY <1>3, <1>4, OfTwoQueues
<1> QED  BY <1>2, <1>5 DEF new, a, q, Queues

(* What a request that is handled leaves on the server.                    *)
LEMMA HandledIs ==
  ASSUME DownTyped, NEW o \in ops
  PROVE  /\ IsServer(Handled(o)) /\ Handled(o).failed \subseteq ToSet(Handled(o).queue)
         /\ o.kind # "delete" => Handled(o).down = server.down
         /\ o.kind \notin {"enqueue", "start"} /\ QueuedIsStarted =>
               \/ Handled(o).paused
               \/ WithoutAll(Handled(o).queue, Handled(o).failed) = <<>>
               \/ Handled(o).running
               \/ server.paused \/ trouble # "none"
               \/ \E p \in ops : p.kind \in {"enqueue", "start"}
         /\ o.kind = "start" =>
               Handled(o).running = (WithoutAll(Handled(o).queue, Handled(o).failed) # <<>>)
<1>1. /\ IsServer(server) /\ server.failed \subseteq ToSet(server.queue)
      /\ o \in [kind : Requests, ids : SUBSET Chapters, to : Nat]
  BY DEF DownTyped
<1>2. /\ server.queue \in Queues /\ server.down \in SUBSET Chapters /\ server.failed \in SUBSET Chapters
      /\ server.running \in BOOLEAN /\ server.paused \in BOOLEAN
  BY <1>1 DEF IsServer
<1>3. QueuedIsStarted <=>
        ((\E c \in ToSet(server.queue) : c \notin server.failed) /\ ~server.paused /\ trouble = "none"
            /\ (\A p \in ops : p.kind \notin {"enqueue", "start"}) => server.running)
  BY WaitingIs DEF QueuedIsStarted
<1>4. CASE o.kind = "enqueue"
  <2> DEFINE q == server.queue \o Ascending(o.ids \ (server.down \cup ToSet(server.queue)))
  <2>1. q \in Queues /\ ToSet(server.queue) \subseteq ToSet(q)
    BY <1>1, EnqueuedIs
  <2>2. Handled(o) = [server EXCEPT !.queue = q, !.paused = FALSE]
    BY <1>4 DEF Handled
  <2> HIDE DEF q
  <2> QED  BY <1>1, <1>2, <1>4, <2>1, <2>2 DEF IsServer
<1>5. CASE o.kind = "start"
  <2>1. Handled(o) = [server EXCEPT !.running = Waiting # <<>>, !.paused = FALSE]
    BY <1>5 DEF Handled
  <2>2. (Waiting # <<>>) \in BOOLEAN
    OBVIOUS
  <2>3. IsServer(Handled(o))
    BY <1>1, <1>2, <2>1, <2>2 DEF IsServer
  <2>4. /\ Handled(o).queue = server.queue /\ Handled(o).failed = server.failed
        /\ Handled(o).down = server.down /\ Handled(o).running = (Waiting # <<>>)
    BY <1>1, <2>1 DEF IsServer
  <2> QED  BY <1>1, <1>5, <2>3, <2>4 DEF Waiting
<1>6. CASE o.kind = "stop"
  <2>1. Handled(o) = [server EXCEPT !.running = FALSE, !.paused = TRUE]
    BY <1>6 DEF Handled
  <2>2. IsServer(Handled(o))
    BY <1>1, <1>2, <2>1 DEF IsServer
  <2>3. /\ Handled(o).queue = server.queue /\ Handled(o).failed = server.failed
        /\ Handled(o).down = server.down /\ Handled(o).paused = TRUE
    BY <1>1, <2>1 DEF IsServer
  <2> QED  BY <1>1, <1>6, <2>2, <2>3
<1>7. CASE o.kind = "clear"
  <2>1. Handled(o) = [server EXCEPT !.running = FALSE, !.queue = <<>>, !.failed = {}]
    BY <1>7 DEF Handled
  <2>2. <<>> \in Queues
    BY DEF Queues
  <2>3. IsServer(Handled(o))
    BY <1>1, <1>2, <2>1, <2>2 DEF IsServer
  <2>4. Handled(o).queue = <<>> /\ Handled(o).failed = {} /\ Handled(o).down = server.down
    BY <1>1, <2>1 DEF IsServer
  <2>5. WithoutAll(Handled(o).queue, Handled(o).failed) = <<>>
    <3>1. ~\E c \in ToSet(<<>>) : c \notin {}
      BY DEF ToSet
    <3> QED  BY <2>3, <2>4, <3>1, SomethingWaits
  <2> QED  BY <1>7, <2>3, <2>4, <2>5
<1>8. CASE o.kind = "dequeue"
  <2> DEFINE q == WithoutAll(server.queue, o.ids)
             s == [server EXCEPT !.queue = q, !.failed = @ \ o.ids]
  <2>1. q \in Queues /\ ToSet(q) = ToSet(server.queue) \ o.ids
    BY <1>2, WhatIsLeft DEF Queues
  <2>2. Handled(o) = StillOn(s)
    BY <1>8 DEF Handled
  <2> HIDE DEF q
  <2>3. /\ IsServer(s) /\ s.queue = q /\ s.failed = server.failed \ o.ids /\ s.down = server.down
        /\ s.running = server.running
    BY <1>1, <1>2, <2>1 DEF IsServer
  <2> HIDE DEF s
  <2>4. StillOn(s) = [s EXCEPT !.running = s.running /\ \E c \in ToSet(s.queue) : c \notin s.failed]
    BY DEF StillOn
  <2>5. (s.running /\ \E c \in ToSet(s.queue) : c \notin s.failed) \in BOOLEAN
    OBVIOUS
  <2>6. /\ IsServer(StillOn(s)) /\ StillOn(s).queue = q /\ StillOn(s).failed = server.failed \ o.ids
        /\ StillOn(s).down = server.down
        /\ StillOn(s).running = (s.running /\ \E c \in ToSet(s.queue) : c \notin s.failed)
    BY <2>3, <2>4, <2>5 DEF IsServer
  <2>7. WithoutAll(q, server.failed \ o.ids) # <<>> <=> \E c \in ToSet(q) : c \notin server.failed \ o.ids
    BY <2>6, SomethingWaits
  <2>8. ASSUME QueuedIsStarted, WithoutAll(q, server.failed \ o.ids) # <<>>, ~server.paused, trouble = "none",
               \A p \in ops : p.kind \notin {"enqueue", "start"}
        PROVE  StillOn(s).running
    <3>1. PICK c \in ToSet(q) : c \notin server.failed \ o.ids
      BY <2>7, <2>8
    <3>2. c \in ToSet(server.queue) /\ c \notin server.failed
      BY <2>1, <3>1
    <3>3. server.running
      BY <1>3, <2>8, <3>2
    <3> QED  BY <2>3, <2>6, <3>1, <3>3
  <2>9. Handled(o).failed \subseteq ToSet(Handled(o).queue)
    BY <1>1, <2>1, <2>2, <2>6
  <2> QED  BY <1>8, <2>2, <2>6, <2>8, <2>9
<1>9. CASE o.kind = "move"
  <2> DEFINE c == CHOOSE x \in o.ids : TRUE
             q == Moved(server.queue, c, o.to)
  <2>1. o.to \in Nat
    BY <1>1
  <2>2. q \in Queues /\ ToSet(q) = ToSet(server.queue)
    BY <1>2, <2>1, MovedIs DEF Queues
  <2>3. Handled(o) = [server EXCEPT !.queue = q]
    BY <1>9 DEF Handled
  <2> HIDE DEF q, c
  <2>4. /\ IsServer(Handled(o)) /\ Handled(o).queue = q /\ Handled(o).failed = server.failed
        /\ Handled(o).down = server.down /\ Handled(o).running = server.running
    BY <1>1, <1>2, <2>2, <2>3 DEF IsServer
  <2>5. WithoutAll(q, server.failed) # <<>> <=> \E x \in ToSet(q) : x \notin server.failed
    BY <2>4, SomethingWaits
  <2> QED  BY <1>1, <1>3, <1>9, <2>2, <2>4, <2>5
<1>10. CASE o.kind = "delete"
  <2>1. Handled(o) = [server EXCEPT !.down = @ \ o.ids]
    BY <1>10 DEF Handled
  <2>2. /\ IsServer(Handled(o)) /\ Handled(o).queue = server.queue /\ Handled(o).failed = server.failed
        /\ Handled(o).running = server.running
    BY <1>1, <1>2, <2>1 DEF IsServer
  <2> QED  BY <1>1, <1>10, <2>2 DEF QueuedIsStarted, Waiting
<1>11. o.kind \in Requests
  BY <1>1
<1> QED  BY <1>4, <1>5, <1>6, <1>7, <1>8, <1>9, <1>10, <1>11 DEF Requests


(* What the steps of the downloads leave alone.                            *)
LEMMA DownInitially == ChaptersInit => DownSound
<1> SUFFICES ASSUME ChaptersInit PROVE DownSound
  OBVIOUS
<1>1. /\ server = [down |-> {}, queue |-> <<>>, failed |-> {}, running |-> FALSE, paused |-> FALSE]
      /\ screen = [which |-> "list", rows |-> [down |-> {}],
                   polled |-> [queue |-> <<>>, running |-> FALSE],
                   seenKey |-> <<>>, seen |-> {}, sent |-> 0]
      /\ asks = [q \in {"queue", "rows"} |-> NotOut]
      /\ ops = {} /\ trouble = "none"
  BY DEF ChaptersInit
<1>2. <<>> \in Queues
  BY DEF Queues
<1>3. IsServer(server) /\ server.failed = {} /\ server.queue = <<>>
  BY <1>1, <1>2 DEF IsServer
<1>4. /\ asks["queue"].state = "idle" /\ asks["rows"].state = "idle" /\ DOMAIN asks = {"queue", "rows"}
      /\ \A q \in {"queue", "rows"} : DOMAIN asks[q] = {"state", "what"}
  BY <1>1 DEF NotOut
<1>5. /\ DOMAIN screen = {"which", "rows", "polled", "seenKey", "seen", "sent"}
      /\ screen.which \in {"list", "disk"} /\ IsRows(screen.rows) /\ IsStatus(screen.polled)
      /\ screen.seenKey = screen.polled.queue /\ screen.seen = {}
  BY <1>1, <1>2 DEF IsRows, IsStatus
<1>6. DownTyped
  BY <1>1, <1>3, <1>4, <1>5 DEF DownTyped
<1>7. Waiting = <<>>
  <2>1. ToSet(server.queue) = {}
    BY <1>3 DEF ToSet
  <2> QED  BY <1>6, <2>1, WaitingIs
<1> QED  BY <1>5, <1>6, <1>7 DEF DownSound, SeenIsShown, LeavingIsNoticed, QueuedIsStarted

(* The queries that are asked again.                                       *)
LEMMA AskedIs ==
  ASSUME NEW a, DOMAIN a = {"queue", "rows"},
         \A q \in {"queue", "rows"} : /\ DOMAIN a[q] = {"state", "what"}
                                      /\ a[q].state \in {"idle", "sent", "back"},
         NEW queries
  PROVE  /\ DOMAIN Ask(a, queries) = {"queue", "rows"}
         /\ \A q \in {"queue", "rows"} :
               /\ DOMAIN Ask(a, queries)[q] = {"state", "what"}
               /\ Ask(a, queries)[q].state \in {"idle", "sent", "back"}
               /\ q \in queries => Ask(a, queries)[q].state = "sent"
               /\ q \notin queries => Ask(a, queries)[q] = a[q]
<1>1. \A q \in {"queue", "rows"} : Ask(a, queries)[q] = IF q \in queries THEN Out ELSE a[q]
  BY DEF Ask
<1>2. DOMAIN Out = {"state", "what"} /\ Out.state = "sent"
  BY DEF Out
<1>3. DOMAIN Ask(a, queries) = {"queue", "rows"}
  BY DEF Ask
<1> QED  BY <1>1, <1>2, <1>3

(* A request is answered, or refused, and what it was about asked again.   *)
LEMMA AskingKeeps ==
  ASSUME DownSound, NEW queries, asks' = Ask(asks, queries),
         UNCHANGED <<server, screen, ops, trouble>>
  PROVE  DownSound'
<1>1. /\ DOMAIN asks' = {"queue", "rows"}
      /\ \A q \in {"queue", "rows"} :
               /\ DOMAIN asks'[q] = {"state", "what"}
               /\ asks'[q].state \in {"idle", "sent", "back"}
               /\ asks'[q].state = "sent" \/ asks'[q] = asks[q]
  BY AskedIs DEF DownSound, DownTyped
<1>2. /\ asks'["queue"].state = "sent" \/ asks'["queue"] = asks["queue"]
      /\ asks'["rows"].state = "sent" \/ asks'["rows"] = asks["rows"]
  BY <1>1
<1>3. DownTyped'
  BY <1>1, <1>2 DEF DownSound, DownTyped
<1>4. SeenIsShown'
  BY <1>2 DEF DownSound, SeenIsShown
<1>5. LeavingIsNoticed'
  BY <1>2 DEF DownSound, LeavingIsNoticed, LeftIsKnown
<1>6. QueuedIsStarted'
  BY DEF DownSound, QueuedIsStarted, Waiting
<1> QED  BY <1>3, <1>4, <1>5, <1>6 DEF DownSound

LEMMA ServerAnswersKeeps ==
  ASSUME DownSound, NEW q \in {"queue", "rows"}, ServerAnswers(q)
  PROVE  DownSound'
<1>1. /\ asks[q].state = "sent" /\ asks' = [asks EXCEPT ![q] = [state |-> "back", what |-> Answer(q)]]
      /\ UNCHANGED <<server, screen, ops, trouble>>
  BY DEF ServerAnswers
<1>2. DownTyped /\ IsServer(server)
  BY DEF DownSound, DownTyped
<1>3. /\ DOMAIN asks' = {"queue", "rows"} /\ asks'[q] = [state |-> "back", what |-> Answer(q)]
      /\ \A r \in {"queue", "rows"} \ {q} : asks'[r] = asks[r]
  BY <1>1, <1>2 DEF DownTyped
<1>4. \A r \in {"queue", "rows"} : DOMAIN asks'[r] = {"state", "what"} /\ asks'[r].state \in {"idle", "sent", "back"}
  <2>1. DOMAIN asks'[q] = {"state", "what"} /\ asks'[q].state = "back"
    BY <1>3
  <2> QED  BY <2>1, <1>2, <1>3 DEF DownTyped
<1>5. CASE q = "queue"
  <2>1. /\ asks'["queue"].state = "back"
        /\ asks'["queue"].what = [queue |-> server.queue, running |-> server.running]
        /\ asks'["rows"] = asks["rows"]
    BY <1>3, <1>5 DEF Answer
  <2>2. IsStatus(asks'["queue"].what) /\ asks'["queue"].what.queue = server.queue
    BY <2>1, <1>2 DEF IsServer, IsStatus
  <2>3. DownTyped'
    BY <1>1, <1>2, <1>3, <1>4, <2>1, <2>2 DEF DownTyped
  <2>4. SeenIsShown'
    BY <1>1, <2>2 DEF DownSound, SeenIsShown
  <2>5. LeavingIsNoticed'
    BY <1>1, <2>1 DEF DownSound, LeavingIsNoticed, LeftIsKnown
  <2>6. QueuedIsStarted'
    BY <1>1 DEF DownSound, QueuedIsStarted, Waiting
  <2> QED  BY <2>3, <2>4, <2>5, <2>6 DEF DownSound
<1>6. CASE q = "rows"
  <2>1. /\ asks'["rows"].state = "back" /\ asks'["rows"].what = [down |-> server.down]
        /\ asks'["queue"] = asks["queue"]
    BY <1>3, <1>6 DEF Answer
  <2>2. IsRows(asks'["rows"].what) /\ asks'["rows"].what.down = server.down
    BY <2>1, <1>2 DEF IsServer, IsRows
  <2>3. DownTyped'
    BY <1>1, <1>2, <1>3, <1>4, <2>1, <2>2 DEF DownTyped
  <2>4. SeenIsShown'
    BY <1>1, <2>1 DEF DownSound, SeenIsShown
  <2>5. LeavingIsNoticed'
    BY <1>1, <2>1, <2>2 DEF LeavingIsNoticed, LeftIsKnown
  <2>6. QueuedIsStarted'
    BY <1>1 DEF DownSound, QueuedIsStarted, Waiting
  <2> QED  BY <2>3, <2>4, <2>5, <2>6 DEF DownSound
<1> QED  BY <1>5, <1>6

LEMMA QueueArrivesKeeps == ASSUME DownSound, QueueArrives PROVE DownSound'
<1> DEFINE status == asks["queue"].what
           rested == [asks EXCEPT !["queue"] = NotOut]
<1>1. /\ asks["queue"].state = "back"
      /\ screen' = [screen EXCEPT !.polled = status, !.seenKey = status.queue,
                                  !.seen = @ \cup ToSet(status.queue)]
      /\ asks' = Ask(rested, Reread(screen.seenKey, status))
      /\ UNCHANGED <<server, ops, trouble>>
  BY DEF QueueArrives, QueueKey
<1>2. DownTyped /\ IsStatus(status)
  BY <1>1 DEF DownSound, DownTyped
<1>3. /\ DOMAIN rested = {"queue", "rows"} /\ rested["rows"] = asks["rows"] /\ rested["queue"] = NotOut
      /\ DOMAIN NotOut = {"state", "what"} /\ NotOut.state = "idle"
  BY <1>2 DEF DownTyped, NotOut
<1>4. \A r \in {"queue", "rows"} : DOMAIN rested[r] = {"state", "what"} /\ rested[r].state \in {"idle", "sent", "back"}
  BY <1>2, <1>3 DEF DownTyped
<1> HIDE DEF rested, status
<1>5. /\ DOMAIN asks' = {"queue", "rows"}
      /\ \A q \in {"queue", "rows"} :
               /\ DOMAIN asks'[q] = {"state", "what"}
               /\ asks'[q].state \in {"idle", "sent", "back"}
      /\ asks'["queue"] = NotOut \/ asks'["queue"].state = "sent"
      /\ asks'["rows"].state = "sent" \/ asks'["rows"] = asks["rows"]
      /\ status.queue # screen.seenKey => asks'["rows"].state = "sent"
  <2>1. Reread(screen.seenKey, status) = IF status.queue # screen.seenKey THEN {"rows"} ELSE {}
    BY DEF Reread, QueueKey
  <2>2. \A q \in {"queue", "rows"} :
               /\ DOMAIN asks'[q] = {"state", "what"} /\ asks'[q].state \in {"idle", "sent", "back"}
               /\ q \in Reread(screen.seenKey, status) => asks'[q].state = "sent"
               /\ q \notin Reread(screen.seenKey, status) => asks'[q] = rested[q]
    BY <1>1, <1>3, <1>4, AskedIs
  <2>3. DOMAIN asks' = {"queue", "rows"}
    BY <1>1, <1>3, <1>4, AskedIs
  <2> QED  BY <2>1, <2>2, <2>3, <1>3
<1>6. /\ DOMAIN screen' = DOMAIN screen /\ screen'.which = screen.which /\ screen'.rows = screen.rows
      /\ screen'.polled = status /\ screen'.seenKey = status.queue
      /\ screen'.seen = screen.seen \cup ToSet(status.queue)
  BY <1>1, <1>2 DEF DownTyped
<1>7. asks'["queue"].state # "back"
  BY <1>3, <1>5
<1>8. DownTyped'
  <2>1. ToSet(status.queue) \in SUBSET Chapters
    BY <1>2, QueuedAreChapters DEF IsStatus
  <2> QED  BY <1>1, <1>2, <1>5, <1>6, <1>7, <2>1 DEF DownTyped
<1>9. SeenIsShown'
  BY <1>1, <1>6, <1>7 DEF DownSound, SeenIsShown, status
<1>10. LeavingIsNoticed'
  <2> SUFFICES ASSUME trouble # "lost", NEW c \in screen'.seen \ ToSet(server.queue)
               PROVE  LeftIsKnown(c)'
    BY <1>1 DEF LeavingIsNoticed
  <2>1. CASE c \in ToSet(status.queue)
    BY <2>1, <1>6 DEF LeftIsKnown
  <2>2. CASE c \notin ToSet(status.queue)
    <3>1. LeftIsKnown(c)
      BY <2>2, <1>6 DEF DownSound, LeavingIsNoticed
    <3>2. c \in ToSet(screen.polled.queue) => asks'["rows"].state = "sent"
      BY <2>2, <1>2, <1>5 DEF DownTyped
    <3> QED  BY <3>1, <3>2, <1>1, <1>5, <1>6 DEF LeftIsKnown
  <2> QED  BY <2>1, <2>2
<1>11. QueuedIsStarted'
  BY <1>1 DEF DownSound, QueuedIsStarted, Waiting
<1> QED  BY <1>8, <1>9, <1>10, <1>11 DEF DownSound

LEMMA RowsArriveKeeps == ASSUME DownSound, RowsArrive PROVE DownSound'
<1>1. /\ asks["rows"].state = "back" /\ screen' = [screen EXCEPT !.rows = asks["rows"].what]
      /\ asks' = [asks EXCEPT !["rows"] = NotOut] /\ UNCHANGED <<server, ops, trouble>>
  BY DEF RowsArrive
<1>2. DownTyped
  BY DEF DownSound
<1>3. /\ DOMAIN asks' = {"queue", "rows"} /\ asks'["queue"] = asks["queue"] /\ asks'["rows"] = NotOut
      /\ DOMAIN NotOut = {"state", "what"} /\ NotOut.state = "idle"
  BY <1>1, <1>2 DEF DownTyped, NotOut
<1>4. /\ DOMAIN screen' = DOMAIN screen /\ screen'.which = screen.which /\ screen'.rows = asks["rows"].what
      /\ screen'.polled = screen.polled /\ screen'.seenKey = screen.seenKey /\ screen'.seen = screen.seen
  BY <1>1, <1>2 DEF DownTyped
<1>5. DownTyped'
  BY <1>1, <1>2, <1>3, <1>4 DEF DownTyped
<1>6. SeenIsShown'
  BY <1>1, <1>3, <1>4 DEF DownSound, SeenIsShown
<1>7. LeavingIsNoticed'
  BY <1>1, <1>3, <1>4 DEF DownSound, LeavingIsNoticed, LeftIsKnown
<1>8. QueuedIsStarted'
  BY <1>1 DEF DownSound, QueuedIsStarted, Waiting
<1> QED  BY <1>5, <1>6, <1>7, <1>8 DEF DownSound

LEMMA TurnKeeps == ASSUME DownSound, Turn PROVE DownSound'
<1>1. /\ screen' = [screen EXCEPT !.sent = @ + 1, !.which = IF @ = "list" THEN "disk" ELSE "list",
                                  !.seenKey = screen.polled.queue, !.seen = ToSet(screen.polled.queue)]
      /\ asks' = Ask(asks, {"queue", "rows"}) /\ UNCHANGED <<server, ops, trouble>>
  BY DEF Turn, QueueKey
<1>2. DownTyped
  BY DEF DownSound
<1>3. /\ DOMAIN asks' = {"queue", "rows"}
      /\ \A q \in {"queue", "rows"} : DOMAIN asks'[q] = {"state", "what"} /\ asks'[q].state = "sent"
  BY <1>1, <1>2, AskedIs DEF DownTyped
<1>4. /\ DOMAIN screen' = DOMAIN screen /\ screen'.which \in {"list", "disk"} /\ screen'.rows = screen.rows
      /\ screen'.polled = screen.polled /\ screen'.seenKey = screen.polled.queue
      /\ screen'.seen = ToSet(screen.polled.queue)
  BY <1>1, <1>2 DEF DownTyped
<1>5. DownTyped'
  <2>1. ToSet(screen.polled.queue) \in SUBSET Chapters
    BY <1>2, QueuedAreChapters DEF DownTyped, IsStatus
  <2> QED  BY <1>1, <1>2, <1>3, <1>4, <2>1 DEF DownTyped
<1>6. SeenIsShown' /\ LeavingIsNoticed'
  BY <1>3, <1>4 DEF SeenIsShown, LeavingIsNoticed, LeftIsKnown
<1>7. QueuedIsStarted'
  BY <1>1 DEF DownSound, QueuedIsStarted, Waiting
<1> QED  BY <1>5, <1>6, <1>7 DEF DownSound


(* What the two views offer are requests.                                  *)
LEMMA OfferedAreRequests ==
  ASSUME DownTyped, NEW o \in ListOps \cup DiskOps
  PROVE  o \in [kind : Requests, ids : SUBSET Chapters, to : Nat]
<1> DEFINE Request == [kind : Requests, ids : SUBSET Chapters, to : Nat]
<1>1. /\ ToSet(screen.polled.queue) \in SUBSET Chapters /\ screen.rows.down \in SUBSET Chapters
      /\ screen.polled.queue \in Queues
  BY QueuedAreChapters DEF DownTyped, IsStatus, IsRows
<1>2. ASSUME NEW k \in Requests, NEW ids \in SUBSET Chapters PROVE Op(k, ids) \in Request
  BY DEF Op
<1>3. PendingDownloads \in SUBSET Chapters /\ ReadDownloads \in SUBSET Chapters
  BY <1>1 DEF PendingDownloads, ReadDownloads
<1>4. ASSUME o \in ListOps PROVE o \in Request
  <2>1. CASE \E s \in {PendingDownloads} \cup {{c} : c \in PendingDownloads} : o = Op("enqueue", s)
    BY <1>2, <1>3, <2>1 DEF Requests
  <2>2. CASE \E c \in ToSet(screen.polled.queue) : o = Op("dequeue", {c})
    BY <1>1, <1>2, <2>2 DEF Requests
  <2>3. CASE \E s \in {ReadDownloads} \cup {{c} : c \in screen.rows.down} : o = Op("delete", s)
    BY <1>1, <1>2, <1>3, <2>3 DEF Requests
  <2> QED  BY <1>4, <2>1, <2>2, <2>3 DEF ListOps
<1>5. ASSUME o \in DiskOps PROVE o \in Request
  <2>1. CASE o \in {Op("stop", {}), Op("clear", {}), Op("start", {})}
    BY <1>2, <2>1 DEF Requests
  <2>2. CASE \E c \in ToSet(screen.polled.queue) : o = Op("dequeue", {c})
    BY <1>1, <1>2, <2>2 DEF Requests
  <2>3. CASE o \in Moves(screen.polled.queue)
    <3> DEFINE q == screen.polled.queue
    <3>1. PICK k \in DOMAIN q, n \in 0..(Len(q) - 1) : o = [kind |-> "move", ids |-> {q[k]}, to |-> n]
      BY <2>3 DEF Moves
    <3> HIDE DEF q
    <3>2. q[k] \in Chapters /\ n \in Nat
      BY <1>1 DEF Queues, q
    <3> QED  BY <3>1, <3>2 DEF Requests
  <2>4. CASE \E s \in {ReadDownloads, screen.rows.down} : o = Op("delete", s)
    BY <1>1, <1>2, <1>3, <2>4 DEF Requests
  <2> QED  BY <1>5, <2>1, <2>2, <2>3, <2>4 DEF DiskOps
<1> QED  BY <1>4, <1>5

LEMMA SendKeeps ==
  ASSUME DownSound, NEW o \in ListOps \cup DiskOps, Send(o)
  PROVE  DownSound'
<1>1. /\ ops' = ops \cup {o} /\ screen' = [screen EXCEPT !.sent = @ + 1]
      /\ UNCHANGED <<server, asks, trouble>>
  BY DEF Send
<1>2. DownTyped
  BY DEF DownSound
<1>3. /\ DOMAIN screen' = DOMAIN screen /\ screen'.which = screen.which /\ screen'.rows = screen.rows
      /\ screen'.polled = screen.polled /\ screen'.seenKey = screen.seenKey /\ screen'.seen = screen.seen
  BY <1>1, <1>2 DEF DownTyped
<1>4. o \in [kind : Requests, ids : SUBSET Chapters, to : Nat]
  BY <1>2, OfferedAreRequests
<1>5. DownTyped'
  BY <1>1, <1>2, <1>3, <1>4 DEF DownTyped
<1>6. SeenIsShown' /\ LeavingIsNoticed'
  BY <1>1, <1>3 DEF DownSound, SeenIsShown, LeavingIsNoticed, LeftIsKnown
<1>7. QueuedIsStarted'
  BY <1>1 DEF DownSound, QueuedIsStarted, Waiting
<1> QED  BY <1>5, <1>6, <1>7 DEF DownSound

(* The server moves, and the view asks again for what changed.             *)
LEMMA ServerMoves ==
  ASSUME DownSound, IsServer(server'), server'.failed \subseteq ToSet(server'.queue),
         DOMAIN screen' = DOMAIN screen, screen'.which = screen.which, screen'.rows = screen.rows,
         screen'.polled = screen.polled, screen'.seenKey = screen.seenKey,
         screen'.seen = screen.seen \ (ToSet(server'.queue) \ ToSet(server.queue)),
         NEW queries, asks' = Ask(asks, queries) \/ (asks' = asks /\ queries = {}),
         trouble = "lost" => trouble' = "lost",
         \A o \in ops' : o \in [kind : Requests, ids : SUBSET Chapters, to : Nat],
         \A c \in screen.seen \ ToSet(server'.queue) :
            \/ trouble' = "lost" \/ "rows" \in queries
            \/ c \in ToSet(server.queue) \/ (c \in server'.down <=> c \in server.down),
         QueuedIsStarted'
  PROVE  DownSound'
<1>1. DownTyped
  BY DEF DownSound
<1>2. /\ DOMAIN asks' = {"queue", "rows"}
      /\ \A q \in {"queue", "rows"} :
               /\ DOMAIN asks'[q] = {"state", "what"}
               /\ asks'[q].state \in {"idle", "sent", "back"}
               /\ asks'[q].state = "sent" \/ asks'[q] = asks[q]
               /\ q \in queries => asks'[q].state = "sent"
  <2>1. CASE asks' = Ask(asks, queries)
    BY <1>1, <2>1, AskedIs DEF DownTyped
  <2>2. CASE asks' = asks /\ queries = {}
    BY <1>1, <2>2 DEF DownTyped
  <2> QED  BY <2>1, <2>2
<1>3. /\ asks'["queue"].state = "sent" \/ asks'["queue"] = asks["queue"]
      /\ asks'["rows"].state = "sent" \/ asks'["rows"] = asks["rows"]
      /\ "rows" \in queries => asks'["rows"].state = "sent"
  BY <1>2
<1>4. DownTyped'
  <2>1. /\ asks'["queue"].state = "back" => IsStatus(asks'["queue"].what)
        /\ asks'["rows"].state = "back" => IsRows(asks'["rows"].what)
    BY <1>1, <1>3 DEF DownTyped
  <2>2. /\ screen'.which \in {"list", "disk"} /\ IsRows(screen'.rows) /\ IsStatus(screen'.polled)
        /\ screen'.seenKey = screen'.polled.queue /\ screen'.seen \subseteq Chapters
    BY <1>1 DEF DownTyped
  <2>3. DOMAIN screen' = {"which", "rows", "polled", "seenKey", "seen", "sent"}
    BY <1>1 DEF DownTyped
  <2>4. \A q \in {"queue", "rows"} : DOMAIN asks'[q] = {"state", "what"} /\ asks'[q].state \in {"idle", "sent", "back"}
    BY <1>2
  <2> QED  BY <1>2, <2>1, <2>2, <2>3, <2>4 DEF DownTyped
<1>5. SeenIsShown'
  <2> SUFFICES ASSUME NEW c \in screen'.seen \cap ToSet(server'.queue)
               PROVE  /\ c \in ToSet(screen'.polled.queue)
                      /\ asks'["queue"].state = "back" => c \in ToSet(asks'["queue"].what.queue)
    BY DEF SeenIsShown
  <2>1. c \in screen.seen \cap ToSet(server.queue)
    OBVIOUS
  <2> QED  BY <2>1, <1>3 DEF DownSound, SeenIsShown
<1>6. LeavingIsNoticed'
  <2> SUFFICES ASSUME trouble' # "lost", NEW c \in screen'.seen \ ToSet(server'.queue)
               PROVE  LeftIsKnown(c)'
    BY DEF LeavingIsNoticed
  <2>1. c \in screen.seen /\ trouble # "lost"
    OBVIOUS
  <2>2. CASE "rows" \in queries
    BY <2>2, <1>3 DEF LeftIsKnown
  <2>3. CASE c \in ToSet(server.queue)
    <3>1. c \in ToSet(screen.polled.queue)
      BY <2>1, <2>3 DEF DownSound, SeenIsShown
    <3> QED  BY <3>1 DEF LeftIsKnown
  <2>4. CASE "rows" \notin queries /\ c \notin ToSet(server.queue)
    <3>1. LeftIsKnown(c)
      BY <2>1, <2>4 DEF DownSound, LeavingIsNoticed
    <3>2. c \in server'.down <=> c \in server.down
      BY <2>1, <2>4
    <3> QED  BY <3>1, <3>2, <1>3 DEF LeftIsKnown
  <2> QED  BY <2>2, <2>3, <2>4
<1> QED  BY <1>4, <1>5, <1>6 DEF DownSound

LEMMA SeenAfter ==
  ASSUME DownTyped, NEW o, Done(o)
  PROVE  /\ server' = Handled(o)
         /\ DOMAIN screen' = DOMAIN screen /\ screen'.which = screen.which /\ screen'.rows = screen.rows
         /\ screen'.polled = screen.polled /\ screen'.seenKey = screen.seenKey
         /\ screen'.seen = screen.seen \ (ToSet(server'.queue) \ ToSet(server.queue))
BY DEF Done, DownTyped

LEMMA SucceedsKeeps ==
  ASSUME DownSound, NEW o \in ops, Succeeds(o)
  PROVE  DownSound'
<1>1. /\ Done(o) /\ ops' = (ops \ {o}) \cup Then(o)
      /\ asks' = Ask(asks, Refreshes(o, TRUE)) /\ UNCHANGED trouble
  BY DEF Succeeds
<1>2. DownTyped /\ QueuedIsStarted
  BY DEF DownSound
<1>3. o \in [kind : Requests, ids : SUBSET Chapters, to : Nat]
  BY <1>2 DEF DownTyped
<1>4. /\ server' = Handled(o)
      /\ DOMAIN screen' = DOMAIN screen /\ screen'.which = screen.which /\ screen'.rows = screen.rows
      /\ screen'.polled = screen.polled /\ screen'.seenKey = screen.seenKey
      /\ screen'.seen = screen.seen \ (ToSet(server'.queue) \ ToSet(server.queue))
  BY <1>1, <1>2, SeenAfter
<1>5. \A p \in ops' : p \in [kind : Requests, ids : SUBSET Chapters, to : Nat]
  <2>1. Op("start", o.ids) \in [kind : Requests, ids : SUBSET Chapters, to : Nat]
    BY <1>3 DEF Op, Requests
  <2> QED  BY <1>1, <1>2, <2>1 DEF DownTyped, Then
<1>6. IsServer(server') /\ server'.failed \subseteq ToSet(server'.queue)
  BY <1>2, <1>4, HandledIs
<1>7. o.kind # "delete" => server'.down = server.down
  BY <1>2, <1>4, HandledIs
<1>8. o.kind = "delete" => "rows" \in Refreshes(o, TRUE)
  BY DEF Refreshes
<1>9. QueuedIsStarted'
  <2>1. Waiting' = WithoutAll(server'.queue, server'.failed)
    BY DEF Waiting
  <2>2. CASE o.kind = "enqueue"
    <3>1. Op("start", o.ids) \in ops' /\ Op("start", o.ids).kind = "start"
      BY <1>1, <2>2 DEF Then, Op
    <3> QED  BY <3>1 DEF QueuedIsStarted
  <2>3. CASE o.kind = "start"
    <3>1. server'.running = (WithoutAll(server'.queue, server'.failed) # <<>>)
      BY <1>2, <1>4, <2>3, HandledIs
    <3> QED  BY <2>1, <3>1 DEF QueuedIsStarted
  <2>4. CASE o.kind \notin {"enqueue", "start"}
    <3>1. \/ server'.paused \/ WithoutAll(server'.queue, server'.failed) = <<>> \/ server'.running
          \/ server.paused \/ trouble # "none" \/ \E p \in ops : p.kind \in {"enqueue", "start"}
      BY <1>2, <1>4, <2>4, HandledIs
    <3>2. \A p \in ops : p.kind \in {"enqueue", "start"} => p \in ops'
      BY <1>1, <2>4
    <3>3. server.paused => server'.paused
      <4>1. IsServer(server)
        BY <1>2 DEF DownTyped
      <4>2. DOMAIN server = {"down", "queue", "failed", "running", "paused"} /\ server.paused \in BOOLEAN
        BY <4>1 DEF IsServer
      <4> QED  BY <1>3, <1>4, <2>4, <4>2 DEF Handled, StillOn, Requests
    <3> QED  BY <1>1, <2>1, <3>1, <3>2, <3>3 DEF QueuedIsStarted
  <2> QED  BY <2>2, <2>3, <2>4
<1> QED  BY <1>1, <1>4, <1>5, <1>6, <1>7, <1>8, <1>9, ServerMoves

LEMMA FailsKeeps ==
  ASSUME DownSound, NEW o \in ops, Fails(o)
  PROVE  DownSound'
<1>1. /\ ops' = ops \ {o} /\ asks' = Ask(asks, Refreshes(o, FALSE)) /\ trouble = "none"
      /\ \/ trouble' = "refused" /\ UNCHANGED <<server, screen>>
         \/ trouble' = "lost" /\ Done(o)
  BY DEF Fails
<1>2. DownTyped
  BY DEF DownSound
<1>3. QueuedIsStarted' /\ \A p \in ops' : p \in [kind : Requests, ids : SUBSET Chapters, to : Nat]
  BY <1>1, <1>2 DEF QueuedIsStarted, DownTyped
<1>4. CASE trouble' = "refused" /\ UNCHANGED <<server, screen>>
  <2>1. IsServer(server') /\ server'.failed \subseteq ToSet(server'.queue)
    BY <1>2, <1>4 DEF DownTyped
  <2>2. screen'.seen = screen.seen \ (ToSet(server'.queue) \ ToSet(server.queue))
    BY <1>4
  <2> QED  BY <1>1, <1>3, <1>4, <2>1, <2>2, ServerMoves
<1>5. CASE trouble' = "lost" /\ Done(o)
  <2>1. /\ server' = Handled(o)
        /\ DOMAIN screen' = DOMAIN screen /\ screen'.which = screen.which /\ screen'.rows = screen.rows
        /\ screen'.polled = screen.polled /\ screen'.seenKey = screen.seenKey
        /\ screen'.seen = screen.seen \ (ToSet(server'.queue) \ ToSet(server.queue))
    BY <1>2, <1>5, SeenAfter
  <2>2. IsServer(server') /\ server'.failed \subseteq ToSet(server'.queue)
    BY <1>2, <2>1, HandledIs
  <2> QED  BY <1>1, <1>3, <1>5, <2>1, <2>2, ServerMoves
<1> QED  BY <1>1, <1>4, <1>5

LEMMA DownloadKeeps ==
  ASSUME DownSound, NEW c, Download(c)
  PROVE  DownSound'
<1>1. /\ server.running /\ Waiting # <<>> /\ c = Waiting[1]
      /\ server' \in {[server EXCEPT !.down = @ \cup {c}, !.queue = WithoutAll(@, {c})],
                      [server EXCEPT !.failed = IF @ = {} THEN {c} ELSE @]}
      /\ UNCHANGED <<screen, asks, ops, trouble>>
  BY DEF Download
<1>2. DownTyped /\ IsServer(server) /\ server.failed \subseteq ToSet(server.queue)
  BY DEF DownSound, DownTyped
<1>3. c \in ToSet(server.queue) /\ c \notin server.failed
  BY <1>1, <1>2, WaitingIs
<1>4. server.queue \in Queues /\ c \in Chapters
  BY <1>2, <1>3, QueuedAreChapters DEF IsServer
<1>5. /\ IsServer(server') /\ server'.failed \subseteq ToSet(server'.queue)
      /\ ToSet(server'.queue) \subseteq ToSet(server.queue) /\ server'.running = server.running
      /\ \A x : x # c => (x \in server'.down <=> x \in server.down)
  <2>1. CASE server' = [server EXCEPT !.down = @ \cup {c}, !.queue = WithoutAll(@, {c})]
    <3> DEFINE q == WithoutAll(server.queue, {c})
    <3>1. q \in Queues /\ ToSet(q) = ToSet(server.queue) \ {c}
      BY <1>4, WhatIsLeft DEF Queues
    <3> HIDE DEF q
    <3>2. server' = [server EXCEPT !.down = @ \cup {c}, !.queue = q]
      BY <2>1 DEF q
    <3>3. IsServer(server')
      BY <1>2, <1>4, <3>1, <3>2 DEF IsServer
    <3>4. /\ server'.queue = q /\ server'.down = server.down \cup {c} /\ server'.failed = server.failed
          /\ server'.running = server.running
      BY <1>2, <3>2 DEF IsServer
    <3> QED  BY <1>2, <1>3, <3>1, <3>3, <3>4
  <2>2. CASE server' = [server EXCEPT !.failed = IF @ = {} THEN {c} ELSE @]
    <3>1. IsServer(server')
      BY <1>2, <1>4, <2>2 DEF IsServer
    <3>2. /\ server'.queue = server.queue /\ server'.down = server.down
          /\ server'.failed = (IF server.failed = {} THEN {c} ELSE server.failed)
          /\ server'.running = server.running
      BY <1>2, <2>2 DEF IsServer
    <3> QED  BY <1>2, <1>3, <3>1, <3>2
  <2> QED  BY <1>1, <2>1, <2>2
<1>6. QueuedIsStarted'
  BY <1>1, <1>5 DEF QueuedIsStarted
<1>8. /\ screen' = screen /\ asks' = asks /\ ops' = ops /\ trouble' = trouble
      /\ screen'.seen = screen.seen \ (ToSet(server'.queue) \ ToSet(server.queue))
  BY <1>1, <1>5
<1>9. \A x \in screen.seen \ ToSet(server'.queue) :
         x \in ToSet(server.queue) \/ (x \in server'.down <=> x \in server.down)
  BY <1>3, <1>5
<1>10. \A o \in ops' : o \in [kind : Requests, ids : SUBSET Chapters, to : Nat]
  BY <1>2, <1>8 DEF DownTyped
<1> DEFINE none == {}
<1>11. asks' = asks /\ none = {}
  BY <1>8
<1> HIDE DEF none
<1> QED  BY <1>5, <1>6, <1>8, <1>9, <1>10, <1>11, ServerMoves

LEMMA DownloaderRestsKeeps == ASSUME DownSound, DownloaderRests PROVE DownSound'
<1>1. /\ Waiting = <<>> /\ server' = [server EXCEPT !.running = FALSE]
      /\ UNCHANGED <<screen, asks, ops, trouble>>
  BY DEF DownloaderRests
<1>2. DownTyped /\ IsServer(server)
  BY DEF DownSound, DownTyped
<1>3. /\ IsServer(server') /\ server'.queue = server.queue /\ server'.down = server.down
      /\ server'.failed = server.failed
  BY <1>1, <1>2 DEF IsServer
<1>4. DownTyped'
  BY <1>1, <1>2, <1>3 DEF DownTyped
<1>5. SeenIsShown' /\ LeavingIsNoticed'
  BY <1>1, <1>3 DEF DownSound, SeenIsShown, LeavingIsNoticed, LeftIsKnown
<1>6. QueuedIsStarted'
  BY <1>1, <1>3 DEF QueuedIsStarted, Waiting
<1> QED  BY <1>4, <1>5, <1>6 DEF DownSound

(* What the invariant says of what is on screen.                           *)
LEMMA DownSoundShows == DownSound => DiskIsShown
<1> SUFFICES ASSUME DownSound, ops = {}, trouble # "lost", screen.polled.queue = server.queue,
                    asks["queue"].state = "idle", asks["rows"].state = "idle",
                    NEW c \in screen.seen \ ToSet(server.queue)
             PROVE  c \in screen.rows.down <=> c \in server.down
  BY DEF DiskIsShown
<1>1. LeftIsKnown(c)
  BY DEF DownSound, LeavingIsNoticed
<1> QED  BY <1>1 DEF LeftIsKnown


-----------------------------------------------------------------------------
(* The list's view.                                                        *)

ViewFields ==
    {"manga", "answer", "awaiting", "now", "picked", "adoptedFor", "from", "wish", "writes", "stored",
     "cache", "legacy", "visited", "walks", "choices"}
IsKept(f) == DOMAIN f = 1..2 /\ \A m \in 1..2 : f[m] = None \/ IsChapterView(f[m])

IsView(v) ==
    /\ DOMAIN v = ViewFields
    /\ v.manga \in 1..2 /\ v.answer \in 0..2 /\ IsChapterView(v.now)
    /\ IsKept(v.stored) /\ IsKept(v.cache) /\ IsKept(v.legacy)
    /\ \A x \in v.writes : x[1] \in 1..2 /\ IsChapterView(x[2])

\* The group that is picked is the saved one, or the busiest.
PickedRight(v) ==
    v.answer # 0 /\ Len(Scanlations[v.answer]) > 1 =>
        v.picked = IF v.now.scanlator \in {"all"} \cup ToSet(Scanlations[v.answer])
                   THEN v.now.scanlator ELSE Scanlations[v.answer][1]

ViewIsSound(v) == IsView(v) /\ PickedRight(v) /\ v.now = v.wish
ViewSound == ViewIsSound(view)

LEMMA DefaultIsAView == IsChapterView(DEFAULT_CHAPTER_VIEW)
BY DEF DEFAULT_CHAPTER_VIEW, IsChapterView

LEMMA PickingSettles ==
  ASSUME NEW v, IsView(v), v.now = v.wish
  PROVE  /\ ViewIsSound(PickScanlator(v))
         /\ PickScanlator(v).now = v.now /\ PickScanlator(v).manga = v.manga
         /\ PickScanlator(v).adoptedFor = v.adoptedFor
<1>1. CASE v.answer = 0 \/ Len(Scanlations[v.answer]) < 2
  <2>1. PickScanlator(v) = v
    BY <1>1 DEF PickScanlator
  <2>2. PickedRight(v)
    <3>1. CASE v.answer = 0
      BY <3>1 DEF PickedRight
    <3>2. CASE v.answer # 0
      <4>1. Scanlations[v.answer] \in Seq(STRING)
        BY <3>2, ChaptersAssumption DEF IsView
      <4>2. ~(Len(Scanlations[v.answer]) > 1)
        BY <1>1, <3>2, <4>1
      <4> QED  BY <4>2 DEF PickedRight
    <3> QED  BY <3>1, <3>2
  <2> QED  BY <2>1, <2>2 DEF ViewIsSound
<1>2. CASE ~(v.answer = 0 \/ Len(Scanlations[v.answer]) < 2)
  <2> DEFINE g == IF v.now.scanlator \in {"all"} \cup ToSet(Scanlations[v.answer])
                  THEN v.now.scanlator ELSE Scanlations[v.answer][1]
             w == [v EXCEPT !.picked = g]
  <2>1. PickScanlator(v) = w
    BY <1>2 DEF PickScanlator
  <2> HIDE DEF g
  <2>2. /\ DOMAIN w = DOMAIN v /\ w.picked = g
        /\ \A f \in ViewFields : f # "picked" => w[f] = v[f]
    BY DEF IsView, ViewFields
  <2>3. /\ w.manga = v.manga /\ w.answer = v.answer /\ w.now = v.now /\ w.stored = v.stored
        /\ w.cache = v.cache /\ w.legacy = v.legacy /\ w.writes = v.writes /\ w.wish = v.wish
        /\ w.adoptedFor = v.adoptedFor
    BY <2>2 DEF ViewFields
  <2> HIDE DEF w
  <2>4. IsView(w)
    BY <2>2, <2>3 DEF IsView
  <2>5. PickedRight(w)
    BY <2>2, <2>3 DEF PickedRight, g
  <2> QED  BY <2>1, <2>3, <2>4, <2>5 DEF ViewIsSound
<1> QED  BY <1>1, <1>2

LEMMA AdoptingSettles ==
  ASSUME NEW v, IsView(v), v.now = v.wish
  PROVE  ViewIsSound(Adopt(v))
<1> DEFINE meta == v.cache[v.answer]
           over == IF meta = None THEN v.legacy[v.manga] ELSE None
           own == IF meta # None THEN meta
                  ELSE IF over # None THEN over ELSE DEFAULT_CHAPTER_VIEW
           w == [v EXCEPT !.adoptedFor = v.manga, !.now = own,
                          !.from = IF v.adoptedFor = v.manga THEN @ ELSE v.answer,
                          !.wish = IF v.adoptedFor = v.manga THEN @ ELSE own,
                          !.writes = IF over = None THEN @ ELSE @ \cup {<<v.manga, over>>}]
<1>1. CASE ~Adopts(v)
  <2>1. Adopt(v) = PickScanlator(v)
    BY <1>1 DEF Adopt
  <2> QED  BY <2>1, PickingSettles
<1>2. CASE Adopts(v)
  <2>1. Adopt(v) = PickScanlator(w)
    BY <1>2 DEF Adopt, ChapterViewFromMeta
  <2>2. v.answer \in 1..2 /\ v.adoptedFor # v.manga /\ v.manga \in 1..2
    BY <1>2 DEF Adopts, IsView
  <2>3. (meta = None \/ IsChapterView(meta)) /\ (over = None \/ IsChapterView(over))
    BY <2>2 DEF IsView, IsKept
  <2>4. IsChapterView(own)
    BY <2>3, DefaultIsAView
  <2> HIDE DEF meta, over, own
  <2>5. /\ DOMAIN w = ViewFields /\ w.manga = v.manga /\ w.answer = v.answer /\ w.now = own
        /\ w.stored = v.stored /\ w.cache = v.cache /\ w.legacy = v.legacy
    BY DEF IsView, ViewFields
  <2>6. w.wish = own
    BY <2>2 DEF IsView, ViewFields
  <2>7. w.writes = IF over = None THEN v.writes ELSE v.writes \cup {<<v.manga, over>>}
    BY DEF IsView, ViewFields
  <2> HIDE DEF w
  <2>8. \A x \in w.writes : x[1] \in 1..2 /\ IsChapterView(x[2])
    BY <2>2, <2>3, <2>7 DEF IsView
  <2>9. IsView(w) /\ w.now = w.wish
    BY <2>4, <2>5, <2>6, <2>8 DEF IsView
  <2> QED  BY <2>1, <2>9, PickingSettles
<1> QED  BY <1>1, <1>2

(* Changes of what is not looked at for the group.                         *)
LEMMA ViewAnsweredKeeps == ASSUME ViewSound, ViewAnswered PROVE ViewSound'
<1> DEFINE v == [view EXCEPT !.answer = view.manga, !.awaiting = FALSE,
                             !.cache = [view.cache EXCEPT ![view.manga] = view.stored[view.manga]]]
<1>1. view' = Adopt(v)
  BY DEF ViewAnswered, ViewOnly
<1>2. IsView(view) /\ view.now = view.wish
  BY DEF ViewSound, ViewIsSound
<1>3. /\ DOMAIN v = ViewFields /\ v.manga = view.manga /\ v.answer = view.manga /\ v.now = view.now
      /\ v.wish = view.wish /\ v.stored = view.stored /\ v.legacy = view.legacy /\ v.writes = view.writes
      /\ v.cache = [view.cache EXCEPT ![view.manga] = view.stored[view.manga]]
  BY <1>2 DEF IsView, ViewFields
<1> HIDE DEF v
<1>4. IsView(v)
  BY <1>2, <1>3 DEF IsView, IsKept
<1> QED  BY <1>1, <1>2, <1>3, <1>4, AdoptingSettles DEF ViewSound

LEMMA WalkToKeeps == ASSUME ViewSound, NEW m \in 1..2, WalkTo(m) PROVE ViewSound'
<1>1. PICK answer \in {view.answer} \cup (IF view.visited[m] THEN {m} ELSE {}) :
             view' = Adopt([view EXCEPT !.manga = m, !.answer = answer, !.awaiting = TRUE,
                                        !.walks = @ + 1,
                                        !.visited[view.manga] = ~view.awaiting \/ @])
  BY DEF WalkTo, ViewOnly
<1> DEFINE v == [view EXCEPT !.manga = m, !.answer = answer, !.awaiting = TRUE, !.walks = @ + 1,
                             !.visited[view.manga] = ~view.awaiting \/ @]
<1>2. IsView(view) /\ view.now = view.wish
  BY DEF ViewSound, ViewIsSound
<1>3. answer \in 0..2
  BY <1>2 DEF IsView
<1>4. /\ DOMAIN v = ViewFields /\ v.manga = m /\ v.answer = answer /\ v.now = view.now
      /\ v.wish = view.wish /\ v.stored = view.stored /\ v.legacy = view.legacy /\ v.writes = view.writes
      /\ v.cache = view.cache
  BY <1>2 DEF IsView, ViewFields
<1>5. view' = Adopt(v)
  BY <1>1
<1> HIDE DEF v
<1>6. IsView(v)
  BY <1>2, <1>3, <1>4 DEF IsView
<1> QED  BY <1>2, <1>4, <1>5, <1>6, AdoptingSettles DEF ViewSound

LEMMA WritingKeeps ==
  ASSUME ViewSound, NEW new, IsChapterView(new), WriteChapterView(new)
  PROVE  ViewSound'
<1> DEFINE v == [view EXCEPT !.now = new, !.choices = @ + 1]
           p == PickScanlator(v)
           w == [p EXCEPT !.wish = new, !.writes = @ \cup {<<view.manga, new>>}]
           u == [v EXCEPT !.wish = new]
           t == PickScanlator(u)
<1>1. view' = w
  BY DEF WriteChapterView, ViewOnly
<1>2. IsView(view)
  BY DEF ViewSound, ViewIsSound
<1>3. /\ DOMAIN v = ViewFields /\ v.manga = view.manga /\ v.answer = view.answer /\ v.now = new
      /\ v.stored = view.stored /\ v.legacy = view.legacy /\ v.writes = view.writes /\ v.cache = view.cache
  BY <1>2 DEF IsView, ViewFields
<1> HIDE DEF v
<1>4. IsView(v)
  BY <1>2, <1>3 DEF IsView
<1> DEFINE groups == Scanlations[v.answer]
           g == IF v.now.scanlator \in {"all"} \cup ToSet(groups) THEN v.now.scanlator ELSE groups[1]
<1>5. p = IF v.answer = 0 \/ Len(groups) < 2 THEN v ELSE [v EXCEPT !.picked = g]
  BY DEF PickScanlator
<1> HIDE DEF g, p, groups
<1>6. /\ DOMAIN p = ViewFields /\ p.manga = v.manga /\ p.answer = v.answer /\ p.now = v.now
      /\ p.stored = v.stored /\ p.legacy = v.legacy /\ p.writes = v.writes /\ p.cache = v.cache
      /\ ~(v.answer = 0 \/ Len(groups) < 2) => p.picked = g
  BY <1>4, <1>5 DEF IsView, ViewFields
<1>7. /\ DOMAIN w = ViewFields /\ w.manga = p.manga /\ w.answer = p.answer /\ w.now = p.now
      /\ w.stored = p.stored /\ w.legacy = p.legacy /\ w.cache = p.cache /\ w.picked = p.picked
      /\ w.wish = new /\ w.writes = p.writes \cup {<<view.manga, new>>}
  BY <1>6 DEF ViewFields
<1> HIDE DEF w
<1>8. IsView(w) /\ w.now = w.wish
  BY <1>2, <1>3, <1>4, <1>6, <1>7 DEF IsView
<1>9. PickedRight(w)
  <2> SUFFICES ASSUME w.answer # 0, Len(Scanlations[w.answer]) > 1
               PROVE  w.picked = IF w.now.scanlator \in {"all"} \cup ToSet(Scanlations[w.answer])
                                 THEN w.now.scanlator ELSE Scanlations[w.answer][1]
    BY DEF PickedRight
  <2>1. groups = Scanlations[w.answer] /\ w.answer = v.answer /\ w.now = v.now
    BY <1>6, <1>7 DEF groups
  <2>2. groups \in Seq(STRING)
    BY <2>1, <1>8, ChaptersAssumption DEF IsView
  <2>3. ~(v.answer = 0 \/ Len(groups) < 2)
    BY <2>1, <2>2
  <2> QED  BY <2>1, <2>3, <1>6, <1>7 DEF g
<1> QED  BY <1>1, <1>8, <1>9 DEF ViewSound, ViewIsSound

LEMMA ChoosingKeeps ==
  ASSUME ViewSound, CycleFilter \/ SaveOrder \/ \E s \in {"all", "a", "b"} : ChooseScanlator(s)
  PROVE  ViewSound'
<1>1. IsChapterView(view.now)
  BY DEF ViewSound, ViewIsSound, IsView
<1> DEFINE now == view.now
<1>2. DOMAIN now = {"scanlator", "filter", "order"}
  BY <1>1 DEF IsChapterView
<1>3. CASE CycleFilter
  <2> DEFINE new == [now EXCEPT !.filter = NextFilter(@)]
  <2>1. NextFilter(now.filter) \in {"all", "unread", "read", "bookmarked"}
    BY <1>1 DEF NextFilter, IsChapterView
  <2>2. DOMAIN new = DOMAIN now /\ new.filter = NextFilter(now.filter) /\ new.order = now.order
    BY <1>2
  <2>3. WriteChapterView(new)
    BY <1>3 DEF CycleFilter
  <2> HIDE DEF new
  <2>4. IsChapterView(new)
    BY <1>1, <2>1, <2>2 DEF IsChapterView
  <2> QED  BY <2>3, <2>4, WritingKeeps
<1>4. CASE SaveOrder
  <2> DEFINE new == [now EXCEPT !.order = IF @ = "asc" THEN "desc" ELSE "asc"]
  <2>1. /\ DOMAIN new = DOMAIN now /\ new.filter = now.filter
        /\ new.order = IF now.order = "asc" THEN "desc" ELSE "asc"
    BY <1>2
  <2>2. WriteChapterView(new)
    BY <1>4 DEF SaveOrder
  <2> HIDE DEF new
  <2>3. IsChapterView(new)
    BY <1>1, <2>1 DEF IsChapterView
  <2> QED  BY <2>2, <2>3, WritingKeeps
<1>5. ASSUME NEW s \in {"all", "a", "b"}, ChooseScanlator(s) PROVE ViewSound'
  <2> DEFINE new == [now EXCEPT !.scanlator = s]
  <2>1. DOMAIN new = DOMAIN now /\ new.filter = now.filter /\ new.order = now.order
    BY <1>2
  <2>2. WriteChapterView(new)
    BY <1>5 DEF ChooseScanlator
  <2> HIDE DEF new
  <2>3. IsChapterView(new)
    BY <1>1, <2>1 DEF IsChapterView
  <2> QED  BY <2>2, <2>3, WritingKeeps
<1> QED  BY <1>3, <1>4, <1>5

LEMMA ViewWrittenKeeps == ASSUME ViewSound, NEW w, ViewWritten(w) PROVE ViewSound'
<1>1. w \in view.writes /\ view' = [view EXCEPT !.writes = @ \ {w}, !.stored[w[1]] = w[2]]
  BY DEF ViewWritten, ViewOnly
<1>2. IsView(view) /\ PickedRight(view) /\ view.now = view.wish
  BY DEF ViewSound, ViewIsSound
<1>3. w[1] \in 1..2 /\ IsChapterView(w[2])
  BY <1>1, <1>2 DEF IsView
<1>4. /\ DOMAIN view' = ViewFields /\ view'.manga = view.manga /\ view'.answer = view.answer
      /\ view'.now = view.now /\ view'.wish = view.wish /\ view'.picked = view.picked
      /\ view'.cache = view.cache /\ view'.legacy = view.legacy
      /\ view'.stored = [view.stored EXCEPT ![w[1]] = w[2]] /\ view'.writes = view.writes \ {w}
  BY <1>1, <1>2 DEF IsView, ViewFields
<1>5. IsView(view') /\ PickedRight(view')
  BY <1>2, <1>3, <1>4 DEF IsView, IsKept, PickedRight
<1> QED  BY <1>2, <1>4, <1>5 DEF ViewSound, ViewIsSound

LEMMA ViewRefetchedKeeps == ASSUME ViewSound, ViewRefetched PROVE ViewSound'
<1>1. view' = [view EXCEPT !.awaiting = TRUE]
  BY DEF ViewRefetched, ViewOnly
<1>2. IsView(view) /\ PickedRight(view) /\ view.now = view.wish
  BY DEF ViewSound, ViewIsSound
<1>3. /\ DOMAIN view' = ViewFields /\ view'.manga = view.manga /\ view'.answer = view.answer
      /\ view'.now = view.now /\ view'.wish = view.wish /\ view'.picked = view.picked
      /\ view'.cache = view.cache /\ view'.legacy = view.legacy
      /\ view'.stored = view.stored /\ view'.writes = view.writes
  BY <1>1, <1>2 DEF IsView, ViewFields
<1>4. IsView(view') /\ PickedRight(view')
  BY <1>2, <1>3 DEF IsView, PickedRight
<1> QED  BY <1>2, <1>3, <1>4 DEF ViewSound, ViewIsSound

LEMMA ViewInitially == ChaptersInit => ViewSound
<1> SUFFICES ASSUME ChaptersInit PROVE ViewSound
  OBVIOUS
<1>1. view = [manga |-> 1, answer |-> 0, awaiting |-> TRUE, now |-> DEFAULT_CHAPTER_VIEW,
              picked |-> "all", adoptedFor |-> 0,
              from |-> 0, wish |-> DEFAULT_CHAPTER_VIEW, writes |-> {}, stored |-> [m \in 1..2 |-> None],
              cache |-> [m \in 1..2 |-> None], legacy |-> [m \in 1..2 |-> None],
              visited |-> [m \in 1..2 |-> FALSE], walks |-> 0, choices |-> 0]
  BY DEF ChaptersInit
<1>2. IsView(view)
  BY <1>1, DefaultIsAView DEF IsView, ViewFields, IsKept
<1>3. view.answer = 0 /\ view.now = view.wish
  BY <1>1
<1> QED  BY <1>2, <1>3 DEF ViewSound, ViewIsSound, PickedRight

\* Opening the page finds the views that are kept.
LEMMA ViewOpens == ASSUME ViewSound, Open PROVE ViewSound'
<1>1. \/ view' = view
      \/ \E s \in [1..2 -> Stored], v \in Stored :
            view' = [view EXCEPT !.stored = s, !.legacy = [m \in 1..2 |-> v]]
  BY Zenon DEF Open
<1>2. IsView(view) /\ PickedRight(view) /\ view.now = view.wish
  BY DEF ViewSound, ViewIsSound
<1>3. CASE view' = view
  BY <1>2, <1>3 DEF ViewSound, ViewIsSound
<1>4. ASSUME NEW s \in [1..2 -> Stored], NEW old \in Stored,
             view' = [view EXCEPT !.stored = s, !.legacy = [m \in 1..2 |-> old]]
      PROVE  ViewSound'
  <2> DEFINE l == [m \in 1..2 |-> old]
  <2>1. IsKept(s) /\ IsKept(l)
    BY ChaptersAssumption DEF IsKept
  <2> HIDE DEF l
  <2>2. /\ DOMAIN view' = ViewFields /\ view'.manga = view.manga /\ view'.answer = view.answer
        /\ view'.now = view.now /\ view'.wish = view.wish /\ view'.picked = view.picked
        /\ view'.cache = view.cache /\ view'.legacy = l /\ view'.stored = s /\ view'.writes = view.writes
    BY <1>2, <1>4 DEF IsView, ViewFields, l
  <2>3. IsView(view') /\ PickedRight(view')
    BY <1>2, <2>1, <2>2 DEF IsView, PickedRight
  <2> QED  BY <1>2, <2>2, <2>3 DEF ViewSound, ViewIsSound
<1> QED  BY <1>1, <1>3, <1>4

LEMMA ViewSoundShows == ViewSound => ViewIsItsOwn
<1> SUFFICES ASSUME ViewSound PROVE ViewIsItsOwn
  OBVIOUS
<1>1. IsView(view) /\ PickedRight(view) /\ view.now = view.wish
  BY DEF ViewSound, ViewIsSound
<1> DEFINE saved == view.now.scanlator
           groups == Scanlations[view.answer]
<1>2. ASSUME view.answer # 0, Len(groups) > 1
      PROVE  IF saved \in {"all"} \cup ToSet(groups) THEN ActiveScanlator(view) = saved
             ELSE ActiveScanlator(view) = groups[1]
  <2>1. view.picked = IF saved \in {"all"} \cup ToSet(groups) THEN saved ELSE groups[1]
    BY <1>1, <1>2 DEF PickedRight
  <2>2. groups \in Seq(STRING)
    BY <1>1, <1>2, ChaptersAssumption DEF IsView
  <2> HIDE DEF saved, groups
  <2>3. groups[1] \in ToSet(groups)
    BY <2>2, <1>2 DEF ToSet
  <2>4. ActiveScanlator(view) = IF view.picked \in ToSet(groups) THEN view.picked ELSE "all"
    BY <1>2 DEF ActiveScanlator, groups
  <2> QED  BY <2>1, <2>3, <2>4
<1> QED  BY <1>1, <1>2 DEF ViewIsItsOwn


-----------------------------------------------------------------------------
(* Counting pages.  What was taken is the first of what is to be counted,  *)
(* and each of it is out, counted, or has failed.                          *)

CountFields == {"missing", "pending", "cursor", "total", "done", "failures", "out", "asked", "runs"}
Taken(c) == {c.pending[i] : i \in 1..c.cursor}

CountShape(c) ==
    /\ DOMAIN c = CountFields
    /\ c.missing \subseteq 1..Countable /\ c.pending \in Seq(1..Countable)
    /\ \A i, j \in 1..Len(c.pending) : i # j => c.pending[i] # c.pending[j]
    /\ c.cursor \in 0..Len(c.pending) /\ DOMAIN c.asked = 1..Countable
\* Each that is taken was asked for once, and no other.
EachOnce(c) == \A x \in 1..Countable : c.asked[x] = IF x \in Taken(c) THEN 1 ELSE 0
AllAccounted(c) ==
    /\ c.out \subseteq Taken(c) /\ c.done \in Nat /\ c.done + Cardinality(c.out) = c.cursor
    /\ c.failures = Cardinality((Taken(c) \ c.out) \cap c.missing)
    /\ ToSet(c.pending) \ (Taken(c) \ c.out) \subseteq c.missing
CountRuns(c) == c.total = Len(c.pending)
CountRests(c) == c.total = 0 /\ c.out = {} /\ c.cursor = Len(c.pending)
CountIsSound(c) ==
    /\ CountShape(c) /\ EachOnce(c) /\ AllAccounted(c) /\ Cardinality(c.out) <= 3
    /\ CountRuns(c) \/ CountRests(c)
CountSound == CountIsSound(count)

LEMMA TakenIsFinite ==
  ASSUME NEW c, CountShape(c)
  PROVE  /\ Taken(c) \subseteq 1..Countable /\ IsFiniteSet(Taken(c)) /\ IsFiniteSet(1..Countable)
         /\ Taken(c) \subseteq ToSet(c.pending)
<1>1. IsFiniteSet(1..Countable)
  BY FS_Interval, ChaptersAssumption
<1>2. c.pending \in Seq(1..Countable) /\ c.cursor \in 0..Len(c.pending)
  BY DEF CountShape
<1>3. 1..c.cursor \subseteq 1..Len(c.pending) /\ DOMAIN c.pending = 1..Len(c.pending)
  BY <1>2
<1>4. Taken(c) \subseteq 1..Countable /\ Taken(c) \subseteq ToSet(c.pending)
  <2>1. \A i \in 1..c.cursor : c.pending[i] \in 1..Countable
    BY <1>2, <1>3, ElementOfSeq
  <2>2. Taken(c) \subseteq 1..Countable
    BY <2>1 DEF Taken
  <2>3. Taken(c) \subseteq ToSet(c.pending)
    BY <1>3 DEF Taken, ToSet
  <2> QED  BY <2>2, <2>3
<1> QED  BY <1>1, <1>4, FS_Subset

\* A worker takes the next.
LEMMA TakingKeeps ==
  ASSUME NEW c, CountShape(c), EachOnce(c), AllAccounted(c), CountRuns(c)
  PROVE  /\ CountShape(TakeNext(c)) /\ EachOnce(TakeNext(c)) /\ AllAccounted(TakeNext(c))
         /\ CountRuns(TakeNext(c))
         /\ Cardinality(TakeNext(c).out) <= Cardinality(c.out) + 1
         /\ TakeNext(c).missing = c.missing /\ TakeNext(c).pending = c.pending
<1> DEFINE k == c.cursor + 1
           x == c.pending[k]
           d == [c EXCEPT !.cursor = @ + 1, !.out = @ \cup {c.pending[c.cursor + 1]},
                          !.asked[c.pending[c.cursor + 1]] = @ + 1]
<1>0. IsFiniteSet(c.out) /\ Cardinality(c.out) \in Nat
  BY TakenIsFinite, FS_Subset, FS_CardinalityType DEF AllAccounted
<1>1. CASE c.cursor = c.total
  <2>1. TakeNext(c) = c
    BY <1>1 DEF TakeNext
  <2>2. Cardinality(c.out) <= Cardinality(c.out) + 1
    BY <1>0
  <2> QED  BY <2>1, <2>2
<1>2. CASE c.cursor # c.total
  <2>1. /\ c.pending \in Seq(1..Countable) /\ c.cursor \in 0..Len(c.pending)
        /\ c.total = Len(c.pending) /\ DOMAIN c = CountFields
    BY DEF CountShape, CountRuns
  <2>2. k \in 1..Len(c.pending) /\ x \in 1..Countable /\ k \in Nat /\ c.cursor \in Nat
    <3>1. Len(c.pending) \in Nat
      BY <2>1
    <3>2. k \in 1..Len(c.pending) /\ k \in Nat /\ c.cursor \in Nat
      BY <1>2, <2>1, <3>1
    <3> HIDE DEF k
    <3> QED  BY <2>1, <3>2, ElementOfSeq
  <2>3. TakeNext(c) = d
    BY <1>2 DEF TakeNext
  <2>4. /\ DOMAIN d = CountFields /\ d.missing = c.missing /\ d.pending = c.pending /\ d.cursor = k
        /\ d.total = c.total /\ d.done = c.done /\ d.failures = c.failures /\ d.out = c.out \cup {x}
        /\ d.asked = [c.asked EXCEPT ![x] = @ + 1]
    BY <2>1 DEF CountFields
  <2> HIDE DEF d
  <2>5. Taken(d) = Taken(c) \cup {x}
    <3>1. 1..k = (1..c.cursor) \cup {k}
      BY <2>2
    <3> QED  BY <2>4, <3>1 DEF Taken
  <2>6. x \notin Taken(c)
    <3>1. \A i \in 1..c.cursor : i \in 1..Len(c.pending) /\ i # k
      BY <2>1, <2>2
    <3> QED  BY <3>1, <2>2 DEF Taken, CountShape
  <2>7. x \in ToSet(c.pending)
    BY <2>1, <2>2 DEF ToSet
  <2> HIDE DEF k, x
  <2>8. CountShape(d) /\ CountRuns(d)
    BY <2>1, <2>2, <2>4 DEF CountShape, CountRuns
  <2>9. EachOnce(d)
    <3> SUFFICES ASSUME NEW y \in 1..Countable PROVE d.asked[y] = IF y \in Taken(d) THEN 1 ELSE 0
      BY DEF EachOnce
    <3>1. c.asked[y] = IF y \in Taken(c) THEN 1 ELSE 0
      BY DEF EachOnce
    <3>2. d.asked[y] = IF y = x THEN c.asked[y] + 1 ELSE c.asked[y]
      BY <2>4 DEF CountShape
    <3> QED  BY <3>1, <3>2, <2>5, <2>6
  <2>10. x \notin c.out
    BY <2>6 DEF AllAccounted
  <2>11. Cardinality(d.out) = Cardinality(c.out) + 1
    BY <1>0, <2>4, <2>10, FS_AddElement
  <2>12. Taken(d) \ d.out = Taken(c) \ c.out
    BY <2>4, <2>5, <2>6
  <2>13. c.done + Cardinality(c.out) = c.cursor /\ c.done \in Nat /\ c.out \subseteq Taken(c)
    BY DEF AllAccounted
  <2>14. d.done + Cardinality(d.out) = d.cursor
    BY <1>0, <2>2, <2>4, <2>11, <2>13 DEF k
  <2>15. AllAccounted(d)
    BY <2>4, <2>5, <2>12, <2>13, <2>14 DEF AllAccounted
  <2>16. Cardinality(d.out) <= Cardinality(c.out) + 1
    BY <1>0, <2>11
  <2> QED  BY <2>3, <2>4, <2>8, <2>9, <2>15, <2>16
<1> QED  BY <1>1, <1>2

\* After the last one it rests.
LEMMA SettlingKeeps ==
  ASSUME NEW c, CountShape(c), EachOnce(c), AllAccounted(c), CountRuns(c), Cardinality(c.out) <= 3
  PROVE  CountIsSound(Settled(c))
<1>1. CASE ~(c.out = {} /\ c.cursor = c.total)
  BY <1>1 DEF Settled, CountIsSound
<1>2. CASE c.out = {} /\ c.cursor = c.total
  <2> DEFINE d == [c EXCEPT !.total = 0]
  <2>1. Settled(c) = d
    BY <1>2 DEF Settled
  <2>2. /\ DOMAIN d = CountFields /\ d.missing = c.missing /\ d.pending = c.pending /\ d.cursor = c.cursor
        /\ d.total = 0 /\ d.done = c.done /\ d.failures = c.failures /\ d.out = c.out /\ d.asked = c.asked
    BY DEF CountShape, CountFields
  <2> HIDE DEF d
  <2>3. Taken(d) = Taken(c)
    BY <2>2 DEF Taken
  <2>4. CountShape(d)
    BY <2>2 DEF CountShape
  <2>5. EachOnce(d) /\ AllAccounted(d)
    BY <2>2, <2>3 DEF EachOnce, AllAccounted
  <2>6. CountRests(d)
    BY <1>2, <2>2 DEF CountRests, CountRuns
  <2> QED  BY <2>1, <2>2, <2>4, <2>5, <2>6 DEF CountIsSound
<1> QED  BY <1>1, <1>2

\* One of those out is answered, well or not, and the worker takes the next.
LEMMA CountAnswerKeeps ==
  ASSUME CountSound, NEW x, x \in count.out, NEW c, DOMAIN c = CountFields,
         c.pending = count.pending, c.cursor = count.cursor, c.total = count.total,
         c.out = count.out \ {x}, c.asked = count.asked, c.done = count.done + 1,
         IF c.failures = count.failures THEN c.missing = count.missing \ {x}
         ELSE c.missing = count.missing /\ c.failures = count.failures + 1
  PROVE  CountIsSound(Settled(TakeNext(c)))
<1>1. /\ CountShape(count) /\ EachOnce(count) /\ AllAccounted(count) /\ Cardinality(count.out) <= 3
      /\ CountRuns(count) \/ CountRests(count)
  BY DEF CountSound, CountIsSound
<1>2. CountRuns(count)
  BY <1>1 DEF CountRests
<1>3. /\ IsFiniteSet(Taken(count)) /\ IsFiniteSet(1..Countable) /\ count.out \subseteq Taken(count)
      /\ IsFiniteSet(count.out) /\ Cardinality(count.out) \in Nat /\ Taken(count) \subseteq ToSet(count.pending)
  BY <1>1, TakenIsFinite, FS_Subset, FS_CardinalityType DEF AllAccounted
<1>4. Taken(c) = Taken(count)
  BY DEF Taken
<1>5. Cardinality(c.out) = Cardinality(count.out) - 1 /\ Cardinality(c.out) \in Nat
  BY <1>3, FS_RemoveElement, FS_CardinalityType
<1>6. CountShape(c) /\ EachOnce(c) /\ CountRuns(c)
  <2>1. c.missing \subseteq 1..Countable
    BY <1>1 DEF CountShape
  <2> QED  BY <1>1, <1>2, <1>4, <2>1 DEF CountShape, EachOnce, CountRuns
<1> DEFINE F == (Taken(count) \ count.out) \cap count.missing
           G == (Taken(c) \ c.out) \cap c.missing
<1>7. IsFiniteSet(F) /\ Cardinality(F) \in Nat
  <2>1. F \subseteq Taken(count)
    OBVIOUS
  <2> HIDE DEF F
  <2> QED  BY <1>3, <2>1, FS_Subset, FS_CardinalityType
<1>8. x \in count.missing /\ x \in Taken(count) /\ x \in ToSet(count.pending)
  BY <1>1, <1>3 DEF AllAccounted
<1>9. c.failures = Cardinality(G)
  <2>1. count.failures = Cardinality(F)
    BY <1>1 DEF AllAccounted
  <2>2. CASE c.failures = count.failures
    <3>1. G = F
      BY <1>4, <2>2
    <3> QED  BY <2>1, <2>2, <3>1
  <2>3. CASE c.failures # count.failures
    <3>1. G = F \cup {x} /\ x \notin F
      BY <1>4, <1>8, <2>3
    <3> HIDE DEF F, G
    <3>2. Cardinality(F \cup {x}) = Cardinality(F) + 1
      BY <1>7, <3>1, FS_AddElement
    <3> QED  BY <2>1, <2>3, <3>1, <3>2
  <2> QED  BY <2>2, <2>3
<1>10. c.done \in Nat /\ c.done + Cardinality(c.out) = c.cursor
  BY <1>1, <1>3, <1>5 DEF AllAccounted
<1>11. ToSet(c.pending) \ (Taken(c) \ c.out) \subseteq c.missing
  BY <1>1, <1>3, <1>4, <1>8 DEF AllAccounted
<1>12. AllAccounted(c)
  BY <1>3, <1>4, <1>9, <1>10, <1>11 DEF AllAccounted
<1> HIDE DEF F, G
<1>13. /\ CountShape(TakeNext(c)) /\ EachOnce(TakeNext(c)) /\ AllAccounted(TakeNext(c))
       /\ CountRuns(TakeNext(c)) /\ Cardinality(TakeNext(c).out) <= Cardinality(c.out) + 1
  BY <1>6, <1>12, TakingKeeps
<1>14. Cardinality(TakeNext(c).out) <= 3
  <2>1. Cardinality(TakeNext(c).out) \in Nat
    BY <1>13, TakenIsFinite, FS_Subset, FS_CardinalityType DEF AllAccounted
  <2> QED  BY <1>1, <1>3, <1>5, <1>13, <2>1
<1> QED  BY <1>13, <1>14, SettlingKeeps


LEMMA CountInitially == ChaptersInit => CountSound
<1> SUFFICES ASSUME ChaptersInit PROVE CountSound
  OBVIOUS
<1>1. count = [missing |-> 1..Countable, pending |-> <<>>, cursor |-> 0, total |-> 0,
               done |-> 0, failures |-> 0,
               out |-> {}, asked |-> [c \in 1..Countable |-> 0], runs |-> 0]
  BY DEF ChaptersInit
<1>2. /\ DOMAIN count = CountFields /\ count.missing = 1..Countable /\ count.pending = <<>>
      /\ count.cursor = 0 /\ count.total = 0 /\ count.done = 0 /\ count.failures = 0 /\ count.out = {}
      /\ count.asked = [c \in 1..Countable |-> 0]
  BY <1>1 DEF CountFields
<1>3. Taken(count) = {}
  <2>1. 1..0 = {}
    OBVIOUS
  <2> QED  BY <1>2, <2>1 DEF Taken
<1>4. CountShape(count)
  BY <1>2 DEF CountShape
<1>5. EachOnce(count)
  BY <1>2, <1>3 DEF EachOnce
<1>6. AllAccounted(count)
  <2>1. Cardinality({}) = 0
    BY FS_EmptySet
  <2>2. ToSet(count.pending) = {}
    BY <1>2 DEF ToSet
  <2> QED  BY <1>2, <1>3, <2>1, <2>2 DEF AllAccounted
<1>7. Cardinality(count.out) <= 3
  BY <1>2, FS_EmptySet
<1>8. CountRuns(count)
  BY <1>2 DEF CountRuns
<1> QED  BY <1>4, <1>5, <1>6, <1>7, <1>8 DEF CountSound, CountIsSound

\* All that is not counted is lined up, and three workers begin.
LEMMA LoadingKeeps == ASSUME CountSound, LoadPageCounts PROVE CountSound'
<1> DEFINE list == Ascending(count.missing)
           b == [count EXCEPT !.pending = list, !.total = Len(list), !.cursor = 0, !.done = 0,
                              !.failures = 0, !.asked = [c \in DOMAIN @ |-> 0], !.runs = @ + 1]
<1>1. count' = TakeNext(TakeNext(TakeNext(b)))
  BY DEF LoadPageCounts, CountOnly
<1>2. /\ DOMAIN count = CountFields /\ count.missing \subseteq 1..Countable
      /\ DOMAIN count.asked = 1..Countable
      /\ CountRuns(count) \/ CountRests(count)
  BY DEF CountSound, CountIsSound, CountShape
<1>3. count.out = {}
  <2>1. ~(count.total > 0)
    BY DEF LoadPageCounts, Counting
  <2>2. CASE CountRests(count)
    BY <2>2 DEF CountRests
  <2>3. CASE CountRuns(count)
    <3>1. /\ count.pending \in Seq(1..Countable) /\ count.cursor \in 0..Len(count.pending)
          /\ count.out \subseteq Taken(count) /\ count.total = Len(count.pending)
      BY <2>3 DEF CountSound, CountIsSound, CountShape, AllAccounted, CountRuns
    <3>2. Len(count.pending) = 0
      <4>1. Len(count.pending) \in Nat
        BY <3>1
      <4> QED  BY <2>1, <3>1, <4>1
    <3>3. 1..count.cursor = {}
      BY <3>1, <3>2
    <3> QED  BY <3>1, <3>3 DEF Taken
  <2> QED  BY <1>2, <2>2, <2>3
<1>4. /\ DOMAIN b = CountFields /\ b.missing = count.missing /\ b.pending = list /\ b.cursor = 0
      /\ b.total = Len(list) /\ b.done = 0 /\ b.failures = 0 /\ b.out = {}
      /\ b.asked = [c \in 1..Countable |-> 0]
  <2> HIDE DEF list
  <2>1. /\ DOMAIN b = DOMAIN count /\ b.missing = count.missing /\ b.pending = list /\ b.cursor = 0
        /\ b.total = Len(list) /\ b.done = 0 /\ b.failures = 0 /\ b.out = count.out
    BY <1>2 DEF CountFields
  <2>2. b.asked = [c \in DOMAIN count.asked |-> 0]
    BY <1>2 DEF CountFields
  <2> HIDE DEF b
  <2>3. b.asked = [c \in 1..Countable |-> 0]
    BY <1>2, <2>2
  <2> QED  BY <1>2, <1>3, <2>1, <2>3
<1>5. /\ list \in Seq(count.missing) /\ ToSet(list) = count.missing
      /\ \A i, j \in 1..Len(list) : i # j => list[i] # list[j]
  <2>1. count.missing \in SUBSET Nat /\ IsFiniteSet(count.missing)
    <3>1. IsFiniteSet(1..Countable) /\ (1..Countable) \subseteq Nat
      <4>1. Countable \in Nat
        BY ChaptersAssumption
      <4>2. IsFiniteSet(1..Countable)
        BY <4>1, FS_Interval
      <4> QED  BY <4>1, <4>2
    <3> QED  BY <1>2, <3>1, FS_Subset
  <2> QED  BY <2>1, AscendingIs
<1> HIDE DEF list, b
<1>6. list \in Seq(1..Countable) /\ Len(list) \in Nat
  <2>1. Len(list) \in Nat /\ DOMAIN list = 1..Len(list)
    BY <1>5
  <2>2. \A i \in 1..Len(list) : list[i] \in 1..Countable
    BY <1>2, <1>5, ElementOfSeq
  <2>3. list \in [1..Len(list) -> 1..Countable]
    BY <1>5, <2>1, <2>2
  <2> DEFINE S == 1..Countable
  <2>4. list \in [1..Len(list) -> S]
    BY <2>3
  <2> HIDE DEF S
  <2>5. list \in Seq(S)
    BY <2>1, <2>4
  <2> QED  BY <2>1, <2>5 DEF S
<1>7. Taken(b) = {}
  <2>1. 1..0 = {}
    OBVIOUS
  <2> QED  BY <1>4, <2>1 DEF Taken
<1>8. CountShape(b) /\ CountRuns(b)
  <2>1. DOMAIN b.asked = 1..Countable
    BY <1>4
  <2>2. b.cursor \in 0..Len(b.pending)
    BY <1>4, <1>6
  <2>3. \A i, j \in 1..Len(b.pending) : i # j => b.pending[i] # b.pending[j]
    BY <1>4, <1>5, Zenon
  <2>4. b.pending \in Seq(1..Countable) /\ b.missing \subseteq 1..Countable /\ b.total = Len(b.pending)
    BY <1>2, <1>4, <1>6, Zenon
  <2> QED  BY <1>4, <2>1, <2>2, <2>3, <2>4, Zenon DEF CountShape, CountRuns
<1>9. EachOnce(b)
  BY <1>4, <1>7 DEF EachOnce
<1>10. AllAccounted(b)
  BY <1>4, <1>5, <1>7, FS_EmptySet DEF AllAccounted
<1>11. Cardinality(b.out) = 0
  BY <1>4, FS_EmptySet
<1> DEFINE c == TakeNext(b)
           d == TakeNext(c)
           e == TakeNext(d)
<1>12. /\ CountShape(c) /\ EachOnce(c) /\ AllAccounted(c) /\ CountRuns(c)
       /\ Cardinality(c.out) <= Cardinality(b.out) + 1
  BY <1>8, <1>9, <1>10, TakingKeeps
<1> HIDE DEF c
<1>13. /\ CountShape(d) /\ EachOnce(d) /\ AllAccounted(d) /\ CountRuns(d)
       /\ Cardinality(d.out) <= Cardinality(c.out) + 1
  BY <1>12, TakingKeeps
<1> HIDE DEF d
<1>14. /\ CountShape(e) /\ EachOnce(e) /\ AllAccounted(e) /\ CountRuns(e)
       /\ Cardinality(e.out) <= Cardinality(d.out) + 1
  BY <1>13, TakingKeeps
<1>15. count' = e
  BY <1>1 DEF c, d
<1> HIDE DEF e
<1>16. Cardinality(c.out) \in Nat /\ Cardinality(d.out) \in Nat /\ Cardinality(e.out) \in Nat
  <2>1. ASSUME NEW z, CountShape(z), AllAccounted(z) PROVE Cardinality(z.out) \in Nat
    BY <2>1, TakenIsFinite, FS_Subset, FS_CardinalityType DEF AllAccounted
  <2> QED  BY <2>1, <1>12, <1>13, <1>14
<1>17. Cardinality(e.out) <= 3
  BY <1>11, <1>12, <1>13, <1>14, <1>16
<1> QED  BY <1>14, <1>15, <1>17 DEF CountSound, CountIsSound

LEMMA CountedKeeps ==
  ASSUME CountSound, NEW x, PagesCounted(x) \/ PagesNotCounted(x)
  PROVE  CountSound'
<1>0. DOMAIN count = CountFields
  BY DEF CountSound, CountIsSound, CountShape
<1>1. CASE PagesCounted(x)
  <2> DEFINE c == [count EXCEPT !.out = @ \ {x}, !.missing = @ \ {x}, !.done = @ + 1]
  <2>1. x \in count.out /\ count' = Settled(TakeNext(c))
    BY <1>1 DEF PagesCounted, CountOnly
  <2>2. /\ DOMAIN c = CountFields /\ c.pending = count.pending /\ c.cursor = count.cursor
        /\ c.total = count.total /\ c.out = count.out \ {x} /\ c.asked = count.asked
        /\ c.done = count.done + 1 /\ c.missing = count.missing \ {x} /\ c.failures = count.failures
    BY <1>0 DEF CountFields
  <2> HIDE DEF c
  <2>3. CountIsSound(Settled(TakeNext(c)))
    BY <2>1, <2>2, CountAnswerKeeps
  <2> QED  BY <2>1, <2>3 DEF CountSound
<1>2. CASE PagesNotCounted(x)
  <2> DEFINE c == [count EXCEPT !.out = @ \ {x}, !.failures = @ + 1, !.done = @ + 1]
  <2>1. x \in count.out /\ count' = Settled(TakeNext(c))
    BY <1>2 DEF PagesNotCounted, CountOnly
  <2>2. /\ DOMAIN c = CountFields /\ c.pending = count.pending /\ c.cursor = count.cursor
        /\ c.total = count.total /\ c.out = count.out \ {x} /\ c.asked = count.asked
        /\ c.done = count.done + 1 /\ c.missing = count.missing /\ c.failures = count.failures + 1
    BY <1>0 DEF CountFields
  <2> HIDE DEF c
  <2>3. count.failures \in Nat
    <3>1. count.failures = Cardinality((Taken(count) \ count.out) \cap count.missing)
      BY DEF CountSound, CountIsSound, AllAccounted
    <3>2. IsFiniteSet(Taken(count))
      BY TakenIsFinite DEF CountSound, CountIsSound
    <3>3. IsFiniteSet((Taken(count) \ count.out) \cap count.missing)
      BY <3>2, FS_Subset
    <3> QED  BY <3>1, <3>3, FS_CardinalityType
  <2>4. IF c.failures = count.failures THEN c.missing = count.missing \ {x}
        ELSE c.missing = count.missing /\ c.failures = count.failures + 1
    BY <2>2, <2>3
  <2>5. CountIsSound(Settled(TakeNext(c)))
    BY <2>1, <2>2, <2>4, CountAnswerKeeps
  <2> QED  BY <2>1, <2>5 DEF CountSound
<1> QED  BY <1>1, <1>2

LEMMA CountSoundShows == CountSound => CountedOnce /\ (count.cursor <= count.total \/ count.total = 0)
<1> SUFFICES ASSUME CountSound PROVE CountedOnce /\ (count.cursor <= count.total \/ count.total = 0)
  OBVIOUS
<1>1. /\ CountShape(count) /\ EachOnce(count) /\ AllAccounted(count) /\ Cardinality(count.out) <= 3
      /\ CountRuns(count) \/ CountRests(count)
  BY DEF CountSound, CountIsSound
<1>2. count.pending \in Seq(1..Countable) /\ Len(count.pending) \in Nat /\ count.cursor \in 0..Len(count.pending)
  BY <1>1 DEF CountShape
<1>3. count.cursor <= count.total \/ count.total = 0
  BY <1>1, <1>2 DEF CountRuns, CountRests
<1>4. \A c \in 1..Countable : count.asked[c] <= 1
  BY <1>1 DEF EachOnce
<1>5. count.done + Cardinality(count.out) = count.cursor /\ count.done \in Nat
  BY <1>1 DEF AllAccounted
<1>6. ASSUME ~Counting
      PROVE  /\ count.done = Len(count.pending)
             /\ Cardinality(ToSet(count.pending) \cap count.missing) = count.failures
  <2>1. count.cursor = Len(count.pending)
    <3>1. CASE CountRests(count)
      BY <3>1 DEF CountRests
    <3>2. CASE CountRuns(count)
      BY <3>2, <1>2, <1>6 DEF CountRuns, Counting
    <3> QED  BY <1>1, <3>1, <3>2
  <2>2. count.out = {}
    <3>1. CASE CountRests(count)
      BY <3>1 DEF CountRests
    <3>2. CASE CountRuns(count)
      <4>1. Len(count.pending) = 0
        BY <3>2, <1>2, <1>6 DEF CountRuns, Counting
      <4>2. 1..count.cursor = {}
        BY <2>1, <4>1
      <4>3. Taken(count) = {}
        BY <4>2 DEF Taken
      <4> QED  BY <1>1, <4>3 DEF AllAccounted
    <3> QED  BY <1>1, <3>1, <3>2
  <2>3. Cardinality(count.out) = 0
    BY <2>2, FS_EmptySet
  <2>4. Taken(count) = ToSet(count.pending)
    BY <1>2, <2>1 DEF Taken, ToSet
  <2>5. (Taken(count) \ count.out) \cap count.missing = ToSet(count.pending) \cap count.missing
    BY <2>2, <2>4
  <2>6. count.failures = Cardinality(ToSet(count.pending) \cap count.missing)
    BY <1>1, <2>5 DEF AllAccounted
  <2>7. count.done = Len(count.pending)
    BY <1>2, <1>5, <2>1, <2>3
  <2> QED  BY <2>6, <2>7
<1> QED  BY <1>1, <1>3, <1>4, <1>5, <1>6 DEF CountedOnce


-----------------------------------------------------------------------------
(* Rows of one series are one.                                             *)

Joins(rows, f) ==
    [s \in SUBSET (DOMAIN rows) |-> IF s = {} THEN <<>> ELSE JoinSeries(f[s \ {Max(s)}], rows[Max(s)])]
Joining(rows) == CHOOSE f : f = Joins(rows, f)

LEMMA LibrarySeriesIsAFold == \A rows : LibrarySeries(rows) = Joining(rows)[DOMAIN rows]
BY Zenon DEF LibrarySeries, FoldLeft, MapThenFoldSet, Joining, Joins

LEMMA JoinStays ==
  ASSUME NEW T, NEW series \in Seq(T), NEW row \in T
  PROVE  JoinSeries(series, row) \in Seq(T)
<1> DEFINE same == {k \in DOMAIN series : series[k].key = row.key}
           k == CHOOSE i \in same : TRUE
<1>1. JoinSeries(series, row) \in {Append(series, row), [series EXCEPT ![k] = row], series}
  BY DEF JoinSeries
<1>2. Append(series, row) \in Seq(T)
  OBVIOUS
<1> HIDE DEF k
<1>3. [series EXCEPT ![k] = row] \in Seq(T)
  <2>1. series \in [1..Len(series) -> T] /\ Len(series) \in Nat
    OBVIOUS
  <2>2. [series EXCEPT ![k] = row] \in [1..Len(series) -> T]
    BY <2>1
  <2> QED  BY <2>1, <2>2
<1> QED  BY <1>1, <1>2, <1>3

LEMMA JoiningRecurs ==
  ASSUME NEW T, NEW rows \in Seq(T)
  PROVE  /\ Joining(rows)[{}] = <<>>
         /\ \A k \in 1..Len(rows) : Joining(rows)[1..k] = JoinSeries(Joining(rows)[1..(k - 1)], rows[k])
<1> DEFINE n == Len(rows)
           V == Seq(T)
           g == [p \in V \X (1..n) |-> JoinSeries(p[1], rows[p[2]])]
<1>1. n \in Nat /\ DOMAIN rows = 1..n /\ <<>> \in V /\ \A k \in 1..n : rows[k] \in T
  OBVIOUS
<1>2. ASSUME NEW s \in V, NEW k \in 1..n
      PROVE  /\ <<s, k>> \in V \X (1..n) /\ g[<<s, k>>] = JoinSeries(s, rows[k])
             /\ JoinSeries(s, rows[k]) \in V
  <2>1. <<s, k>> \in V \X (1..n) /\ g[<<s, k>>] = JoinSeries(s, rows[k])
    OBVIOUS
  <2>2. JoinSeries(s, rows[k]) \in V
    BY <1>1, JoinStays
  <2> QED  BY <2>1, <2>2
<1>3. g \in [V \X (1..n) -> V]
  <2>1. \A p \in V \X (1..n) : p[1] \in V /\ p[2] \in 1..n
    OBVIOUS
  <2>2. \A p \in V \X (1..n) : JoinSeries(p[1], rows[p[2]]) \in V
    BY <2>1, <1>2
  <2> QED  BY <2>2
<1> HIDE DEF n, V, g
<1>4. PICK f : IsFold(f, n, V, <<>>, g)
  <2>1. n \in 0..n
    BY <1>1
  <2> QED  BY <1>1, <1>3, <2>1, FoldsExist
<1>5. ASSUME NEW S \in SUBSET (1..n)
      PROVE  f[S] = IF S = {} THEN <<>> ELSE JoinSeries(f[S \ {Max(S)}], rows[Max(S)])
  <2>1. f[S] = IF S = {} THEN <<>> ELSE g[<<f[S \ {Max(S)}], Max(S)>>]
    BY <1>4 DEF IsFold
  <2>2. CASE S # {}
    <3>1. Max(S) \in 1..n /\ S \ {Max(S)} \in SUBSET (1..n)
      BY <1>1, <2>2, MaxIsOne
    <3>2. f[S \ {Max(S)}] \in V
      BY <1>4, <3>1 DEF IsFold
    <3> QED  BY <2>1, <2>2, <3>1, <3>2, <1>2
  <2> QED  BY <2>1, <2>2
<1>6. f = Joins(rows, f)
  <2>1. f = [S \in SUBSET (1..n) |-> f[S]]
    BY <1>4 DEF IsFold
  <2> QED  BY <1>1, <1>5, <2>1 DEF Joins
<1>7. Joining(rows) = Joins(rows, Joining(rows))
  BY <1>6, Zenon DEF Joining
<1> DEFINE h == Joining(rows)
<1> HIDE DEF h
<1>8. \A S \in SUBSET (1..n) : h[S] = IF S = {} THEN <<>> ELSE JoinSeries(h[S \ {Max(S)}], rows[Max(S)])
  BY <1>1, <1>7 DEF h, Joins
<1>9. h[{}] = <<>>
  BY <1>8
<1>10. ASSUME NEW k \in 1..n
       PROVE  h[1..k] = JoinSeries(h[1..(k - 1)], rows[k])
  <2>1. 1..k \in SUBSET (1..n) /\ k \in 1..k /\ k \in Nat
    BY <1>1
  <2>2. (1..k) \ {k} = 1..(k - 1) /\ 1..k # {}
    BY <2>1
  <2>3. Max(1..k) = k
    BY <2>1, MaxOfSome
  <2> QED  BY <1>8, <2>1, <2>2, <2>3
<1> QED  BY <1>9, <1>10 DEF h, n

\* The rows up to one are in the series there are.
SeriesOfFirst(series, rows, k) ==
    /\ series \in Seq(ToSet(rows))
    /\ \A i, j \in 1..Len(series) : i # j => series[i].key # series[j].key
    /\ \A i \in 1..k : \E j \in 1..Len(series) : series[j].key = rows[i].key
    /\ \A j \in 1..Len(series) :
          ReadsElsewhere(series[j]) \/ \A i \in 1..k : rows[i].key = series[j].key => ~ReadsElsewhere(rows[i])

LEMMA JoinKeeps ==
  ASSUME NEW rows, rows \in Seq(ToSet(rows)), NEW k \in 1..Len(rows),
         NEW series, SeriesOfFirst(series, rows, k - 1)
  PROVE  SeriesOfFirst(JoinSeries(series, rows[k]), rows, k)
<1> DEFINE T == ToSet(rows)
           row == rows[k]
           same == {i \in DOMAIN series : series[i].key = row.key}
           p == CHOOSE i \in same : TRUE
           n == Len(series)
<1>1. /\ series \in Seq(T) /\ n \in Nat /\ DOMAIN series = 1..n
      /\ \A i, j \in 1..n : i # j => series[i].key # series[j].key
      /\ \A i \in 1..(k - 1) : \E j \in 1..n : series[j].key = rows[i].key
      /\ \A j \in 1..n :
            ReadsElsewhere(series[j])
               \/ \A i \in 1..(k - 1) : rows[i].key = series[j].key => ~ReadsElsewhere(rows[i])
  <2>1. series \in Seq(T)
    BY Zenon DEF SeriesOfFirst
  <2> HIDE DEF T
  <2>2. n \in Nat /\ DOMAIN series = 1..n
    BY <2>1
  <2> QED  BY <2>1, <2>2, Zenon DEF SeriesOfFirst
<1>2. row \in T
  <2>1. k \in DOMAIN rows
    OBVIOUS
  <2> QED  BY <2>1 DEF ToSet
<1>3. JoinSeries(series, row) = IF same = {} THEN Append(series, row)
                                ELSE IF ReadsElsewhere(row) /\ ~ReadsElsewhere(series[p])
                                THEN [series EXCEPT ![p] = row] ELSE series
  BY DEF JoinSeries
<1>4. JoinSeries(series, row) \in Seq(T)
  BY <1>1, <1>2, JoinStays
<1>5. ASSUME NEW i \in 1..k PROVE i \in 1..(k - 1) \/ i = k
  OBVIOUS
<1>6. CASE same = {}
  <2> DEFINE b == Append(series, row)
  <2>1. \A j \in 1..n : series[j].key # row.key
    BY <1>1, <1>6
  <2>2. Len(b) = n + 1 /\ b[n + 1] = row /\ \A j \in 1..n : b[j] = series[j]
    BY <1>1, <1>2
  <2>3. \A j \in 1..(n + 1) : j \in 1..n \/ j = n + 1
    BY <1>1
  <2>4. n + 1 \in 1..(n + 1) /\ \A j \in 1..n : j \in 1..(n + 1) /\ j # n + 1
    BY <1>1
  <2> HIDE DEF b, row, n
  <2>5. \A i, j \in 1..(n + 1) : i # j => b[i].key # b[j].key
    BY <1>1, <2>1, <2>2, <2>3
  <2>6. \A i \in 1..k : \E j \in 1..(n + 1) : b[j].key = rows[i].key
    BY <1>1, <1>5, <2>2, <2>4 DEF row
  <2>7. ASSUME NEW j \in 1..(n + 1)
        PROVE  ReadsElsewhere(b[j])
                  \/ \A i \in 1..k : rows[i].key = b[j].key => ~ReadsElsewhere(rows[i])
    <3>1. CASE j \in 1..n
      <4>1. b[j] = series[j] /\ series[j].key # rows[k].key
        BY <2>1, <2>2, <3>1 DEF row
      <4> QED  BY <1>1, <1>5, <3>1, <4>1
    <3>2. CASE j = n + 1
      <4>1. \A i \in 1..(k - 1) : rows[i].key # row.key
        BY <1>1, <2>1
      <4> QED  BY <1>5, <2>2, <3>2, <4>1 DEF row
    <3> QED  BY <2>3, <3>1, <3>2
  <2>8. JoinSeries(series, row) = b
    BY <1>3, <1>6 DEF b
  <2> QED  BY <1>4, <2>2, <2>5, <2>6, <2>7, <2>8 DEF SeriesOfFirst, row
<1>7. CASE same # {}
  <2>1. p \in 1..n /\ series[p].key = row.key
    BY <1>1, <1>7
  <2> HIDE DEF p, n, same
  <2>2. CASE ReadsElsewhere(row) /\ ~ReadsElsewhere(series[p])
    <3> DEFINE b == [series EXCEPT ![p] = row]
    <3>1. Len(b) = n /\ b[p] = row /\ \A j \in 1..n : j # p => b[j] = series[j]
      BY <1>1, <2>1 DEF n
    <3> HIDE DEF b, row
    <3>2. \A j \in 1..n : b[j].key = series[j].key
      BY <2>1, <3>1
    <3>3. ASSUME NEW j \in 1..n
          PROVE  ReadsElsewhere(b[j])
                    \/ \A i \in 1..k : rows[i].key = b[j].key => ~ReadsElsewhere(rows[i])
      <4>1. CASE j = p
        BY <2>2, <3>1, <4>1
      <4>2. CASE j # p
        <5>1. b[j] = series[j] /\ series[j].key # rows[k].key
          BY <1>1, <2>1, <3>1, <4>2 DEF row
        <5> QED  BY <1>1, <1>5, <5>1
      <4> QED  BY <4>1, <4>2
    <3>4. \A i, j \in 1..n : i # j => b[i].key # b[j].key
      BY <1>1, <3>2
    <3>5. \A i \in 1..k : \E j \in 1..n : b[j].key = rows[i].key
      BY <1>1, <1>5, <2>1, <3>2 DEF row
    <3>6. JoinSeries(series, row) = b
      BY <1>3, <1>7, <2>2 DEF b
    <3> QED  BY <1>4, <3>1, <3>3, <3>4, <3>5, <3>6 DEF SeriesOfFirst, row
  <2>3. CASE ~(ReadsElsewhere(row) /\ ~ReadsElsewhere(series[p]))
    <3>1. JoinSeries(series, row) = series
      BY <1>3, <1>7, <2>3
    <3>2. \A i \in 1..k : \E j \in 1..n : series[j].key = rows[i].key
      BY <1>1, <1>5, <2>1
    <3> HIDE DEF row
    <3>3. ASSUME NEW j \in 1..n
          PROVE  ReadsElsewhere(series[j])
                    \/ \A i \in 1..k : rows[i].key = series[j].key => ~ReadsElsewhere(rows[i])
      <4>1. CASE j = p
        BY <1>1, <1>5, <2>1, <2>3, <4>1 DEF row
      <4>2. CASE j # p
        <5>1. series[j].key # rows[k].key
          BY <1>1, <2>1, <4>2 DEF row
        <5> QED  BY <1>1, <1>5, <5>1
      <4> QED  BY <4>1, <4>2
    <3> QED  BY <1>1, <3>1, <3>2, <3>3 DEF SeriesOfFirst, row, n
  <2> QED  BY <2>2, <2>3
<1> QED  BY <1>6, <1>7


LEMMA SeriesOfRows ==
  ASSUME NEW rows, rows \in Seq(ToSet(rows))
  PROVE  SeriesOfFirst(LibrarySeries(rows), rows, Len(rows))
<1> DEFINE n == Len(rows)
           h == Joining(rows)
           Right(k) == SeriesOfFirst(h[1..k], rows, k)
           Bad == {k \in 0..n : ~Right(k)}
<1>1. n \in Nat /\ DOMAIN rows = 1..n
  OBVIOUS
<1>2. h[{}] = <<>> /\ \A k \in 1..n : h[1..k] = JoinSeries(h[1..(k - 1)], rows[k])
  BY JoiningRecurs
<1>3. Right(0)
  <2>1. 1..0 = {}
    OBVIOUS
  <2>2. h[1..0] = <<>>
    BY <1>2, <2>1
  <2>3. <<>> \in Seq(ToSet(rows)) /\ 1..Len(<<>>) = {}
    OBVIOUS
  <2> HIDE DEF h
  <2> QED  BY <2>1, <2>2, <2>3 DEF SeriesOfFirst
<1> HIDE DEF h
<1>4. Bad = {}
  <2>1. SUFFICES ASSUME Bad # {} PROVE FALSE
    OBVIOUS
  <2>2. Bad \in SUBSET Nat
    BY <1>1
  <2>3. PICK k \in Bad : \A j \in Bad : k <= j
    <3> HIDE DEF Bad
    <3> QED  BY <2>1, <2>2, SmallestOf
  <2>4. k \in 0..n /\ ~Right(k)
    BY <2>3
  <2>5. k # 0
    BY <1>3, <2>4
  <2>6. k - 1 \in 0..n /\ k \in 1..n /\ ~(k <= k - 1)
    BY <1>1, <2>4, <2>5
  <2>7. k - 1 \notin Bad
    <3> HIDE DEF Bad
    <3> QED  BY <2>3, <2>6
  <2>8. Right(k - 1)
    BY <2>6, <2>7
  <2> HIDE DEF Bad
  <2>9. SeriesOfFirst(JoinSeries(h[1..(k - 1)], rows[k]), rows, k)
    BY <2>6, <2>8, JoinKeeps
  <2>10. Right(k)
    BY <1>2, <2>6, <2>9
  <2> QED  BY <2>4, <2>10
<1>5. n \in 0..n /\ Right(n)
  <2>1. n \in 0..n
    BY <1>1
  <2> QED  BY <1>4, <2>1
<1>6. LibrarySeries(rows) = h[1..n]
  BY <1>1, LibrarySeriesIsAFold DEF h
<1> QED  BY <1>5, <1>6

-----------------------------------------------------------------------------
(* A title on its way into the library.                                    *)

AddFields == {"at", "rows", "inLibrary", "unasked", "checking", "dialog", "about", "walks"}
AddIsSound(a) ==
    /\ DOMAIN a = AddFields /\ a.rows \in Seq(ToSet(a.rows))
    /\ \A t \in a.unasked : ~\E s \in ToSet(LibrarySeries(Others(a.rows, t))) : t \in s.resembles
AddSound == AddIsSound(add) /\ (doing = "nothing" => add.unasked = {} /\ add.checking = {})

LEMMA AddInitially == ChaptersInit => AddSound
<1> SUFFICES ASSUME ChaptersInit PROVE AddSound
  OBVIOUS
<1>1. add = [at |-> 1, rows |-> <<>>, inLibrary |-> {}, unasked |-> {}, checking |-> {},
             dialog |-> {}, about |-> 0, walks |-> 0]
  BY DEF ChaptersInit
<1>2. DOMAIN add = AddFields /\ add.rows = <<>> /\ add.unasked = {} /\ add.checking = {}
  BY <1>1 DEF AddFields
<1> QED  BY <1>2 DEF AddSound, AddIsSound

\* The check asks, unless nothing that is there looks like the title.
LEMMA AddKeeps ==
  ASSUME AddSound,
         \/ AddToLibrary \/ AddAnyway \/ CancelAdd \/ RemoveFromLibrary
         \/ \E loaded \in BOOLEAN : DuplicatesChecked(loaded)
         \/ \E t \in 1..2 : OpenInstead(t)
  PROVE  AddSound'
<1>1. /\ DOMAIN add = AddFields /\ add.rows \in Seq(ToSet(add.rows))
      /\ \A t \in add.unasked : ~\E s \in ToSet(LibrarySeries(Others(add.rows, t))) : t \in s.resembles
      /\ doing = "nothing" => add.unasked = {} /\ add.checking = {}
  BY DEF AddSound, AddIsSound
<1>2. ASSUME doing' = doing, DOMAIN add' = AddFields, add'.rows = add.rows,
             add'.unasked \subseteq add.unasked, doing = "adding" \/ add'.checking = add.checking
      PROVE  AddSound'
  BY <1>1, <1>2 DEF AddSound, AddIsSound
<1>3. CASE AddToLibrary \/ AddAnyway \/ CancelAdd \/ \E t \in 1..2 : OpenInstead(t)
  <2>1. /\ doing' = doing /\ DOMAIN add' = AddFields /\ add'.rows = add.rows /\ add'.unasked = add.unasked
        /\ doing = "adding" \/ add'.checking = add.checking
    BY <1>1, <1>3 DEF AddToLibrary, AddAnyway, CancelAdd, OpenInstead, AddOnly, AddFields
  <2> QED  BY <1>2, <2>1
<1>4. CASE RemoveFromLibrary
  <2>1. /\ doing' = doing /\ DOMAIN add' = AddFields /\ add'.rows = add.rows
        /\ add'.unasked = add.unasked \ {add.at} /\ doing = "adding"
    BY <1>1, <1>4 DEF RemoveFromLibrary, AddOnly, AddFields
  <2> QED  BY <1>2, <2>1
<1>5. ASSUME NEW loaded \in BOOLEAN, DuplicatesChecked(loaded) PROVE AddSound'
  <2> DEFINE title == CHOOSE t \in add.checking : TRUE
             found == IF loaded THEN Duplicates(title, add.rows) ELSE {}
             asked == [add EXCEPT !.checking = {}, !.dialog = found, !.about = title]
             went == [add EXCEPT !.checking = {}, !.inLibrary = @ \cup {title},
                                 !.unasked = @ \cup (IF loaded THEN {title} ELSE {})]
  <2>1. add' = (IF found = {} THEN went ELSE asked) /\ doing' = doing
    BY <1>5 DEF DuplicatesChecked, AddOnly
  <2>2. DOMAIN asked = AddFields /\ asked.rows = add.rows /\ asked.unasked = add.unasked /\ asked.checking = {}
    BY <1>1 DEF AddFields
  <2>3. /\ DOMAIN went = AddFields /\ went.rows = add.rows
        /\ went.unasked = add.unasked \cup (IF loaded THEN {title} ELSE {})
    BY <1>1 DEF AddFields
  <2>4. found = {} /\ loaded => ~\E s \in ToSet(LibrarySeries(Others(add.rows, title))) : title \in s.resembles
    BY DEF Duplicates
  <2>5. doing # "nothing"
    BY <1>1, <1>5 DEF DuplicatesChecked
  <2> HIDE DEF found, title, asked, went
  <2>6. CASE found # {}
    <3>1. add' = asked
      BY <2>1, <2>6
    <3>2. AddIsSound(add')
      BY <1>1, <2>2, <3>1 DEF AddIsSound
    <3> QED  BY <2>1, <2>5, <3>2 DEF AddSound
  <2>7. CASE found = {}
    <3>1. add' = went
      BY <2>1, <2>7
    <3>2. \A t \in add'.unasked : t \in add.unasked \/ (t = title /\ loaded)
      BY <2>3, <3>1
    <3>3. \A t \in add'.unasked : ~\E s \in ToSet(LibrarySeries(Others(add.rows, t))) : t \in s.resembles
      BY <1>1, <2>4, <2>7, <3>2
    <3>4. AddIsSound(add')
      BY <1>1, <2>3, <3>1, <3>3 DEF AddIsSound
    <3> QED  BY <2>1, <2>5, <3>4 DEF AddSound
  <2> QED  BY <2>6, <2>7
<1> QED  BY <1>3, <1>4, <1>5


LEMMA AddOpens == ASSUME AddSound, Open PROVE AddSound'
<1>1. /\ DOMAIN add = AddFields /\ add.rows \in Seq(ToSet(add.rows)) /\ add.unasked = {}
      /\ doing' # "nothing"
  BY DEF AddSound, AddIsSound, Open
<1>2. add' = add \/ \E rows \in Rows : add' = [add EXCEPT !.rows = rows]
  BY Zenon DEF Open
<1>3. CASE add' = add
  BY <1>1, <1>3 DEF AddSound, AddIsSound
<1>4. ASSUME NEW rows \in Rows, add' = [add EXCEPT !.rows = rows] PROVE AddSound'
  <2>1. DOMAIN add' = AddFields /\ add'.rows = rows /\ add'.unasked = {}
    BY <1>1, <1>4 DEF AddFields
  <2>2. rows \in Seq(ToSet(rows))
    BY ChaptersAssumption
  <2> QED  BY <1>1, <2>1, <2>2 DEF AddSound, AddIsSound
<1> QED  BY <1>2, <1>3, <1>4

LEMMA AddSoundShows == AddSound => AskedFirst
<1> SUFFICES ASSUME AddSound PROVE AskedFirst
  OBVIOUS
<1> DEFINE series == LibrarySeries(add.rows)
           n == Len(add.rows)
<1>1. /\ add.rows \in Seq(ToSet(add.rows))
      /\ \A t \in add.unasked : ~\E s \in ToSet(LibrarySeries(Others(add.rows, t))) : t \in s.resembles
  BY DEF AddSound, AddIsSound
<1>2. SeriesOfFirst(series, add.rows, n)
  BY <1>1, SeriesOfRows
<1>3. DOMAIN add.rows = 1..n /\ \A r \in ToSet(add.rows) : \E i \in 1..n : add.rows[i] = r
  <2>1. DOMAIN add.rows = 1..n
    BY <1>1
  <2> QED  BY <2>1 DEF ToSet
<1> HIDE DEF series, n
<1>4. /\ DOMAIN series = 1..Len(series)
      /\ \A i, j \in 1..Len(series) : i # j => series[i].key # series[j].key
      /\ \A i \in 1..n : \E j \in 1..Len(series) : series[j].key = add.rows[i].key
      /\ \A j \in 1..Len(series) :
            ReadsElsewhere(series[j])
               \/ \A i \in 1..n : add.rows[i].key = series[j].key => ~ReadsElsewhere(add.rows[i])
  <2>1. series \in Seq(ToSet(add.rows))
    BY <1>2, Zenon DEF SeriesOfFirst
  <2>2. DOMAIN series = 1..Len(series)
    BY <2>1
  <2> QED  BY <1>2, <2>2, Zenon DEF SeriesOfFirst
<1>5. ASSUME NEW r \in ToSet(add.rows)
      PROVE  Cardinality({k \in DOMAIN series : series[k].key = r.key}) = 1
  <2>1. PICK j \in 1..Len(series) : series[j].key = r.key
    BY <1>3, <1>4
  <2>2. {k \in DOMAIN series : series[k].key = r.key} = {j}
    BY <1>4, <2>1
  <2> QED  BY <2>2, FS_Singleton
<1>6. ASSUME NEW s \in ToSet(series)
      PROVE  ReadsElsewhere(s) \/ ~\E r \in ToSet(add.rows) : r.key = s.key /\ ReadsElsewhere(r)
  <2>1. PICK j \in 1..Len(series) : series[j] = s
    BY <1>4 DEF ToSet
  <2> QED  BY <1>3, <1>4, <2>1
<1> QED  BY <1>1, <1>5, <1>6 DEF AskedFirst, series

-----------------------------------------------------------------------------
(* The picker of a match.                                                  *)

MatchFields == {"title", "open", "results", "out", "bound", "late", "walks"}
MatchIsSound(m) ==
    /\ DOMAIN m = MatchFields /\ m.title \in 1..2 /\ m.late \in BOOLEAN /\ DOMAIN m.bound = 1..2
    /\ m.late \/ (m.results \subseteq {m.title} /\ \A t \in 1..2 : m.bound[t] \in {0, t})
MatchSound == MatchIsSound(match)

LEMMA MatchInitially == ChaptersInit => MatchSound
<1> SUFFICES ASSUME ChaptersInit PROVE MatchSound
  OBVIOUS
<1>1. match = [title |-> 1, open |-> FALSE, results |-> {}, out |-> {},
               bound |-> [t \in 1..2 |-> 0], late |-> FALSE, walks |-> 0]
  BY DEF ChaptersInit
<1>2. /\ DOMAIN match = MatchFields /\ match.title = 1 /\ match.late = FALSE /\ match.results = {}
      /\ match.bound = [t \in 1..2 |-> 0]
  BY <1>1 DEF MatchFields
<1>3. match.late \in BOOLEAN
  BY <1>2
<1>4. DOMAIN match.bound = 1..2 /\ \A t \in 1..2 : match.bound[t] \in {0, t}
  BY <1>2
<1>5. match.results \subseteq {match.title} /\ match.title \in 1..2 /\ DOMAIN match = MatchFields
  BY <1>2
<1> QED  BY <1>3, <1>4, <1>5 DEF MatchSound, MatchIsSound

\* What is bound is what was found for the title, and changes with it.
LEMMA MatchKeeps ==
  ASSUME MatchSound,
         \/ EnableTracking \/ ChooseMatch \/ DisableTracking \/ MatchAnother
         \/ \E t \in 1..2 : SearchAnswered(t) \/ SearchFailed(t)
  PROVE  MatchSound'
<1>1. /\ DOMAIN match = MatchFields /\ match.title \in 1..2 /\ match.late \in BOOLEAN /\ DOMAIN match.bound = 1..2
      /\ match.late \/ (match.results \subseteq {match.title} /\ \A t \in 1..2 : match.bound[t] \in {0, t})
  BY DEF MatchSound, MatchIsSound
<1>2. ASSUME EnableTracking PROVE MatchSound'
  <2> DEFINE a == [match EXCEPT !.open = TRUE]
             b == [a EXCEPT !.out = @ \cup {a.title}]
  <2>1. match' \in {a, b}
    BY <1>2 DEF EnableTracking, MatchOnly, RunSearch
  <2>2. /\ DOMAIN a = MatchFields /\ a.title = match.title /\ a.late = match.late
        /\ a.results = match.results /\ a.bound = match.bound
    BY <1>1 DEF MatchFields
  <2>3. /\ DOMAIN b = MatchFields /\ b.title = match.title /\ b.late = match.late
        /\ b.results = match.results /\ b.bound = match.bound
    BY <1>1, <2>2 DEF MatchFields
  <2> HIDE DEF a, b
  <2>4. /\ DOMAIN match' = MatchFields /\ match'.title = match.title /\ match'.late = match.late
        /\ match'.results = match.results /\ match'.bound = match.bound
    BY <2>1, <2>2, <2>3
  <2> QED  BY <1>1, <2>4 DEF MatchSound, MatchIsSound
<1>3. ASSUME ChooseMatch PROVE MatchSound'
  <2> DEFINE r == CHOOSE t \in match.results : TRUE
  <2>1. /\ match.results # {}
        /\ match' = [match EXCEPT !.bound[match.title] = r, !.open = FALSE]
    BY <1>3 DEF ChooseMatch, MatchOnly
  <2>2. r \in match.results
    BY <2>1
  <2> HIDE DEF r
  <2>3. /\ DOMAIN match' = MatchFields /\ match'.title = match.title /\ match'.late = match.late
        /\ match'.results = match.results /\ match'.bound = [match.bound EXCEPT ![match.title] = r]
    BY <1>1, <2>1 DEF MatchFields
  <2>4. match.late \/ r = match.title
    BY <1>1, <2>2
  <2>5. match.late \/ \A t \in 1..2 : match'.bound[t] \in {0, t}
    BY <1>1, <2>3, <2>4
  <2>6. DOMAIN match'.bound = 1..2
    BY <1>1, <2>3
  <2> QED  BY <1>1, <2>3, <2>5, <2>6 DEF MatchSound, MatchIsSound
<1>4. ASSUME DisableTracking PROVE MatchSound'
  <2>1. match' = [match EXCEPT !.bound[match.title] = 0]
    BY <1>4 DEF DisableTracking, MatchOnly
  <2>2. /\ DOMAIN match' = MatchFields /\ match'.title = match.title /\ match'.late = match.late
        /\ match'.results = match.results /\ match'.bound = [match.bound EXCEPT ![match.title] = 0]
    BY <1>1, <2>1 DEF MatchFields
  <2>3. match.late \/ \A t \in 1..2 : match'.bound[t] \in {0, t}
    BY <1>1, <2>2
  <2>4. DOMAIN match'.bound = 1..2
    BY <1>1, <2>2
  <2> QED  BY <1>1, <2>2, <2>3, <2>4 DEF MatchSound, MatchIsSound
<1>5. ASSUME MatchAnother PROVE MatchSound'
  <2>1. match' = [match EXCEPT !.title = 3 - @, !.open = FALSE, !.results = {}, !.walks = @ + 1]
    BY <1>5 DEF MatchAnother, MatchOnly
  <2>2. /\ DOMAIN match' = MatchFields /\ match'.title = 3 - match.title /\ match'.late = match.late
        /\ match'.results = {} /\ match'.bound = match.bound
    BY <1>1, <2>1 DEF MatchFields
  <2>3. match'.title \in 1..2
    BY <1>1, <2>2
  <2> QED  BY <1>1, <2>2, <2>3 DEF MatchSound, MatchIsSound
<1>6. ASSUME NEW t \in 1..2, SearchAnswered(t) PROVE MatchSound'
  <2>1. match' = [match EXCEPT !.out = @ \ {t}, !.results = {t}, !.late = @ \/ t # match.title]
    BY <1>6 DEF SearchAnswered, MatchOnly
  <2>2. /\ DOMAIN match' = MatchFields /\ match'.title = match.title
        /\ match'.results = {t} /\ match'.bound = match.bound
    BY <1>1, <2>1 DEF MatchFields
  <2>3. match'.late = (match.late \/ t # match.title)
    BY <1>1, <2>1, Zenon DEF MatchFields
  <2>4. match'.late \in BOOLEAN
    BY <2>3
  <2>5. match'.late \/ (match.late = FALSE /\ t = match.title)
    BY <1>1, <2>3
  <2> QED  BY <1>1, <2>2, <2>4, <2>5 DEF MatchSound, MatchIsSound
<1>7. ASSUME NEW t \in 1..2, SearchFailed(t) PROVE MatchSound'
  <2>1. match' = [match EXCEPT !.out = @ \ {t}, !.results = {}]
    BY <1>7 DEF SearchFailed, MatchOnly
  <2>2. /\ DOMAIN match' = MatchFields /\ match'.title = match.title /\ match'.late = match.late
        /\ match'.results = {} /\ match'.bound = match.bound
    BY <1>1, <2>1 DEF MatchFields
  <2> QED  BY <1>1, <2>2 DEF MatchSound, MatchIsSound
<1> QED  BY <1>2, <1>3, <1>4, <1>5, <1>6, <1>7

LEMMA MatchSoundShows == MatchSound => BoundToItsOwn
BY DEF MatchSound, MatchIsSound, BoundToItsOwn


-----------------------------------------------------------------------------
(* The title page whole: each step is one part's, and the others stay.     *)

Doings == {"nothing", "downloads", "view", "counting", "adding", "matching"}
ChaptersSound ==
    doing \in Doings /\ DownSound /\ ViewSound /\ CountSound /\ AddSound /\ MatchSound

LEMMA DownStays == ASSUME DownSound, UNCHANGED downVars PROVE DownSound'
<1>1. server' = server /\ screen' = screen /\ asks' = asks /\ ops' = ops /\ trouble' = trouble
  BY DEF downVars
<1>2. Waiting' = Waiting
  BY <1>1 DEF Waiting
<1>3. DownTyped'
  BY <1>1 DEF DownSound, DownTyped, IsServer, IsStatus, IsRows
<1>4. SeenIsShown' /\ LeavingIsNoticed'
  BY <1>1 DEF DownSound, SeenIsShown, LeavingIsNoticed, LeftIsKnown
<1>5. QueuedIsStarted'
  BY <1>1, <1>2 DEF DownSound, QueuedIsStarted
<1> QED  BY <1>3, <1>4, <1>5 DEF DownSound
LEMMA ViewStays == ASSUME ViewSound, view' = view PROVE ViewSound'
BY DEF ViewSound
LEMMA CountStays == ASSUME CountSound, count' = count PROVE CountSound'
BY DEF CountSound
LEMMA AddStays == ASSUME AddSound, add' = add, doing' = doing PROVE AddSound'
BY DEF AddSound
LEMMA MatchStays == ASSUME MatchSound, match' = match PROVE MatchSound'
BY DEF MatchSound

LEMMA ChaptersInitially == ChaptersInit => ChaptersSound
<1> SUFFICES ASSUME ChaptersInit PROVE ChaptersSound
  OBVIOUS
<1>1. doing \in Doings
  BY DEF ChaptersInit, Doings
<1> QED  BY <1>1, DownInitially, ViewInitially, CountInitially, AddInitially, MatchInitially DEF ChaptersSound

\* A step of the downloads.
LEMMA DownSteps ==
  ASSUME ChaptersSound,
         \/ Tick \/ \E q \in {"queue", "rows"} : ServerAnswers(q)
         \/ QueueArrives \/ RowsArrive \/ Turn
         \/ \E o \in ListOps \cup DiskOps : Send(o)
         \/ \E o \in ops : Succeeds(o) \/ Fails(o)
         \/ \E c \in Chapters : Download(c)
         \/ DownloaderRests
  PROVE  ChaptersSound'
<1>1. DownSound
  BY DEF ChaptersSound
<1>2. ASSUME Tick PROVE DownSound'
  BY <1>1, <1>2, AskingKeeps DEF Tick
<1>3. DownSound'
  BY <1>1, <1>2, ServerAnswersKeeps, QueueArrivesKeeps, RowsArriveKeeps, TurnKeeps, SendKeeps,
     SucceedsKeeps, FailsKeeps, DownloadKeeps, DownloaderRestsKeeps
<1>4. UNCHANGED <<doing, view, count, add, match>>
  BY DEF Tick, ServerAnswers, QueueArrives, RowsArrive, Turn, Send, Succeeds, Fails, Download, DownloaderRests
<1> QED  BY <1>3, <1>4, ViewStays, CountStays, AddStays, MatchStays DEF ChaptersSound

\* A step of the view.
LEMMA ViewSteps ==
  ASSUME ChaptersSound,
         \/ ViewAnswered \/ ViewRefetched \/ CycleFilter \/ SaveOrder \/ \E m \in 1..2 : WalkTo(m)
         \/ \E s \in {"all", "a", "b"} : ChooseScanlator(s)
         \/ \E w \in view.writes : ViewWritten(w)
  PROVE  ChaptersSound'
<1>1. ViewSound
  BY DEF ChaptersSound
<1>2. ViewSound'
  BY <1>1, ViewAnsweredKeeps, ViewRefetchedKeeps, ChoosingKeeps, WalkToKeeps, ViewWrittenKeeps
<1>3. UNCHANGED <<doing, downVars, count, add, match>>
  BY DEF ViewAnswered, ViewRefetched, CycleFilter, SaveOrder, WalkTo, ChooseScanlator, ViewWritten,
         WriteChapterView, ViewOnly
<1> QED  BY <1>2, <1>3, DownStays, CountStays, AddStays, MatchStays DEF ChaptersSound

\* A step of the counting.
LEMMA CountSteps ==
  ASSUME ChaptersSound,
         LoadPageCounts \/ \E c \in 1..Countable : PagesCounted(c) \/ PagesNotCounted(c)
  PROVE  ChaptersSound'
<1>1. CountSound
  BY DEF ChaptersSound
<1>2. CountSound'
  BY <1>1, LoadingKeeps, CountedKeeps
<1>3. UNCHANGED <<doing, downVars, view, add, match>>
  BY DEF LoadPageCounts, PagesCounted, PagesNotCounted, CountOnly
<1> QED  BY <1>2, <1>3, DownStays, ViewStays, AddStays, MatchStays DEF ChaptersSound

\* A step of the dialogs.
LEMMA DialogSteps ==
  ASSUME ChaptersSound,
         \/ AddToLibrary \/ AddAnyway \/ CancelAdd \/ RemoveFromLibrary
         \/ \E loaded \in BOOLEAN : DuplicatesChecked(loaded)
         \/ \E t \in 1..2 : OpenInstead(t)
  PROVE  ChaptersSound'
<1>1. AddSound'
  BY AddKeeps DEF ChaptersSound
<1>2. UNCHANGED <<doing, downVars, view, count, match>>
  BY DEF AddToLibrary, AddAnyway, CancelAdd, RemoveFromLibrary, DuplicatesChecked, OpenInstead, AddOnly
<1> QED  BY <1>1, <1>2, DownStays, ViewStays, CountStays, MatchStays DEF ChaptersSound

LEMMA MatchSteps ==
  ASSUME ChaptersSound,
         \/ EnableTracking \/ ChooseMatch \/ DisableTracking \/ MatchAnother
         \/ \E t \in 1..2 : SearchAnswered(t) \/ SearchFailed(t)
  PROVE  ChaptersSound'
<1>1. MatchSound'
  BY MatchKeeps DEF ChaptersSound
<1>2. UNCHANGED <<doing, downVars, view, count, add>>
  BY DEF EnableTracking, ChooseMatch, DisableTracking, MatchAnother, SearchAnswered, SearchFailed, MatchOnly
<1> QED  BY <1>1, <1>2, DownStays, ViewStays, CountStays, AddStays DEF ChaptersSound

LEMMA ChaptersStep == ASSUME ChaptersSound, ChaptersNext PROVE ChaptersSound'
<1>1. CASE Open
  <2>1. UNCHANGED <<downVars, count, match>> /\ doing' \in Doings
    BY <1>1 DEF Open, Doings
  <2>2. ViewSound' /\ AddSound'
    BY <1>1, ViewOpens, AddOpens DEF ChaptersSound
  <2> QED  BY <2>1, <2>2, DownStays, CountStays, MatchStays DEF ChaptersSound
<1> QED  BY <1>1, DownSteps, ViewSteps, CountSteps, DialogSteps, MatchSteps DEF ChaptersNext

LEMMA ChaptersSoundShows == ChaptersSound => ChaptersTypeOK /\ ChaptersAreTrue
<1> SUFFICES ASSUME ChaptersSound PROVE ChaptersTypeOK /\ ChaptersAreTrue
  OBVIOUS
<1>1. CountedOnce /\ (count.cursor <= count.total \/ count.total = 0)
  BY CountSoundShows DEF ChaptersSound
<1>2. server.failed \subseteq ToSet(server.queue) /\ screen.which \in {"list", "disk"}
  BY DEF ChaptersSound, DownSound, DownTyped
<1>3. view.now.filter \in {"all", "unread", "read", "bookmarked"} /\ view.now.order \in {"asc", "desc"}
  BY DEF ChaptersSound, ViewSound, ViewIsSound, IsView, IsChapterView
<1>4. ChaptersTypeOK
  BY <1>1, <1>2, <1>3 DEF ChaptersTypeOK, ChaptersSound, Doings
<1>5. DiskIsShown /\ QueuedIsStarted /\ ViewIsItsOwn /\ AskedFirst /\ BoundToItsOwn
  BY DownSoundShows, ViewSoundShows, AddSoundShows, MatchSoundShows DEF ChaptersSound, DownSound
<1> QED  BY <1>1, <1>4, <1>5 DEF ChaptersAreTrue


-----------------------------------------------------------------------------
(* The shelves: how they are arranged, and what is hidden on a visit.      *)

LookFields ==
    {"sort", "direction", "seed", "grouping", "shown", "hidden", "genres", "origins", "needle", "touched"}
LookTyped(l) ==
    DOMAIN l = LookFields /\ l.direction \in {"asc", "desc"} /\ l.grouping \in {"status", "category"}
HidesTyped(h) ==
    DOMAIN h = {"hidden", "restored", "writes", "wish"} /\ h.restored \cap DOMAIN h.hidden = {}
ShelvesSound ==
    looking \in {"nothing", "shelves", "recent", "titles"} /\ LookTyped(look) /\ HidesTyped(hides)

LEMMA ShelvesInitially == ShelvesInit => ShelvesSound
<1> SUFFICES ASSUME ShelvesInit PROVE ShelvesSound
  OBVIOUS
<1>1. looking = "nothing" /\ look = DefaultLook /\ hides = NoHides
  BY DEF ShelvesInit
<1>2. LookTyped(look)
  BY <1>1 DEF LookTyped, LookFields, DefaultLook
<1>3. HidesTyped(hides)
  BY <1>1 DEF HidesTyped, NoHides
<1> QED  BY <1>1, <1>2, <1>3 DEF ShelvesSound

\* The shelves are arranged, one thing at a time.
LEMMA TouchingKeeps ==
  ASSUME ShelvesSound, NEW new, LookTyped(new), Touch(new)
  PROVE  ShelvesSound'
<1> DEFINE l == [new EXCEPT !.touched = TRUE]
<1>1. look' = l /\ UNCHANGED <<looking, hides>>
  BY DEF Touch, Arrange
<1>2. DOMAIN l = DOMAIN new /\ l.direction = new.direction /\ l.grouping = new.grouping
  BY DEF LookTyped, LookFields
<1> HIDE DEF l
<1>3. LookTyped(look')
  BY <1>1, <1>2 DEF LookTyped
<1> QED  BY <1>1, <1>3 DEF ShelvesSound

LEMMA ArrangingKeeps ==
  ASSUME ShelvesSound,
         \/ \E order \in {"title", "added", "unread", "lastRead", "random"} : ChooseSort(order)
         \/ ChooseGrouping \/ ClearFilter
         \/ \E key \in {"Reading", "Other", "c1", "default"} : ToggleShelf(key)
         \/ ToggleGenre("action") \/ ToggleSource(11)
         \/ \E needle \in {"m", "nobody"} : Search(needle)
         \/ \E raw \in {<<"All">>, <<"Reading">>, <<"Gone", "Other">>} : ReviveShelves(raw)
  PROVE  ShelvesSound'
<1>1. DOMAIN look = LookFields /\ look.direction \in {"asc", "desc"} /\ look.grouping \in {"status", "category"}
  BY DEF ShelvesSound, LookTyped
<1>2. ASSUME NEW l, DOMAIN l = LookFields, l.direction \in {"asc", "desc"},
             l.grouping \in {"status", "category"}, look' = l, UNCHANGED <<looking, hides>>
      PROVE  ShelvesSound'
  BY <1>2 DEF ShelvesSound, LookTyped
<1>3. ASSUME NEW order, ChooseSort(order) PROVE ShelvesSound'
  <2> DEFINE s == [look EXCEPT !.sort = order, !.direction = "asc",
                               !.seed = IF look.sort = order THEN 1 - @ ELSE @]
             t == [look EXCEPT !.sort = order,
                               !.direction = IF look.sort # order THEN Natural(order)
                                             ELSE IF @ = "asc" THEN "desc" ELSE "asc"]
  <2>1. look' \in {s, t} /\ UNCHANGED <<looking, hides>>
    BY <1>3 DEF ChooseSort, Arrange
  <2>2. DOMAIN s = LookFields /\ s.direction = "asc" /\ s.grouping = look.grouping
    BY <1>1 DEF LookFields
  <2>3. /\ DOMAIN t = LookFields /\ t.grouping = look.grouping
        /\ t.direction = IF look.sort # order THEN Natural(order)
                         ELSE IF look.direction = "asc" THEN "desc" ELSE "asc"
    BY <1>1 DEF LookFields
  <2>4. t.direction \in {"asc", "desc"}
    BY <2>3 DEF Natural
  <2> HIDE DEF s, t
  <2> QED  BY <1>1, <1>2, <2>1, <2>2, <2>3, <2>4
<1>4. CASE ChooseGrouping
  <2> DEFINE new == [look EXCEPT !.grouping = "category"]
  <2>1. DOMAIN new = LookFields /\ new.direction = look.direction /\ new.grouping = "category"
    BY <1>1 DEF LookFields
  <2>2. Touch(new)
    BY <1>4 DEF ChooseGrouping
  <2> HIDE DEF new
  <2>3. LookTyped(new)
    BY <1>1, <2>1 DEF LookTyped
  <2> QED  BY <2>2, <2>3, TouchingKeeps
<1>5. CASE ClearFilter
  <2> DEFINE new == [look EXCEPT !.needle = "", !.genres = {}, !.origins = {}]
  <2>1. DOMAIN new = LookFields /\ new.direction = look.direction /\ new.grouping = look.grouping
    BY <1>1 DEF LookFields
  <2>2. look' = new /\ UNCHANGED <<looking, hides>>
    BY <1>5 DEF ClearFilter, Arrange
  <2> HIDE DEF new
  <2> QED  BY <1>1, <1>2, <2>1, <2>2
<1>6. ASSUME NEW key, ToggleShelf(key) PROVE ShelvesSound'
  <2> DEFINE hid == [look EXCEPT !.hidden = Toggled(@, key)]
             new == [look EXCEPT !.shown = Toggled(@, key)]
  <2>1. DOMAIN hid = LookFields /\ hid.direction = look.direction /\ hid.grouping = look.grouping
    BY <1>1 DEF LookFields
  <2>2. DOMAIN new = LookFields /\ new.direction = look.direction /\ new.grouping = look.grouping
    BY <1>1 DEF LookFields
  <2>3. (look' = hid /\ UNCHANGED <<looking, hides>>) \/ Touch(new)
    BY <1>6 DEF ToggleShelf, Arrange
  <2> HIDE DEF hid, new
  <2>4. LookTyped(new)
    BY <1>1, <2>2 DEF LookTyped
  <2> QED  BY <1>1, <1>2, <2>1, <2>3, <2>4, TouchingKeeps
<1>7. ASSUME NEW genre, ToggleGenre(genre) PROVE ShelvesSound'
  <2> DEFINE new == [look EXCEPT !.genres = Toggled(@, genre)]
  <2>1. DOMAIN new = LookFields /\ new.direction = look.direction /\ new.grouping = look.grouping
    BY <1>1 DEF LookFields
  <2>2. Touch(new)
    BY <1>7 DEF ToggleGenre
  <2> HIDE DEF new
  <2>3. LookTyped(new)
    BY <1>1, <2>1 DEF LookTyped
  <2> QED  BY <2>2, <2>3, TouchingKeeps
<1>8. ASSUME NEW s, ToggleSource(s) PROVE ShelvesSound'
  <2> DEFINE new == [look EXCEPT !.origins = Toggled(@, s)]
  <2>1. DOMAIN new = LookFields /\ new.direction = look.direction /\ new.grouping = look.grouping
    BY <1>1 DEF LookFields
  <2>2. Touch(new)
    BY <1>8 DEF ToggleSource
  <2> HIDE DEF new
  <2>3. LookTyped(new)
    BY <1>1, <2>1 DEF LookTyped
  <2> QED  BY <2>2, <2>3, TouchingKeeps
<1>9. ASSUME NEW needle, Search(needle) PROVE ShelvesSound'
  <2> DEFINE new == [look EXCEPT !.needle = needle]
  <2>1. DOMAIN new = LookFields /\ new.direction = look.direction /\ new.grouping = look.grouping
    BY <1>1 DEF LookFields
  <2>2. Touch(new)
    BY <1>9 DEF Search
  <2> HIDE DEF new
  <2>3. LookTyped(new)
    BY <1>1, <2>1 DEF LookTyped
  <2> QED  BY <2>2, <2>3, TouchingKeeps
<1>10. ASSUME NEW raw, ReviveShelves(raw) PROVE ShelvesSound'
  <2> DEFINE new == [look EXCEPT !.shown = ShelfFiltersFrom(raw)]
  <2>1. DOMAIN new = LookFields /\ new.direction = look.direction /\ new.grouping = look.grouping
    BY <1>1 DEF LookFields
  <2>2. Touch(new)
    BY <1>10 DEF ReviveShelves
  <2> HIDE DEF new
  <2>3. LookTyped(new)
    BY <1>1, <2>1 DEF LookTyped
  <2> QED  BY <2>2, <2>3, TouchingKeeps
<1> QED  BY <1>3, <1>4, <1>5, <1>6, <1>7, <1>8, <1>9, <1>10

\* A series that is put out of sight, or back, is one or the other.
LEMMA HidingKeeps ==
  ASSUME ShelvesSound,
         \/ UndoHiding \/ Revisit \/ \E key : HideSeries(key) \/ \E w : WriteArrives(w)
  PROVE  ShelvesSound'
<1>1. DOMAIN hides = {"hidden", "restored", "writes", "wish"} /\ hides.restored \cap DOMAIN hides.hidden = {}
  BY DEF ShelvesSound, HidesTyped
<1>2. ASSUME HidesTyped(hides'), UNCHANGED <<looking, look>> PROVE ShelvesSound'
  BY <1>2 DEF ShelvesSound
<1>3. CASE UndoHiding
  <2>1. DOMAIN hides' = DOMAIN hides /\ hides'.hidden = <<>> /\ UNCHANGED <<looking, look>>
    BY <1>1, <1>3 DEF UndoHiding
  <2>2. DOMAIN hides'.hidden = {}
    BY <2>1
  <2> QED  BY <1>1, <1>2, <2>1, <2>2 DEF HidesTyped
<1>4. CASE Revisit
  <2>1. DOMAIN hides' = DOMAIN hides /\ hides'.restored = {} /\ UNCHANGED <<looking, look>>
    BY <1>1, <1>4 DEF Revisit
  <2> QED  BY <1>1, <1>2, <2>1 DEF HidesTyped
<1>5. ASSUME NEW key, HideSeries(key) PROVE ShelvesSound'
  <2> DEFINE f == [k \in DOMAIN hides.hidden \cup {key} |-> IF k = key THEN SeriesOf(key) ELSE hides.hidden[k]]
  <2>1. /\ DOMAIN hides' = DOMAIN hides /\ hides'.hidden = f
        /\ hides'.restored = hides.restored \ {key} /\ UNCHANGED <<looking, look>>
    BY <1>1, <1>5 DEF HideSeries
  <2>2. DOMAIN f = DOMAIN hides.hidden \cup {key}
    OBVIOUS
  <2> HIDE DEF f
  <2> QED  BY <1>1, <1>2, <2>1, <2>2 DEF HidesTyped
<1>6. ASSUME NEW w, WriteArrives(w) PROVE ShelvesSound'
  <2>1. /\ DOMAIN hides' = DOMAIN hides /\ hides'.hidden = hides.hidden
        /\ hides'.restored = hides.restored /\ UNCHANGED <<looking, look>>
    BY <1>1, <1>6 DEF WriteArrives
  <2> QED  BY <1>1, <1>2, <2>1 DEF HidesTyped
<1> QED  BY <1>3, <1>4, <1>5, <1>6

LEMMA ShelvesStep == ASSUME ShelvesSound, ShelvesNext PROVE ShelvesSound'
<1>1. CASE Compare
  <2>1. looking' = "titles" /\ UNCHANGED <<look, hides>>
    BY <1>1 DEF Compare
  <2> QED  BY <2>1 DEF ShelvesSound
<1>2. ASSUME NEW l \in Shelved, LibraryComes(l) PROVE ShelvesSound'
  <2>1. looking' \in {"recent", "shelves"} /\ UNCHANGED <<look, hides>>
    BY <1>2 DEF LibraryComes
  <2> QED  BY <2>1 DEF ShelvesSound
<1>3. ASSUME NEW m, NEW c, ReadChapter(m, c) PROVE ShelvesSound'
  <2>1. UNCHANGED <<looking, look, hides>>
    BY <1>3 DEF ReadChapter
  <2> QED  BY <2>1 DEF ShelvesSound
<1> QED  BY <1>1, <1>2, <1>3, ArrangingKeeps, HidingKeeps DEF ShelvesNext

LEMMA ShelvesStay == ASSUME ShelvesSound, UNCHANGED shelfVars PROVE ShelvesSound'
BY DEF ShelvesSound, shelfVars

LEMMA ShelvesSoundShows == ShelvesSound => ShelvesTypeOK
BY DEF ShelvesSound, LookTyped, HidesTyped, ShelvesTypeOK


-----------------------------------------------------------------------------
(* The five parts, one at a time.                                          *)

ReadingSound ==
    /\ focus \in Parts
    /\ focus = "reader" => PlaceSound
    /\ GesturesSound /\ ShelvesSound /\ ChaptersSound

LEMMA ReadingInitially == ReadingInit => ReadingSound
BY PlaceInitially, GesturesInitially, ShelvesInitially, ChaptersInitially DEF ReadingInit, ReadingSound

\* One part moves, and it is the one that is looked at.
LEMMA OnePartMoves ==
  [ReadingNext]_readingVars =>
      /\ focus' = focus
      /\ focus = "reader" => [ReaderNext]_readerVars
      /\ [GestureNext]_gestureVars
      /\ ShelvesNext \/ UNCHANGED shelfVars
      /\ ChaptersNext \/ UNCHANGED chapterVars
<1> SUFFICES ASSUME [ReadingNext]_readingVars
             PROVE  /\ focus' = focus
                    /\ focus = "reader" => [ReaderNext]_readerVars
                    /\ [GestureNext]_gestureVars
                    /\ ShelvesNext \/ UNCHANGED shelfVars
                    /\ ChaptersNext \/ UNCHANGED chapterVars
  OBVIOUS
<1>1. CASE UNCHANGED readingVars
  BY <1>1 DEF readingVars
<1>2. CASE ReadingNext
  <2>1. focus' = focus
    BY <1>2 DEF ReadingNext
  <2>2. focus = "reader" => ReaderNext
    BY <1>2 DEF ReadingNext
  <2>3. IF focus = "gestures" THEN GestureNext ELSE UNCHANGED gestureVars
    BY <1>2 DEF ReadingNext
  <2>4. IF focus = "shelves" THEN ShelvesNext ELSE UNCHANGED shelfVars
    BY <1>2 DEF ReadingNext
  <2>5. IF focus = "list" THEN ChaptersNext ELSE UNCHANGED chapterVars
    BY <1>2 DEF ReadingNext
  <2> QED  BY <2>1, <2>2, <2>3, <2>4, <2>5
<1> QED  BY <1>1, <1>2

LEMMA ChaptersStay == ASSUME ChaptersSound, UNCHANGED chapterVars PROVE ChaptersSound'
<1>1. UNCHANGED <<doing, downVars, view, count, add, match>>
  BY DEF chapterVars
<1> QED  BY <1>1, DownStays, ViewStays, CountStays, AddStays, MatchStays DEF ChaptersSound

LEMMA ReadingStep == ReadingSound /\ [ReadingNext]_readingVars => ReadingSound'
<1> SUFFICES ASSUME ReadingSound, [ReadingNext]_readingVars PROVE ReadingSound'
  OBVIOUS
<1>1. /\ focus \in Parts
      /\ focus = "reader" => PlaceSound
      /\ GesturesSound /\ ShelvesSound /\ ChaptersSound
  BY DEF ReadingSound
<1>2. /\ focus' = focus
      /\ focus = "reader" => [ReaderNext]_readerVars
      /\ [GestureNext]_gestureVars
      /\ ShelvesNext \/ UNCHANGED shelfVars
      /\ ChaptersNext \/ UNCHANGED chapterVars
  BY OnePartMoves, Zenon
<1>3. ASSUME focus' = "reader" PROVE PlaceSound'
  <2>1. focus = "reader"
    BY <1>2, <1>3, Zenon
  <2>2. PlaceSound
    BY <1>1, <2>1, Zenon
  <2>3. [ReaderNext]_readerVars
    BY <1>2, <2>1, Zenon
  <2> QED  BY <2>2, <2>3, PlaceStep, Zenon
<1>4. GesturesSound'
  BY <1>1, <1>2, GesturesStep
<1>5. ShelvesSound'
  BY <1>1, <1>2, ShelvesStep, ShelvesStay
<1>6. ChaptersSound'
  BY <1>1, <1>2, ChaptersStep, ChaptersStay
<1> QED  BY <1>1, <1>2, <1>3, <1>4, <1>5, <1>6 DEF ReadingSound, Parts

LEMMA ReadingSoundHolds == ReadingSpec => []ReadingSound
BY ReadingInitially, ReadingStep, PTL DEF ReadingSpec

LEMMA PlaceSoundTyped == PlaceSound => WebReaderTypeOK
<1> SUFFICES ASSUME PlaceSound PROVE WebReaderTypeOK
  OBVIOUS
<1>1. SpreadFits
  BY SpreadIsOfPages
<1> QED  BY <1>1 DEF SpreadFits, PlaceSound, ReaderTyped, PagesKnown, WebReaderTypeOK

-----------------------------------------------------------------------------
(* Theorems.                                                               *)

\* Whatever moves, its variables hold what the code can put there: pages on
\* screen are the chapter's, keys are the bound ones, counts are in range.
THEOREM ReadingStaysTyped == ReadingSpec => []ReadingTypesOK
<1>1. ReadingSound => ReadingTypesOK
  <2> SUFFICES ASSUME ReadingSound PROVE ReadingTypesOK
    OBVIOUS
  <2>1. focus = "reader" => WebReaderTypeOK
    BY PlaceSoundTyped DEF ReadingSound
  <2>2. WebGesturesTypeOK /\ ShelvesTypeOK /\ ChaptersTypeOK
    BY ShelvesSoundShows, ChaptersSoundShows DEF ReadingSound, GesturesSound
  <2> QED  BY <2>1, <2>2 DEF ReadingTypesOK
<1> QED  BY <1>1, ReadingSoundHolds, PTL

\* One press means one thing, however fingers come and go and keys are bound;
\* and the list and the dialogs of a title's page stand for what there is.
THEOREM ShownAsItIs == ReadingSpec => []ShownRight
<1>1. ReadingSound => ShownRight
  BY GesturesMeanOneThing, ChaptersSoundShows DEF ReadingSound, ShownRight
<1> QED  BY <1>1, ReadingSoundHolds, PTL

\* Turning on skips no page; turning back skips none where pages are paired and
\* one at most where they are not (ReaderPage.tsx:1187); and what is reported as
\* read was on screen: for any chapters, wide pages, settings and windows.
THEOREM TurningIsSound == ReadingSpec => ReadsOn
<1>1. ReadingSound /\ ReadingSound' /\ [ReadingNext]_readingVars
        => [focus = "reader" => TurnsReadOn /\ ReportsWereSeen]_readingVars
  <2> SUFFICES ASSUME ReadingSound, ReadingSound', ReadingNext, focus = "reader"
               PROVE  TurnsReadOn /\ ReportsWereSeen
    OBVIOUS
  <2>1. ReaderNext /\ focus' = "reader"
    BY DEF ReadingNext
  <2>2. PlaceSound /\ PlaceSound'
    BY <2>1 DEF ReadingSound
  <2>3. [ReaderNext]_readerVars
    BY <2>1
  <2> QED  BY <2>1, <2>2, <2>3, TurningReadsOn, ReportedWasSeen
<1> QED  BY <1>1, ReadingSoundHolds, PTL DEF ReadingSpec, ReadsOn
=============================================================================
