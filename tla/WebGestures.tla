----------------------------- MODULE WebGestures -----------------------------
(***************************************************************************)
(* Fingers and keys on the reader (pages/ReaderPage.tsx, utils/            *)
(* keybinds.ts).  The same touch may be a tap on a region, half of a       *)
(* double tap, a pan, a pinch or a swipe; the same key press is heard by   *)
(* the reader, by the scroller, by the options dialog and by the row that  *)
(* records a binding.                                                      *)
(***************************************************************************)
EXTENDS Naturals, FiniteSets

CONSTANTS
    Actions,      \* reader actions that may be bound
    Chords,       \* keys
    Defaults,     \* DEFAULT_KEYBINDS: the chords of each action
    Escape        \* the key that leaves, which may be bound as any other

Fingers == 1..2

ASSUME WebGesturesAssumption ==
    /\ Defaults \in [Actions -> SUBSET Chords]
    /\ \A a, b \in Actions : a # b => Defaults[a] \cap Defaults[b] = {}

VARIABLES
    down,         \* pointers: the fingers on the stage
    panned,
    swipe,        \* swipeStart: the finger a swipe began with, or 0
    pinching,     \* pinchStart
    zoomed,       \* zoom.scale # ZOOM_MIN
    lastTap,      \* a tap the next one would double
    click,        \* the region the browser is about to send a click to
    turns,        \* history: pages turned since the first finger came down
    dragged,      \* history: zoomed when it came down, and moved since
    optionsOpen, capturing,
    keybinds

pointerVars == <<down, panned, swipe, pinching, zoomed, lastTap, click, turns, dragged>>
keyVars == <<optionsOpen, capturing, keybinds>>
gestureVars == <<pointerVars, keyVars>>

Regions == {"turn", "panel", "none"}
NoAction == "nothing"

GestureInit ==
    /\ down = {} /\ panned = FALSE /\ swipe = 0 /\ pinching = FALSE
    /\ zoomed = FALSE /\ lastTap = FALSE /\ click = "none"
    /\ turns = 0 /\ dragged = FALSE
    /\ optionsOpen = FALSE /\ capturing = NoAction
    /\ keybinds = Defaults

-----------------------------------------------------------------------------
PointerDown(f) ==
    /\ f \notin down /\ click = "none"
    /\ down' = down \cup {f}
    /\ panned' = FALSE
    /\ swipe' = IF down = {} THEN f ELSE 0
    /\ pinching' = (Cardinality(down') = 2)
    /\ turns' = IF down = {} THEN 0 ELSE turns
    /\ dragged' = IF down = {} THEN FALSE ELSE dragged
    /\ UNCHANGED <<zoomed, lastTap, click, keyVars>>

\* Two fingers scale; one pans, once there is something to move.
PointerMove(far) ==
    /\ down # {}
    /\ IF pinching
       THEN panned' = TRUE /\ zoomed' \in BOOLEAN /\ dragged' = dragged
       ELSE /\ panned' = (panned \/ (zoomed /\ far))
            /\ dragged' = (dragged \/ (zoomed /\ far))
            /\ UNCHANGED zoomed
    /\ UNCHANGED <<down, swipe, pinching, lastTap, click, turns, keyVars>>

Swiped(f, far) == swipe = f /\ ~zoomed /\ down = {f} /\ far

\* A swipe turns and is no tap; a tap that follows one of its kind zooms,
\* unless it landed where taps turn pages.  The browser may send a click
\* after a finger that was alone, however far it travelled.
PointerUp(f, far, region) ==
    /\ f \in down
    /\ down' = down \ {f}
    /\ pinching' = FALSE
    /\ swipe' = IF swipe = f THEN 0 ELSE swipe
    /\ click' = IF swipe = f /\ down = {f} THEN region ELSE click
    /\ IF Swiped(f, far)
       THEN /\ turns' = turns + 1 /\ panned' = TRUE
            /\ UNCHANGED <<zoomed, lastTap>>
       ELSE /\ UNCHANGED <<turns, panned>>
            /\ IF panned \/ region = "turn" THEN UNCHANGED <<zoomed, lastTap>>
               ELSE \/ lastTap /\ lastTap' = FALSE /\ zoomed' = ~zoomed
                    \/ lastTap' = TRUE /\ UNCHANGED zoomed
    /\ UNCHANGED <<dragged, keyVars>>

\* Mutant: a click is a tap, whatever the finger did before it.
ClickAnyway ==
    /\ click # "none"
    /\ click' = "none"
    /\ turns' = IF click = "turn" THEN turns + 1 ELSE turns
    /\ UNCHANGED <<down, panned, swipe, pinching, zoomed, lastTap, dragged, keyVars>>

\* A click on a turn region turns, on the middle shows the panel, unless the
\* finger panned.
Click ==
    /\ click # "none"
    /\ click' = "none"
    /\ turns' = IF click = "turn" /\ ~panned THEN turns + 1 ELSE turns
    /\ UNCHANGED <<down, panned, swipe, pinching, zoomed, lastTap, dragged, keyVars>>

-----------------------------------------------------------------------------
Holders(k) == {a \in Actions : k \in keybinds[a]}

\* Mutant: bound where it is asked for, and nowhere unbound.
BindOver(binds, a, k) == [binds EXCEPT ![a] = @ \cup {k}]

\* bindChord: taken off the action that held it.
BindChord(binds, a, k) ==
    [b \in Actions |-> IF b = a THEN binds[b] \cup {k}
                       ELSE IF k \in binds[a] THEN binds[b] ELSE binds[b] \ {k}]

\* A listening row takes the key before anything else hears it.
Record(k) ==
    /\ capturing # NoAction
    /\ capturing' = NoAction
    /\ keybinds' = IF k = Escape THEN keybinds ELSE BindChord(keybinds, capturing, k)
    /\ UNCHANGED <<optionsOpen, pointerVars>>

\* The dialog holds the keyboard; Escape leaves it.
KeyInDialog(k) ==
    /\ capturing = NoAction /\ optionsOpen
    /\ optionsOpen' = (k # Escape)
    /\ UNCHANGED <<capturing, keybinds, pointerVars>>

\* What a key means: zoom and options are the reader's own state, a turn is
\* the same as any other.
KeyDown(k) ==
    /\ capturing = NoAction /\ ~optionsOpen
    /\ Holders(k) # {}
    /\ optionsOpen' = ("toggleOptions" \in Holders(k))
    /\ zoomed' = IF "zoomIn" \in Holders(k) THEN TRUE
                 ELSE IF "zoomReset" \in Holders(k) THEN FALSE ELSE zoomed
    /\ UNCHANGED <<down, panned, swipe, pinching, lastTap, click, turns, dragged,
                   capturing, keybinds>>

Listen(a) ==
    /\ optionsOpen
    /\ capturing' = IF capturing = a THEN NoAction ELSE a
    /\ UNCHANGED <<optionsOpen, keybinds, pointerVars>>

RemoveChord(a, k) ==
    /\ optionsOpen /\ k \in keybinds[a]
    /\ keybinds' = [keybinds EXCEPT ![a] = @ \ {k}]
    /\ UNCHANGED <<optionsOpen, capturing, pointerVars>>

ResetKeybinds ==
    /\ optionsOpen
    /\ capturing' = NoAction
    /\ keybinds' = Defaults
    /\ UNCHANGED <<optionsOpen, pointerVars>>

GestureNext ==
    \/ \E f \in Fingers :
          \/ PointerDown(f)
          \/ \E far \in BOOLEAN, region \in Regions : PointerUp(f, far, region)
    \/ \E far \in BOOLEAN : PointerMove(far)
    \/ Click
    \/ \E k \in Chords : Record(k) \/ KeyInDialog(k) \/ KeyDown(k)
    \/ \E a \in Actions :
          Listen(a) \/ \E k \in Chords : RemoveChord(a, k)
    \/ ResetKeybinds

GestureSpec == GestureInit /\ [][GestureNext]_gestureVars

-----------------------------------------------------------------------------
WebGesturesTypeOK ==
    /\ down \subseteq Fingers /\ swipe \in {0} \cup Fingers
    /\ {panned, pinching, zoomed, lastTap, dragged, optionsOpen} \subseteq BOOLEAN
    /\ click \in Regions /\ turns \in Nat
    /\ capturing \in Actions \cup {NoAction}
    /\ keybinds \in [Actions -> SUBSET Chords]

\* However fingers come and go, one gesture turns one page at most, and a
\* page dragged while it is zoomed is not turned (ReaderPage.tsx:1506, 2091);
\* and a key never means two things (keybinds.ts:181).
OneThingAtATime ==
    /\ turns <= 1
    /\ dragged /\ click # "none" => panned
    /\ \A k \in Chords : Cardinality(Holders(k)) <= 1
=============================================================================
