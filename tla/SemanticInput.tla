----------------------------- MODULE SemanticInput -----------------------------
(***************************************************************************)
(* The input shared by the games (src/games/shared/input): the semantic     *)
(* input that sources write to, and the sources as the pages use them: a    *)
(* key bound to a movement, a held action and a press; a button that is     *)
(* held; a button that is pressed; a stick. What is physically down is kept *)
(* beside what the input believes. The browser's part: a key event goes to  *)
(* where the focus is, none comes while the window is away; the pointer     *)
(* that a control claims is captured by it, and so is any touch that goes   *)
(* down on it; a captured pointer that goes up or is cancelled fires        *)
(* lostpointercapture on the control; and a click may follow at once.       *)
(***************************************************************************)
EXTENDS Naturals, FiniteSets

CONSTANTS
    Finger,         \* pointers
    NoFinger,
    MaxPresses      \* bound: presses asked for and not consumed

VARIABLES input,    \* the semantic input of a page
          parts,    \* the controls of the page: who owns them, what they remember
          user,     \* what is really down, where the focus is
          asked     \* presses the user made that no game has consumed and no reset forgotten:
                    \* at least those nothing interfered with, at most all of them

vars == <<input, parts, user, asked>>

Control == {"hold", "tap", "stick"}

NoInput == [moves |-> {}, held |-> {}, presses |-> 0]   \* sources of movement, of the action held

NoParts == [shown |-> TRUE, owner |-> [c \in Control |-> NoFinger], suppress |-> FALSE]

\* captured: the fingers whose control gets their events until they are lifted; alone: the finger
\* that has had the pressed button to itself since it went down on it.
Untouched ==
    [key |-> FALSE, focus |-> "page",
     on |-> [f \in Finger |-> "nothing"], captured |-> {}, alone |-> NoFinger]

NotAsked == [least |-> 0, most |-> 0]

Init == input = NoInput /\ parts = NoParts /\ user = Untouched /\ asked = NotAsked

-------------------------------------------------------------------------------
(***************************************************************************)
(* The writer.                                                             *)
(***************************************************************************)
SetMove(in, source, moves) == [in EXCEPT !.moves = IF moves THEN @ \cup {source} ELSE @ \ {source}]

SetAction(in, source, held) == [in EXCEPT !.held = IF held THEN @ \cup {source} ELSE @ \ {source}]

Pulse(in) == [in EXCEPT !.presses = @ + 1]

ClearMoveOnly(in, source) == [in EXCEPT !.moves = @ \ {source}]     \* mutant of ClearSource

ClearSource(in, source) == [in EXCEPT !.moves = @ \ {source}, !.held = @ \ {source}]

Room == asked.most < MaxPresses

Asked(sure, perhaps) ==
    [least |-> IF sure THEN asked.least + 1 ELSE asked.least,
     most |-> IF perhaps THEN asked.most + 1 ELSE asked.most]

-------------------------------------------------------------------------------
(***************************************************************************)
(* The key: attachKeyboardInput on the window, and a button with the focus. *)
(***************************************************************************)
KeyHeld(in) == SetAction(SetMove(in, "key", TRUE), "key", TRUE)

KeyDown ==
    /\ ~user.key /\ Room
    /\ user' = [user EXCEPT !.key = TRUE]
    /\ input' = CASE user.focus = "page" -> Pulse(KeyHeld(input))
                  [] user.focus = "hold" -> SetAction(input, "hold:keyboard", TRUE)
                  [] OTHER -> input
    /\ asked' = Asked(user.focus = "page", user.focus = "page")
    /\ UNCHANGED parts

\* A repeat holds again what a reset has let go, and presses nothing.
KeyRepeats ==
    /\ user.key
    /\ input' = CASE user.focus = "page" -> KeyHeld(input)
                  [] user.focus = "hold" -> SetAction(input, "hold:keyboard", TRUE)
                  [] OTHER -> input
    /\ UNCHANGED <<parts, user, asked>>

\* The window hears every release, wherever the focus is; a held button hears its own.
KeyUp ==
    /\ user.key
    /\ user' = [user EXCEPT !.key = FALSE]
    /\ input' = CASE user.focus = "away" -> input
                  [] user.focus = "hold" -> ClearSource(ClearSource(input, "hold:keyboard"), "key")
                  [] OTHER -> ClearSource(input, "key")
    /\ UNCHANGED <<parts, asked>>

\* Space or Enter on the pressed button: a click whose detail is 0, which is never suppressed.
KeyClick ==
    /\ user.focus = "tap" /\ Room
    /\ parts' = [parts EXCEPT !.suppress = FALSE]
    /\ input' = Pulse(input) /\ asked' = Asked(TRUE, TRUE)
    /\ UNCHANGED user

\* The focus moves inside the page; the held button lets go of its key.
MoveFocus(to) ==
    /\ user.focus \notin {"away", to} /\ (to = "page" \/ parts.shown)
    /\ user' = [user EXCEPT !.focus = to]
    /\ input' = IF user.focus = "hold" THEN ClearSource(input, "hold:keyboard") ELSE input
    /\ UNCHANGED <<parts, asked>>

\* attachInputResetLifecycle: the window loses the focus and is back.
WindowBlur ==
    /\ user.focus # "away"
    /\ user' = [user EXCEPT !.focus = "away"]
    /\ input' = NoInput /\ asked' = NotAsked
    /\ UNCHANGED parts

WindowFocus(to) ==
    /\ user.focus = "away" /\ (to = "page" \/ parts.shown)
    /\ user' = [user EXCEPT !.focus = to]
    /\ UNCHANGED <<input, parts, asked>>

\* The screen turns, the page is hidden, full screen begins or ends.
Reset ==
    /\ input' = NoInput /\ asked' = NotAsked
    /\ UNCHANGED <<parts, user>>

-------------------------------------------------------------------------------
(***************************************************************************)
(* Pointers: ActionButton in its two modes, DirectionalControl.            *)
(***************************************************************************)
Owns(f, c) == parts.owner[c] = f

\* A control that is owned ignores a finger, but the browser captures it if it is a touch.
PointerDown(f, c, touch) ==
    /\ user.on[f] = "nothing" /\ parts.shown
    /\ user' = [user EXCEPT !.on[f] = c,
                            !.captured = IF touch \/ Owns(NoFinger, c) THEN @ \cup {f} ELSE @,
                            !.alone = IF c # "tap" THEN @
                                      ELSE IF \E g \in Finger : user.on[g] = "tap" THEN NoFinger ELSE f]
    /\ IF ~Owns(NoFinger, c) THEN UNCHANGED <<input, parts>>
       ELSE /\ parts' = [parts EXCEPT !.owner[c] = f]
            /\ CASE c = "hold" -> input' = SetAction(input, "hold", TRUE)
                 [] c = "stick" -> \E beyond \in BOOLEAN : input' = SetMove(input, "stick", beyond)
                 [] OTHER -> UNCHANGED input
    /\ UNCHANGED asked

\* inside: over the button, or beyond the dead zone of the stick.
PointerMove(f, c, inside) ==
    /\ user.on[f] = c /\ Owns(f, c)
    /\ input' = CASE c = "hold" -> SetAction(input, "hold", inside)
                  [] c = "stick" -> SetMove(input, "stick", inside)
                  [] OTHER -> input
    /\ UNCHANGED <<parts, user, asked>>

Lifted(f) ==
    [user EXCEPT !.on[f] = "nothing", !.captured = @ \ {f}, !.alone = IF @ = f THEN NoFinger ELSE @]

\* The owner lets go; and whoever loses its capture makes the control let go of its owner.
LetsGo(f, c) == Owns(f, c) \/ (f \in user.captured /\ ~Owns(NoFinger, c))

ClickedAnyway(in, suppress) == Pulse(in)                            \* mutant of Clicked

\* A click that comes with a pointer presses the button unless the release has.
Clicked(in, suppress) == IF suppress THEN in ELSE Pulse(in)

\* pointerup, lostpointercapture, click. The owner's release inside presses the pressed button and
\* suppresses one click, be it its own or a later one. A click is the button's if the finger is
\* inside, or captured.
PointerUp(f, c, inside, click) ==
    LET onTap == c = "tap" /\ (inside \/ click)
        presses == c = "tap" /\ inside /\ Owns(f, c)
        suppress == parts.suppress \/ presses
        released == IF presses THEN Pulse(input) ELSE input
        left == IF LetsGo(f, c) THEN ClearSource(released, c) ELSE released
    IN  /\ user.on[f] = c
        /\ click => c = "tap" /\ (inside \/ f \in user.captured)
        /\ onTap => Room
        /\ user' = Lifted(f)
        /\ parts' = [parts EXCEPT !.owner[c] = IF LetsGo(f, c) THEN NoFinger ELSE @,
                                  !.suppress = suppress /\ ~click]
        /\ input' = IF click THEN Clicked(left, suppress) ELSE left
        /\ asked' = Asked(c = "tap" /\ inside /\ user.alone = f, onTap)

\* The browser takes the pointer away, and with it the capture.
PointerCancel(f, c) ==
    /\ user.on[f] = c
    /\ user' = Lifted(f)
    /\ IF ~LetsGo(f, c) THEN UNCHANGED <<input, parts>>
       ELSE /\ parts' = [parts EXCEPT !.owner[c] = NoFinger]
            /\ input' = ClearSource(input, c)
    /\ UNCHANGED asked

\* The page takes its controls off the screen, under whatever finger is on them, and puts up new ones.
HideControls ==
    /\ parts.shown
    /\ parts' = [NoParts EXCEPT !.shown = FALSE]
    /\ user' = [user EXCEPT !.focus = IF @ \in {"hold", "tap"} THEN "page" ELSE @,
                            !.on = [f \in Finger |-> "nothing"], !.captured = {}, !.alone = NoFinger]
    /\ input' = ClearSource(ClearSource(ClearSource(input, "hold"), "hold:keyboard"), "stick")
    /\ UNCHANGED asked

ShowControls ==
    /\ ~parts.shown
    /\ parts' = NoParts
    /\ UNCHANGED <<input, user, asked>>

\* The reader: a game takes one press in a frame.
ConsumePress ==
    /\ input.presses > 0
    /\ input' = [input EXCEPT !.presses = @ - 1]
    /\ asked' = [least |-> IF asked.least = 0 THEN 0 ELSE asked.least - 1, most |-> asked.most - 1]
    /\ UNCHANGED <<parts, user>>

Next ==
    \/ KeyDown \/ KeyRepeats \/ KeyUp \/ KeyClick
    \/ \E to \in {"page", "hold", "tap"} : MoveFocus(to) \/ WindowFocus(to)
    \/ WindowBlur \/ Reset \/ HideControls \/ ShowControls \/ ConsumePress
    \/ \E f \in Finger, c \in Control :
          \/ PointerCancel(f, c)
          \/ \E touch \in BOOLEAN : PointerDown(f, c, touch)
          \/ \E inside \in BOOLEAN : PointerMove(f, c, inside)
          \/ \E inside, click \in BOOLEAN : PointerUp(f, c, inside, click)

-------------------------------------------------------------------------------
\* Whatever the game takes as held is physically down at this moment, though keys are released while
\* the window is away, fingers slide off, the focus moves between buttons and the controls vanish
\* (semanticInput.ts:106-122, ActionButton.tsx:62-203, inputLifecycle.ts:8-28).
HeldIsDown ==
    /\ "key" \in input.held \cup input.moves => user.key
    /\ "hold:keyboard" \in input.held => user.key /\ user.focus = "hold"
    /\ \A c \in {"hold", "stick"} :
          c \in input.held \cup input.moves => \E f \in Finger : Owns(f, c) /\ user.on[f] = c

\* A press counts once, whatever came before it and whatever follows it: a finger that has the button
\* to itself and is lifted inside is not swallowed by an owner, or a flag, that an earlier gesture has
\* left behind; and no release counts a second time as the click that comes with it, not even when
\* several fingers take the button from each other (ActionButton.tsx:69-163, keyboardInput.ts:57-59).
EveryPressCountsOnce == asked.least <= input.presses /\ input.presses <= asked.most
================================================================================
