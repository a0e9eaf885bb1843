------------------------------ MODULE ShellInput ------------------------------
(***************************************************************************)
(* The compositor's own keys (weft-compositor/src/input.rs): Alt+F4 closes *)
(* the focused application window and a tap on Super shows the shell.      *)
(* Every other key goes to the window with focus.                          *)
(*                                                                         *)
(* Several keyboards share the seat, so a key can be held twice.           *)
(***************************************************************************)
EXTENDS Naturals, FiniteSets

CONSTANTS
  Board,     \* keyboards
  Key,       \* key codes
  Super,     \* the Super keys
  Modifier,  \* Alt, Ctrl and Shift
  Alt,
  F4

NoKey == "none"
Button == "button"

VARIABLES
  pressed,     \* which keyboard holds which key
  suppressed,  \* suppressed_keys: how often each key is among them
  superTap,    \* super_tap
  kbFocus,     \* whose window has keyboard focus: "app", "panel" or "none"
  hasPanel,    \* whether a panel is mapped
  \* history
  forwarded,   \* of each key, presses delivered less releases delivered
  toApp,       \* keys of which an application got an event
  lastPress,   \* the last key, or button or touch, that went down
  bare         \* whether no modifier was held at that press

keyVars == <<pressed, suppressed, superTap, forwarded, toApp>>
inputVars == <<keyVars, lastPress, bare, kbFocus, hasPanel>>

TypeOK ==
  /\ pressed \subseteq Board \X Key
  /\ suppressed \in [Key -> Nat] /\ forwarded \in [Key -> Nat]
  /\ superTap \in Super \cup {NoKey}
  /\ kbFocus \in {"app", "panel", "none"} /\ hasPanel \in BOOLEAN
  /\ kbFocus = "panel" => hasPanel
  /\ toApp \subseteq Key
  /\ lastPress \in Key \cup {NoKey, Button} /\ bare \in BOOLEAN

Init ==
  /\ pressed = {} /\ suppressed = [k \in Key |-> 0] /\ superTap = NoKey
  /\ kbFocus = "none" /\ hasPanel = FALSE
  /\ forwarded = [k \in Key |-> 0] /\ toApp = {}
  /\ lastPress = NoKey /\ bare = FALSE

Down(k) == \E b \in Board : <<b, k>> \in pressed
Bare == \A m \in Modifier : ~Down(m)
More(keys, k) == [keys EXCEPT ![k] = @ + 1]
Less(keys, k) == [keys EXCEPT ![k] = @ - 1]

\* input_forward: the client with focus gets the event.
Forward(k, delivered) ==
  /\ forwarded' = delivered
  /\ toApp' = IF kbFocus = "app" THEN toApp \cup {k} ELSE toApp
  /\ UNCHANGED suppressed

\* A press the compositor takes; tap is the key that may become a tap.
Take(k, tap) ==
  /\ superTap' = tap
  /\ suppressed' = More(suppressed, k)
  /\ UNCHANGED <<forwarded, toApp>>

TapOf(k) == IF Bare THEN k ELSE NoKey
IsClose(k) == k = F4 /\ Down(Alt)

\* handle_keyboard, key_state Pressed: Alt+F4, Super, or any other key.
Press(b, k) ==
  /\ <<b, k>> \notin pressed
  /\ pressed' = pressed \cup {<<b, k>>}
  /\ \/ IsClose(k) /\ Take(k, NoKey)
     \/ k \in Super /\ Take(k, TapOf(k))
     \/ /\ k \notin Super /\ ~IsClose(k)
        /\ superTap' = NoKey
        /\ Forward(k, More(forwarded, k))
  /\ lastPress' = k /\ bare' = Bare
  /\ UNCHANGED <<kbFocus, hasPanel>>

\* A mutant: a release is taken if the key is one of the shortcuts'.
MutantTakenByKey(k) == k \in Super \/ IsClose(k)

\* A release is taken if a press of the key was.
Taken(k) == suppressed[k] > 0

\* handle_keyboard, Released: the end of a tap gives the panel focus and
\* forwards the tap to it, a press and a release.
Release(b, k) ==
  /\ <<b, k>> \in pressed
  /\ pressed' = pressed \ {<<b, k>>}
  /\ \/ /\ Taken(k)
        /\ suppressed' = Less(suppressed, k)
        /\ superTap' = NoKey
        /\ kbFocus' = IF superTap = k /\ hasPanel THEN "panel" ELSE kbFocus
        /\ UNCHANGED <<forwarded, toApp>>
     \/ /\ ~Taken(k)
        /\ Forward(k, Less(forwarded, k))
        /\ UNCHANGED <<superTap, kbFocus>>
  /\ UNCHANGED <<lastPress, bare, hasPanel>>

\* A mutant: a button does not end a tap.
MutantTapLasts ==
  /\ lastPress' = Button
  /\ kbFocus' \in {"app", "none"} \cup (IF hasPanel THEN {"panel"} ELSE {})
  /\ UNCHANGED <<keyVars, bare, hasPanel>>

\* A button press activates the window under the pointer, or clears focus.
ButtonPress ==
  /\ superTap' = NoKey /\ lastPress' = Button
  /\ kbFocus' \in {"app", "none"} \cup (IF hasPanel THEN {"panel"} ELSE {})
  /\ UNCHANGED <<pressed, suppressed, forwarded, toApp, bare, hasPanel>>

TouchDown ==
  /\ superTap' = NoKey /\ lastPress' = Button
  /\ UNCHANGED <<pressed, suppressed, forwarded, toApp, bare, kbFocus, hasPanel>>

\* Windows map, close and are activated meanwhile (WindowStack).
FocusMoves ==
  /\ hasPanel' \in BOOLEAN
  /\ kbFocus' \in {"app", "none"} \cup (IF hasPanel' THEN {"panel"} ELSE {})
  /\ UNCHANGED <<keyVars, lastPress, bare>>

Next ==
  \/ \E b \in Board, k \in Key : Press(b, k) \/ Release(b, k)
  \/ ButtonPress \/ TouchDown \/ FocusMoves

Spec == Init /\ [][Next]_inputVars

\* "No client sees half of a key": every press that is still held was either
\* taken or delivered, over any overlap of the keys of several keyboards, and
\* "Super's key events are never delivered to an application".
KeysAreWhole ==
  /\ \A k \in Key :
       suppressed[k] + forwarded[k]
         = Cardinality({b \in Board : <<b, k>> \in pressed})
  /\ toApp \cap Super = {}

\* Releasing a Super key shows the shell only if its press was "tapped alone,
\* without another key or a button": the last thing pressed, no modifier held.
TapIsAlone ==
  [][pressed' # pressed /\ kbFocus' # kbFocus =>
       /\ lastPress \in Super /\ bare
       /\ \E b \in Board : pressed \ pressed' = {<<b, lastPress>>}]_inputVars

ShortcutsAreWhole == []KeysAreWhole /\ TapIsAlone
=============================================================================
