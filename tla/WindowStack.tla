----------------------------- MODULE WindowStack -----------------------------
(***************************************************************************)
(* Stacking, focus and layout of the compositor's toplevel windows         *)
(* (weft-compositor/src/windows.rs), driven by the clients (state.rs), by  *)
(* weft-appd (appd_ipc.rs), by the pointer (input.rs) and by the outputs   *)
(* of the backends (backend/drm.rs, backend/winit.rs).                     *)
(*                                                                         *)
(* Geometry has one axis: the height of the output, and strips reserved at *)
(* its top and bottom; the other axis is treated alike.                    *)
(***************************************************************************)
EXTENDS Integers, Sequences

CONSTANTS
  Sid,      \* appd sessions
  Window,   \* toplevels of all clients
  Owner,    \* the session of each window's client, or Outside
  Outside,  \* a client of the display socket, such as the trusted shell
  NoWindow, \* not a window
  Output,   \* outputs
  Height,   \* their heights
  Zone,     \* strips a panel may reserve
  MaxLive,  \* bound: clients of one session, one after another
  MaxPanels \* bound: panels registered at a time; the shell registers one

ASSUME WindowAssumption ==
  /\ Outside \notin Sid /\ NoWindow \notin Window
  /\ Owner \in [Window -> Sid \cup {Outside}]
  /\ Height \in [Output -> Nat \ {0}]
  /\ Zone \subseteq [edge : {"top", "bottom"}, size : Nat \ {0}]
  /\ MaxLive \in Nat /\ MaxPanels \in Nat

\* No strip, and the geometry of a window never laid out.
NoZone == [edge |-> "none", size |-> 0]
NoGeo == [y |-> 0, h |-> 0]

VARIABLES
  stack,         \* space.elements: mapped windows, the topmost last
  focus,         \* the window with keyboard focus
  toplevels,     \* windows whose toplevel exists, mapped or not
  panels,        \* registered panels, in order of registration
  zone,          \* exclusive_zone of a panel
  outs,          \* space.outputs: connected outputs
  geo,           \* the geometry each window was last given
  attached,      \* sessions of WeftAppdIpc
  focusedOnMap,  \* focused_on_map
  \* history
  lives,         \* clients each session had
  took,          \* how often the session's present client took focus by mapping
  lostOutput     \* an output left with its device since the last layout

winVars == <<stack, focus, toplevels, geo, took>>
panelVars == <<panels, zone>>
sessionVars == <<attached, focusedOnMap, lives>>
vars == <<winVars, panelVars, outs, sessionVars, lostOutput>>

Elems(s) == {s[i] : i \in DOMAIN s}
Once(s) == \A i, j \in DOMAIN s : s[i] = s[j] => i = j
Mapped == Elems(stack)
IsPanel(w) == w \in Elems(panels)
Top(s) == IF s = <<>> THEN NoWindow ELSE s[Len(s)]

\* retain: the elements of s in T, in their order.
Only(s, T) ==
  LET f[n \in 0..Len(s)] ==
        IF n = 0 THEN <<>>
        ELSE IF s[n] \in T THEN Append(f[n - 1], s[n]) ELSE f[n - 1]
  IN  f[Len(s)]
Without(s, w) == Only(s, Elems(s) \ {w})
ToTop(s, w) == Append(Without(s, w), w)

Geometry == [y : Int, h : Nat]

TypeOK ==
  /\ stack \in Seq(Window) /\ Once(stack)
  /\ focus \in Window \cup {NoWindow}
  /\ toplevels \subseteq Window /\ Mapped \subseteq toplevels
  /\ panels \in Seq(Window) /\ Once(panels)
  /\ zone \in [Window -> Zone \cup {NoZone}]
  /\ outs \in Seq(Output)
  /\ geo \in [Window -> Geometry]
  /\ attached \subseteq Sid /\ focusedOnMap \subseteq attached
  /\ lives \in [Sid -> 0..MaxLive]
  /\ took \in [Sid -> Nat]
  /\ lostOutput \in BOOLEAN

Init ==
  /\ stack = <<>> /\ focus = NoWindow
  /\ toplevels = {}
  /\ panels = <<>> /\ zone = [w \in Window |-> NoZone]
  /\ outs = <<>>
  /\ geo = [w \in Window |-> NoGeo]
  /\ attached = {} /\ focusedOnMap = {}
  /\ lives = [s \in Sid |-> 0] /\ took = [s \in Sid |-> 0]
  /\ lostOutput = FALSE

(***************************************************************************)
(* Layout.                                                                 *)
(***************************************************************************)
Least(a, b) == IF a <= b THEN a ELSE b

\* One panel's strip is taken off the area.
Reserve(area, z) ==
  IF z = NoZone THEN area
  ELSE LET size == Least(z.size, area.h)
       IN  [y |-> IF z.edge = "top" THEN area.y + size ELSE area.y,
            h |-> area.h - size]

\* The strips the panels ps reserve, in order.
Strips(ps, z) == [i \in DOMAIN ps |-> z[ps[i]]]

\* work_area: an output of height h less the strips, in order, and never empty.
WorkArea(h, strips) ==
  LET left[n \in 0..Len(strips)] ==
        IF n = 0 THEN [y |-> 0, h |-> h] ELSE Reserve(left[n - 1], strips[n])
      area == left[Len(strips)]
  IN  [area EXCEPT !.h = IF @ = 0 THEN 1 ELSE @]

\* The geometry the layout gives window w on outputs os; windows keep theirs
\* while there is no output.
Placed(w, os, ps, z) ==
  IF os = <<>> THEN geo[w]
  ELSE IF w \in Elems(ps) THEN [y |-> 0, h |-> Height[os[1]]]
  ELSE WorkArea(Height[os[1]], Strips(ps, z))

\* place_windows: the windows of `order` are mapped again in that order.
PlaceWindows(order, os, ps, z) ==
  /\ stack' = order
  /\ geo' = [w \in Window |->
               IF w \in Elems(order) THEN Placed(w, os, ps, z) ELSE geo[w]]
  /\ lostOutput' = FALSE

\* lower_panels: panels beneath the applications.
LowerPanels(order, ps) ==
  Only(order, Elems(ps)) \o Only(order, Elems(order) \ Elems(ps))

\* Nothing slips under the window in front.
MutantStaysOnTop(order, w) == order

\* below_top: a window on top slips under the window that was on top.
BelowTop(order, w) ==
  IF Top(order) = w /\ Len(order) > 1
  THEN SubSeq(order, 1, Len(order) - 2)
         \o <<w, order[Len(order) - 1]>>
  ELSE order

(***************************************************************************)
(* Clients.                                                                *)
(***************************************************************************)
\* A session without a window may take focus again.
MutantFirstOfAll(w) == \A x \in Mapped : Owner[x] # Owner[w]

\* map_new_window: whether w may take focus.
First(w) ==
  IF Owner[w] = Outside
  THEN \A x \in Mapped : Owner[x] # Outside
  ELSE Owner[w] \in attached \ focusedOnMap

\* fit_panels with the windows of `order`: the panels go beneath, and a panel
\* that had focus hands it to the window now in front.
FitPanels(order, ps, z) ==
  LET lowered == LowerPanels(order, ps)
  IN  /\ PlaceWindows(lowered, outs, ps, z)
      /\ focus' = IF /\ focus \in Elems(ps)
                     /\ Top(lowered) # NoWindow /\ Top(lowered) \notin Elems(ps)
                  THEN Top(lowered) ELSE focus

\* new_toplevel: a client maps a window.
MapWindow(w) ==
  /\ w \notin toplevels
  /\ Owner[w] = Outside \/ Owner[w] \in attached
  /\ toplevels' = toplevels \cup {w}
  /\ focusedOnMap' = focusedOnMap \cup ({Owner[w]} \cap attached)
  /\ LET first == First(w)
         order == Append(stack, w) IN
       \/ /\ IsPanel(w)
          /\ FitPanels(order, panels, zone)
          /\ UNCHANGED took
       \/ /\ ~IsPanel(w) /\ first
          /\ PlaceWindows(order, outs, panels, zone)
          /\ focus' = w
          /\ took' = [s \in Sid |-> took[s] + IF s = Owner[w] THEN 1 ELSE 0]
       \/ /\ ~IsPanel(w) /\ ~first
          /\ PlaceWindows(BelowTop(order, w), outs, panels, zone)
          /\ UNCHANGED <<focus, took>>
  /\ UNCHANGED <<panelVars, outs, attached, lives>>

\* Who gets focus when a window of the stack rest has closed: the topmost
\* application window, or the lowest panel.
Heir(rest, ps) ==
  LET apps == {i \in DOMAIN rest : rest[i] \notin Elems(ps)}
  IN  IF apps # {} THEN rest[CHOOSE i \in apps : \A j \in apps : j <= i]
      ELSE IF rest # <<>> THEN rest[1] ELSE NoWindow

\* The heir gets focus where it is.
MutantClosedUnraised(w, ps) ==
  LET rest == Without(stack, w) IN
  /\ stack' = rest
  /\ focus' = IF w \in Mapped /\ focus \in {w, NoWindow}
              THEN Heir(rest, ps) ELSE focus

\* window_closed, with the panels ps: the stack, and the focus if w had it or
\* nothing had.
Closed(w, ps) ==
  LET rest == Without(stack, w)
      heir == Heir(rest, ps)
  IN  IF w \in Mapped /\ focus \in {w, NoWindow}
      THEN /\ stack' = IF heir = NoWindow THEN rest ELSE ToTop(rest, heir)
           /\ focus' = heir
      ELSE stack' = rest /\ UNCHANGED focus

\* toplevel_destroyed, by the client or because it is gone.
ToplevelDestroyed(w) ==
  /\ w \in toplevels
  /\ toplevels' = toplevels \ {w}
  /\ Closed(w, panels)
  /\ geo' = [geo EXCEPT ![w] = NoGeo]
  /\ UNCHANGED <<panelVars, outs, took, sessionVars, lostOutput>>

(***************************************************************************)
(* The trusted shell's panel.                                              *)
(***************************************************************************)
\* CreateWindow with the panel role, before or after its toplevel is mapped.
RegisterPanel(w) ==
  /\ Owner[w] = Outside /\ ~IsPanel(w) /\ Len(panels) < MaxPanels
  /\ panels' = Append(panels, w)
  /\ FitPanels(stack, panels', zone)
  /\ UNCHANGED <<zone, toplevels, took, outs, sessionVars>>

\* SetExclusiveZone of a panel.
SetZone(w, z) ==
  /\ IsPanel(w)
  /\ zone' = [zone EXCEPT ![w] = z]
  /\ PlaceWindows(stack, outs, panels, zone')
  /\ UNCHANGED <<focus, toplevels, took, panels, outs, sessionVars>>

\* A panel goes away: its window is unmapped, the strip released and the
\* windows laid out again.
PanelDestroyed(w) ==
  /\ IsPanel(w)
  /\ panels' = Without(panels, w)
  /\ zone' = [zone EXCEPT ![w] = NoZone]
  /\ Closed(w, panels')
  /\ geo' = [x \in Window |->
               IF x \in Elems(stack') THEN Placed(x, outs, panels', zone)
               ELSE IF x = w THEN NoGeo ELSE geo[x]]
  /\ lostOutput' = FALSE
  /\ UNCHANGED <<toplevels, took, outs, sessionVars>>

(***************************************************************************)
(* Activation.                                                             *)
(***************************************************************************)
\* activate_window: raised, activated and given keyboard focus.
Activate(w) == stack' = ToTop(stack, w) /\ focus' = w

\* Button press on a window, or where there is none.
Click ==
  /\ \/ \E w \in Mapped : Activate(w)
     \/ focus' = NoWindow /\ UNCHANGED stack
  /\ UNCHANGED <<toplevels, geo, took, panelVars, outs, sessionVars>>
  /\ UNCHANGED lostOutput

\* A tap on Super: the first panel that is mapped.
ActivatePanel ==
  /\ \E i \in DOMAIN panels :
       /\ panels[i] \in Mapped
       /\ \A j \in 1..(i - 1) : panels[j] \notin Mapped
       /\ Activate(panels[i])
  /\ UNCHANGED <<toplevels, geo, took, panelVars, outs, sessionVars>>
  /\ UNCHANGED lostOutput

\* AppFocusRequest: the topmost window of the session.
ActivateSession(s) ==
  /\ \E i \in DOMAIN stack :
       /\ Owner[stack[i]] = s
       /\ \A j \in DOMAIN stack : j > i => Owner[stack[j]] # s
       /\ Activate(stack[i])
  /\ UNCHANGED <<toplevels, geo, took, panelVars, outs, sessionVars>>
  /\ UNCHANGED lostOutput

(***************************************************************************)
(* Sessions: what CompositorLink binds and releases.                       *)
(***************************************************************************)
Attach(s) ==
  /\ s \notin attached /\ lives[s] < MaxLive
  /\ attached' = attached \cup {s}
  /\ lives' = [lives EXCEPT ![s] = @ + 1]
  /\ took' = [took EXCEPT ![s] = 0]
  /\ UNCHANGED <<stack, focus, toplevels, geo, panelVars, outs>>
  /\ UNCHANGED <<focusedOnMap, lostOutput>>

\* AppSurfaceDestroyed, the disconnection of the client or of appd: the
\* client is closed, and its toplevels go some time later.
Release(s) ==
  /\ s \in attached
  /\ attached' = attached \ {s}
  /\ focusedOnMap' = focusedOnMap \ {s}
  /\ UNCHANGED <<winVars, panelVars, outs, lives, lostOutput>>

(***************************************************************************)
(* Outputs.                                                                *)
(***************************************************************************)
NewOutputs(os) ==
  /\ outs' = os
  /\ PlaceWindows(stack, os, panels, zone)
  /\ UNCHANGED <<focus, toplevels, took, panelVars, sessionVars>>

\* connector_connected.
ConnectorConnected(o) ==
  /\ o \notin Elems(outs)
  /\ NewOutputs(Append(outs, o))

\* The windows are not laid out again.
MutantStaleLayout(o) ==
  /\ o \in Elems(outs)
  /\ outs' = Without(outs, o)
  /\ UNCHANGED <<winVars, panelVars, sessionVars, lostOutput>>

\* connector_disconnected.
ConnectorDisconnected(o) ==
  /\ o \in Elems(outs)
  /\ NewOutputs(Without(outs, o))

\* device_removed: the outputs of a device are unmapped with it.
DeviceRemoved(o) ==
  /\ o \in Elems(outs)
  /\ outs' = Without(outs, o)
  /\ lostOutput' = TRUE
  /\ UNCHANGED <<winVars, panelVars, sessionVars>>

\* The nested backend's window is resized: one output with a new mode.
Resized(o) ==
  /\ Len(outs) = 1 /\ outs # <<o>>
  /\ NewOutputs(<<o>>)

Next ==
  \/ \E w \in Window : MapWindow(w) \/ ToplevelDestroyed(w)
  \/ \E w \in Window : RegisterPanel(w) \/ PanelDestroyed(w)
  \/ \E w \in Window, z \in Zone \cup {NoZone} : SetZone(w, z)
  \/ Click \/ ActivatePanel
  \/ \E s \in Sid : ActivateSession(s) \/ Attach(s) \/ Release(s)
  \/ \E o \in Output : ConnectorConnected(o) \/ ConnectorDisconnected(o)
  \/ \E o \in Output : DeviceRemoved(o) \/ Resized(o)

Spec == Init /\ [][Next]_vars

(***************************************************************************)
(* Properties.                                                             *)
(***************************************************************************)
\* Keyboard focus is with a mapped window, and while panels come one at a time
\* it is the window in front: no order of mapping, closing and lowering
\* leaves a user typing into a window that something else covers.
FocusInFront ==
  focus # NoWindow =>
    /\ focus \in Mapped
    /\ MaxPanels <= 1 => focus = Top(stack)

\* "The first window a session maps in its lifetime": however the session's
\* client recreates its windows, it takes focus by mapping one once.
FocusTakenOnce == \A s \in Sid : took[s] <= 1

\* Every mapped window has the geometry of the present outputs and strips
\* ("application windows fill the work area"), except after an output left
\* with its device: device_removed lays nothing out.
LaidOut ==
  ~lostOutput /\ outs # <<>> =>
    \A w \in Mapped : geo[w] = Placed(w, outs, panels, zone)

Below(s, u, v) ==
  \E i, j \in DOMAIN s : i < j /\ s[i] = u /\ s[j] = v

\* Two windows change places only when the one that comes up is activated, or
\* one is a panel and goes down.
OrderStands ==
  \A u, v \in Window :
    Below(stack, u, v) /\ Below(stack', v, u) =>
      \/ u = focus' /\ u = Top(stack')
      \/ v \in Elems(panels') /\ u \notin Elems(panels')

\* A window that maps without taking focus does not cover an application
\* window in front, the shell's home included.
CoversNothing ==
  /\ \E w \in toplevels' \ toplevels : focus' # w
  /\ stack # <<>> /\ ~IsPanel(Top(stack))
  => Top(stack') = Top(stack)

\* "nothing else changes the order, and a window that maps without taking
\* focus goes beneath the window in front": no session moves its windows over
\* those of another.
StackingKept == [][OrderStands /\ CoversNothing]_vars
=============================================================================
