----------------------------- MODULE DrmOutputs -----------------------------
(***************************************************************************)
(* The DRM devices of weft-compositor and their outputs (backend/drm.rs):  *)
(* devices found at the start or plugged in, their connectors scanned, an  *)
(* output made for each connector that gets a CRTC, all of it undone as    *)
(* monitors and devices go.  WindowStack has what a change of the outputs  *)
(* does to the windows.                                                    *)
(*                                                                         *)
(* The scanner (smithay) is external: it reports each connector that has   *)
(* changed once, the disconnected ones first, and gives a connector that   *)
(* is connected a free CRTC if there is one.  A device is reported added   *)
(* once.  Setting an output up may fail at any step; its wl_output global  *)
(* stays in any case, as it does when the output goes, and is left out, as *)
(* is a session that is paused: a device then refuses to draw.             *)
(***************************************************************************)
EXTENDS Naturals, FiniteSets

CONSTANTS
  Device,     \* DRM nodes
  Connector,  \* connectors of each device
  Crtc,       \* CRTCs of each device
  MaxOutputs  \* bound: outputs created

VARIABLES
  \* the hardware
  plugged,    \* the devices present
  monitors,   \* the connectors of each device with a monitor
  changed,    \* devices with a connector change not reported yet
  \* WeftDrmData
  devices,    \* the devices added
  scanner,    \* drm_scanner of each: the CRTC of each connector, "off", or
              \* "none" while it is connected without one
  surfaces,   \* the output on each CRTC of each device, NoOutput without one
  \* the rest
  outputs,    \* the outputs of the space
  made,       \* the number of outputs made
  drawn       \* the outputs with a frame queued for their next blank

hardware == <<plugged, monitors, changed>>
drm == <<devices, scanner, surfaces>>
space == <<outputs, made, drawn>>
drmVars == <<hardware, drm, space>>

NoOutput == 0
Output == 1 .. MaxOutputs
Assigned(d, c) == scanner[d][c] \in Crtc
Blank == [x \in Crtc |-> NoOutput]
Off == [c \in Connector |-> "off"]
On(d) == {surfaces[d][x] : x \in Crtc} \ {NoOutput}

TypeOK ==
  /\ plugged \subseteq Device /\ changed \subseteq plugged
  /\ monitors \in [Device -> SUBSET Connector]
  /\ devices \subseteq plugged
  /\ scanner \in [Device -> [Connector -> Crtc \cup {"off", "none"}]]
  /\ surfaces \in [Device -> [Crtc -> Output \cup {NoOutput}]]
  /\ made \in 0 .. MaxOutputs
  /\ outputs \subseteq 1 .. made
  /\ drawn \subseteq outputs

Init ==
  /\ plugged = {} /\ changed = {}
  /\ monitors = [d \in Device |-> {}]
  /\ devices = {}
  /\ scanner = [d \in Device |-> Off]
  /\ surfaces = [d \in Device |-> Blank]
  /\ outputs = {} /\ made = 0 /\ drawn = {}

(***************************************************************************)
(* The hardware.                                                           *)
(***************************************************************************)
Plug(d) ==
  /\ d \notin plugged /\ plugged' = plugged \cup {d}
  /\ UNCHANGED <<monitors, changed, drm, space>>

MonitorChanges(d, c) ==
  /\ d \in plugged
  /\ monitors' = [monitors EXCEPT ![d] = IF c \in @ THEN @ \ {c} ELSE @ \cup {c}]
  /\ changed' = changed \cup {d}
  /\ UNCHANGED <<plugged, drm, space>>

(***************************************************************************)
(* Connectors.                                                             *)
(***************************************************************************)
\* connector_disconnected, for a connector that had a CRTC: its output goes.
Removed(d, gone) ==
  [x \in Crtc |-> IF \E c \in gone : scanner[d][c] = x THEN NoOutput ELSE surfaces[d][x]]

\* The CRTCs the scan may leave the connectors of a device with.
Scans(d) ==
  LET stays == {c \in monitors[d] : Assigned(d, c)}
  IN  {crtcs \in [Connector -> Crtc \cup {"off", "none"}] :
         /\ \A c \in Connector : crtcs[c] = "off" <=> c \notin monitors[d]
         /\ \A c \in stays : crtcs[c] = scanner[d][c]
         /\ \A b, c \in monitors[d] : b # c /\ crtcs[b] = crtcs[c] => crtcs[c] = "none"
         /\ (\E c \in Connector : crtcs[c] = "none") => Crtc \subseteq {crtcs[c] : c \in Connector}}

\* connector_connected, for the connectors whose output could be set up: each
\* has a mode, a renderer, and passed initialize_output.
Lit(d, crtcs, lit) ==
  LET number == CHOOSE f \in [lit -> made + 1 .. made + Cardinality(lit)] :
                  \A b, c \in lit : b # c => f[b] # f[c]
  IN  [x \in Crtc |-> IF \E c \in lit : crtcs[c] = x
                      THEN number[CHOOSE c \in lit : crtcs[c] = x] ELSE NoOutput]

\* device_changed: every event of one scan is handled.
Changed(d, before, fresh) ==
  \E crtcs \in Scans(d) :
    LET gone == {c \in Connector : before[c] # "off" /\ c \notin monitors[d]}
        new == {c \in monitors[d] : before[c] = "off" /\ crtcs[c] \in Crtc}
        kept == IF fresh THEN Blank ELSE Removed(d, gone)
    IN  \E lit \in SUBSET new :
          LET on == Lit(d, crtcs, lit)
              count == Cardinality(lit)
          IN  /\ made + count <= MaxOutputs
              /\ scanner' = [scanner EXCEPT ![d] = crtcs]
              /\ surfaces' = [surfaces EXCEPT ![d] =
                   [x \in Crtc |-> IF on[x] # NoOutput THEN on[x] ELSE kept[x]]]
              /\ outputs' = (outputs \ (On(d) \ {kept[x] : x \in Crtc}))
                              \cup made + 1 .. made + count
              /\ drawn' \in {drawn \cap outputs', (drawn \cap outputs') \cup made + 1 .. made + count}
              /\ made' = made + count

(***************************************************************************)
(* Devices.                                                                *)
(***************************************************************************)
\* device_added, at the start or from udev: the device is opened and its
\* connectors scanned.
DeviceAdded(d) ==
  /\ d \in plugged \ devices
  /\ devices' = devices \cup {d}
  /\ changed' = changed \ {d}
  /\ Changed(d, Off, TRUE)
  /\ UNCHANGED <<plugged, monitors>>

\* udev Changed and device_changed.
DeviceChanged(d) ==
  /\ d \in changed /\ changed' = changed \ {d}
  /\ IF d \in devices
     THEN /\ Changed(d, scanner[d], FALSE)
          /\ UNCHANGED <<plugged, monitors, devices>>
     ELSE UNCHANGED <<plugged, monitors, drm, space>>

\* The scan failed: nothing is known of the change until the next one.
ScanFails(d) ==
  /\ d \in changed /\ changed' = changed \ {d}
  /\ UNCHANGED <<plugged, monitors, drm, space>>

\* A mutant: the outputs of a device that goes are left in the space.
MutantKeepsOutputs(d) ==
  /\ d \in plugged
  /\ plugged' = plugged \ {d} /\ changed' = changed \ {d}
  /\ monitors' = [monitors EXCEPT ![d] = {}]
  /\ devices' = devices \ {d}
  /\ scanner' = [scanner EXCEPT ![d] = Off]
  /\ surfaces' = [surfaces EXCEPT ![d] = Blank]
  /\ UNCHANGED space

\* device_removed, once the hardware is gone.
DeviceRemoved(d) ==
  /\ d \in plugged
  /\ plugged' = plugged \ {d} /\ changed' = changed \ {d}
  /\ monitors' = [monitors EXCEPT ![d] = {}]
  /\ devices' = devices \ {d}
  /\ scanner' = [scanner EXCEPT ![d] = Off]
  /\ surfaces' = [surfaces EXCEPT ![d] = Blank]
  /\ outputs' = outputs \ On(d) /\ drawn' = drawn \ On(d)
  /\ UNCHANGED made

\* render_output, on a vertical blank of a CRTC: a frame is drawn and queued,
\* or there is nothing new to draw, or the device refuses it.
RenderOutput(d, x) ==
  /\ surfaces[d][x] \in drawn
  /\ drawn' \in {drawn \ {surfaces[d][x]}} \cup {drawn}
  /\ UNCHANGED <<hardware, drm, outputs, made>>

Next ==
  \/ \E d \in Device :
       \/ Plug(d) \/ DeviceAdded(d) \/ DeviceChanged(d) \/ ScanFails(d) \/ DeviceRemoved(d)
       \/ \E c \in Connector : MonitorChanges(d, c)
       \/ \E x \in Crtc : RenderOutput(d, x)

Spec == Init /\ [][Next]_drmVars

\* The outputs windows are laid out on are exactly those on a CRTC of a device
\* that is there, each on one CRTC that the scanner gives to a connector, over
\* connectors and devices that come and go between scans, scans in which one
\* connector takes the CRTC of another, and outputs whose set-up fails.
OutputsBacked ==
  /\ outputs = UNION {On(d) : d \in devices}
  /\ \A d \in Device, x \in Crtc : surfaces[d][x] # NoOutput =>
       /\ \E c \in Connector : scanner[d][c] = x
       /\ \A e \in Device, y \in Crtc : surfaces[e][y] = surfaces[d][x] => e = d /\ y = x
=============================================================================
