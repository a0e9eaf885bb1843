------------------------------- MODULE Parts -------------------------------
(***************************************************************************)
(* The parts of the system that meet no other part but at their edges, in  *)
(* one specification: each behaviour is one part's, the others stay as     *)
(* they began.                                                             *)
(***************************************************************************)
EXTENDS Naturals, Integers, Sequences, FiniteSets

CONSTANTS
  Board, Key, Super, Modifier, Alt, F4,                      \* ShellInput
  MaxPending,                                                \* AppShell
  MaxUp, MaxDown, Kind, QueueRoom, SocketRoom, TellRoom, SendRoom,  \* AppRelay
  File, Grant, Conn, MaxConnections, MaxWrites, MaxLives,    \* FilePortal
  Helper, Point, Image, MaxDevices,                          \* ImageMounts
  Device, Connector, Crtc, MaxOutputs,                       \* DrmOutputs
  Fingers, MinFingers, Threshold, MaxSwipes, MaxAppds,       \* SystemShell
  App, MaxOpen,                                              \* SessionRestore
  Launcher,                                                  \* AppData
  Host, Address, MaxDeclared,                                \* SessionGrants
  Memory, MaxMemory, OwnMaximum, MaxOutput, PipeRoom, MaxWritten  \* RuntimeHost

VARIABLE part  \* the part that moves

\* ShellInput
VARIABLES pressed, suppressed, superTap, kbFocus, hasPanel, forwarded, toApp, lastPress, bare
\* AppShell
VARIABLES supervisor, cancelled, orders, lost, closes, stdout, shell, asks, deadline,
          answer, pageClosed, frame, presenting, ready, stale
\* AppRelay
VARIABLES unsent, bridge, wsUp, wsDown, session, told, held, toComponent, relay, incoming,
          writing, joined, downstream, upstream, alive, received, sending, sent, got
\* FilePortal
VARIABLES life, next, conn, entry, onDisk, temporary, whole, flushed
\* ImageMounts
VARIABLES present, device, mounted, lock, helper, names, orphaned
\* DrmOutputs
VARIABLES plugged, monitors, changed, devices, scanner, surfaces, outputs, made, drawn
\* SystemShell
VARIABLES gesture, panel, appd, wsport, systoken, clients, system, events, batch, token,
          endpoint, page, swipe, full, unwritten, broadcast
\* SessionRestore
VARIABLES phase, file, saved, todo, running, stopping, asked, open, touched, gone
\* AppData
VARIABLES package, legacy, target, movable, oneDisk, launch, packer, before
\* SessionGrants
VARIABLES declared, dataPath, documents, stage, grants, prepared, runtime, portal
\* RuntimeHost
VARIABLES used, size, failed, call, program, written, pipe, reader, reading

inputVars == <<pressed, suppressed, superTap, kbFocus, hasPanel, forwarded, toApp,
               lastPress, bare>>
shellVars == <<supervisor, cancelled, orders, lost, closes, stdout, shell, asks,
               deadline, answer, pageClosed, frame, presenting, ready, stale>>
relayVars == <<unsent, bridge, wsUp, wsDown, session, told, held, toComponent, relay,
               incoming, writing, joined, downstream, upstream, alive, received, sending,
               sent, got>>
portalVars == <<life, next, conn, entry, onDisk, temporary, whole, flushed>>
mountVars == <<present, device, mounted, lock, helper, names, orphaned>>
drmVars == <<plugged, monitors, changed, devices, scanner, surfaces, outputs, made,
             drawn>>
systemVars == <<gesture, panel, appd, wsport, systoken, clients, system, events, batch,
                token, endpoint, page, swipe, full, unwritten, broadcast>>
restoreVars == <<phase, file, saved, todo, running, stopping, asked, open, touched, gone>>
dataVars == <<package, legacy, target, movable, oneDisk, launch, packer, before>>
grantVars == <<declared, dataPath, documents, stage, grants, prepared, runtime, portal>>
hostVars == <<used, size, failed, call, program, written, pipe, reader, reading>>

Input == INSTANCE ShellInput
Shell == INSTANCE AppShell
Relay == INSTANCE AppRelay
Files == INSTANCE FilePortal
Mounts == INSTANCE ImageMounts
Outputs == INSTANCE DrmOutputs
System == INSTANCE SystemShell
Restore == INSTANCE SessionRestore
Data == INSTANCE AppData
Grants == INSTANCE SessionGrants
Calls == INSTANCE RuntimeHost

ASSUME PartsAssumption ==
  /\ IsFiniteSet(Board) /\ Input!NoKey \notin Key
  /\ IsFiniteSet(Point) /\ MaxDevices \in Nat
  /\ Mounts!Nothing \notin Point \cup Image \cup Helper
  /\ IsFiniteSet(Connector) /\ {"off", "none"} \cap Crtc = {}
  /\ MaxOpen \in Nat
  /\ IsFiniteSet(Memory) /\ MaxMemory \in Nat /\ MaxOutput \in Nat

Others(p) ==
  /\ IF p = "input" THEN TRUE ELSE UNCHANGED inputVars
  /\ IF p = "shell" THEN TRUE ELSE UNCHANGED shellVars
  /\ IF p = "relay" THEN TRUE ELSE UNCHANGED relayVars
  /\ IF p = "files" THEN TRUE ELSE UNCHANGED portalVars
  /\ IF p = "mounts" THEN TRUE ELSE UNCHANGED mountVars
  /\ IF p = "outputs" THEN TRUE ELSE UNCHANGED drmVars
  /\ IF p = "system" THEN TRUE ELSE UNCHANGED systemVars
  /\ IF p = "restore" THEN TRUE ELSE UNCHANGED restoreVars
  /\ IF p = "data" THEN TRUE ELSE UNCHANGED dataVars
  /\ IF p = "grants" THEN TRUE ELSE UNCHANGED grantVars
  /\ IF p = "calls" THEN TRUE ELSE UNCHANGED hostVars
  /\ UNCHANGED part

Init ==
  /\ part \in {"input", "shell", "relay", "files", "mounts", "outputs", "system",
               "restore", "data", "grants", "calls"}
  /\ Input!Init /\ Shell!Init /\ Relay!Init /\ Files!Init /\ Mounts!Init /\ Outputs!Init
  /\ System!Init /\ Restore!Init /\ Data!Init /\ Calls!Init
  /\ part # "shell" => asks
  /\ part # "data" => /\ package = "directory" /\ before = [legacy |-> "none", target |-> "none"]
                      /\ movable /\ oneDisk
  /\ IF part = "grants" THEN Grants!Init
     ELSE /\ declared = <<>> /\ dataPath = <<"home">> /\ documents = <<>>
          /\ stage = "declared" /\ prepared = FALSE
          /\ grants = [dirs |-> <<>>, imports |-> <<>>]
          /\ runtime = [preopens |-> {}, fetch |-> {}, imports |-> {}]
          /\ portal = {}

Next ==
  \/ part = "input" /\ Input!Next /\ Others("input")
  \/ part = "shell" /\ Shell!Next /\ Others("shell")
  \/ part = "relay" /\ Relay!Next /\ Others("relay")
  \/ part = "files" /\ Files!Next /\ Others("files")
  \/ part = "mounts" /\ Mounts!Next /\ Others("mounts")
  \/ part = "outputs" /\ Outputs!Next /\ Others("outputs")
  \/ part = "system" /\ System!Next /\ Others("system")
  \/ part = "restore" /\ Restore!Next /\ Others("restore")
  \/ part = "data" /\ Data!Next /\ Others("data")
  \/ part = "grants" /\ Grants!Next /\ Others("grants")
  \/ part = "calls" /\ Calls!Next /\ Others("calls")

vars == <<part, inputVars, shellVars, relayVars, portalVars,
          mountVars, drmVars, systemVars, restoreVars,
          dataVars, grantVars, hostVars>>

Spec == Init /\ [][Next]_vars

\* The properties of the parts, each stated where its part is modelled.
\* ShellInput: a client sees both halves of a key or none; taps are alone.
ShortcutsAreWhole == Input!ShortcutsAreWhole
\* AppShell: the answer to a close request is never lost, and a settled
\* document is presented and reported.
ShellAnswers == Shell!ShellAnswers
\* AppRelay: messages arrive in their order and as they were sent.
RelayKeepsOrder == Relay!RelayKeepsOrder
\* FilePortal: a file is always one whole content.
WritesAreWhole == Files!WritesAreWhole
\* ImageMounts: what is mounted is what was asked for.
MountsAreVerified == Mounts!MountsAreVerified
\* DrmOutputs: the outputs are those of the devices.
OutputsBacked == Outputs!OutputsBacked
\* SystemShell: each gesture is broadcast at most once, and the token of a
\* weft-appd that wrote its port goes to no earlier weft-appd's port.
ForwardingSound == System!ForwardingSound
\* SystemShell: the weft-appd that keeps serving is found.
EndpointFound == System!EndpointFound
\* SessionRestore: what was open is what is restored.
RestoresWhatWasOpen == Restore!RestoresWhatWasOpen
\* AppData: earlier data is never lost, split or hidden.
DataIsWhole == Data!DataIsWhole
\* SessionGrants: a session may do what its package declares.
AccessIsDeclared == Grants!AccessIsDeclared
\* RuntimeHost: memory and helpers stay within their bounds.
CallsAreBounded == Calls!CallsAreBounded
=============================================================================
