--------------------------- MODULE SessionGrants ---------------------------
(***************************************************************************)
(* From the capabilities a package declares to what its component and its  *)
(* page may use: weft-appd derives a session's grants (grants.rs), passes  *)
(* them as arguments to weft-runtime and weft-file-portal (runtime.rs),    *)
(* and the runtime checks every call against them (weft-runtime,           *)
(* grants.rs and main.rs).                                                 *)
(*                                                                         *)
(* A path is the sequence of its parts between two "::".  An address is    *)
(* either public or not; a name may resolve to addresses of both kinds.    *)
(***************************************************************************)
EXTENDS Naturals, Sequences

CONSTANTS
  Host,        \* hosts a capability or a request may name
  Address,     \* those of them that are addresses
  MaxDeclared  \* bound: capabilities of a manifest

VARIABLES
  declared,  \* the capabilities of the manifest, in its order
  dataPath,  \* the app's data directory
  documents, \* the documents directory, <<>> if none is configured
  stage,     \* "declared", "refused", "derived", "running" or "rejected"
  grants,    \* SessionGrants: dirs and imports
  prepared,  \* whether the data directory has been created or moved
  runtime,   \* the preopened directories and the imports weft-runtime allows
  portal     \* the directories of the file portal

host == <<declared, dataPath, documents>>
grantVars == <<host, stage, grants, prepared, runtime, portal>>

Access == {"read", "rw"}
Directory == [kind : {"app-data", "documents"}, of : Access]
Fetch == [kind : {"fetch"}, of : Host \cup {"*"}]
Import == Fetch \cup [kind : {"notifications", "clipboard-read", "clipboard-write"}, of : {""}]
Unsupported == [kind : {"gpu", "unknown"}, of : {""}]
Capability == Directory \cup Import \cup Unsupported
Path == {<<"home">>, <<"home", "odd">>}
Guest(kind) == IF kind = "app-data" THEN "/data" ELSE "/xdg/documents"

Init ==
  /\ declared \in UNION {[1 .. n -> Capability] : n \in 0 .. MaxDeclared}
  /\ dataPath \in Path /\ documents \in Path \cup {<<>>}
  /\ stage = "declared" /\ prepared = FALSE
  /\ grants = [dirs |-> <<>>, imports |-> <<>>]
  /\ runtime = [preopens |-> {}, fetch |-> {}, imports |-> {}]
  /\ portal = {}

(***************************************************************************)
(* weft-appd (grants.rs).                                                  *)
(***************************************************************************)
\* validate.
Valid == \A i \in DOMAIN declared : declared[i] \notin Unsupported

PathOf(kind) == IF kind = "app-data" THEN dataPath ELSE documents

\* A path must survive the encoding: it has one part.
Grantable == \A i \in DOMAIN declared :
  declared[i] \in Directory => Len(PathOf(declared[i].kind)) = 1

\* A mutant: the later of two declarations of a directory holds.
MutantLastHolds(dirs, dir) ==
  SelectSeq(dirs, LAMBDA d : d.guest # dir.guest) \o <<dir>>

\* grant_dir: "declaring both modes for one directory grants the wider one".
GrantDir(dirs, dir) ==
  IF \E i \in DOMAIN dirs : dirs[i].guest = dir.guest
  THEN [i \in DOMAIN dirs |->
          IF dirs[i].guest = dir.guest /\ dir.access = "rw" THEN dir ELSE dirs[i]]
  ELSE Append(dirs, dir)

\* The grants of the first n capabilities.
Derived ==
  LET after[n \in 0 .. Len(declared)] ==
        IF n = 0 THEN [dirs |-> <<>>, imports |-> <<>>]
        ELSE LET capability == declared[n]
                 so == after[n - 1]
             IN  IF capability \in Directory
                 THEN [so EXCEPT !.dirs = GrantDir(@,
                         [host |-> PathOf(capability.kind), guest |-> Guest(capability.kind),
                          access |-> capability.of])]
                 ELSE IF \E i \in DOMAIN so.imports : so.imports[i] = capability
                 THEN so
                 ELSE [so EXCEPT !.imports = Append(@, capability)]
  IN  after[Len(declared)]

NeedsDirs == \E i \in DOMAIN declared : declared[i] \in Directory
NeedsData == \E i \in DOMAIN Derived.dirs : Derived.dirs[i].guest = "/data"

\* derive: everything is checked before the data directory is prepared.  The
\* launch is refused for a capability or its directory, because the host's
\* directories are not known or the data cannot be moved; or because the data
\* directory, moved or made, cannot be made private (AppData has the steps).
Derive ==
  /\ stage = "declared"
  /\ \/ /\ Valid /\ Grantable
        /\ stage' = "derived" /\ grants' = Derived /\ prepared' = NeedsData
     \/ /\ ~Valid \/ ~Grantable \/ NeedsDirs
        /\ stage' = "refused" /\ UNCHANGED <<grants, prepared>>
     \/ /\ Valid /\ Grantable /\ NeedsData
        /\ stage' = "refused" /\ prepared' = TRUE /\ UNCHANGED grants
  /\ UNCHANGED <<host, runtime, portal>>

(***************************************************************************)
(* The arguments (runtime.rs).                                             *)
(***************************************************************************)
PreopenArg(dir) == dir.host \o <<dir.guest, IF dir.access = "read" THEN "ro" ELSE "rw">>
Elements(s) == {s[i] : i \in DOMAIN s}

\* Preopen::parse, from the right.
Parses(spec) == Len(spec) > 2 /\ spec[Len(spec)] \in {"ro", "rw"}
Parse(spec) == [host |-> SubSeq(spec, 1, Len(spec) - 2), guest |-> spec[Len(spec) - 1],
                access |-> IF spec[Len(spec)] = "ro" THEN "read" ELSE "rw"]

\* Grants::add, which takes no other capability.
Accepts(capability) == capability \in Import

\* The file portal takes each directory by --allow or --allow-read.
Allowed(dirs) == {[path |-> d.host, writable |-> d.access = "rw"] : d \in dirs}

\* supervise: the file portal and the runtime are started.
Start ==
  /\ stage = "derived"
  /\ portal' = Allowed(Elements(grants.dirs))
  /\ LET specs == {PreopenArg(d) : d \in Elements(grants.dirs)}
         imports == Elements(grants.imports)
     IN  IF (\A s \in specs : Parses(s)) /\ (\A c \in imports : Accepts(c))
         THEN /\ stage' = "running"
              /\ runtime' = [preopens |-> {Parse(s) : s \in specs},
                             fetch |-> {c.of : c \in imports \cap Fetch},
                             imports |-> {c.kind : c \in imports \ Fetch}]
         ELSE stage' = "rejected" /\ UNCHANGED runtime
  /\ UNCHANGED <<host, grants, prepared>>

Next == Derive \/ Start

Spec == Init /\ [][Next]_grantVars

(***************************************************************************)
(* The calls of the component.                                             *)
(***************************************************************************)
\* fetch_host: what a request to a host may reach.
Reach(h) ==
  IF h \in Address /\ h \in runtime.fetch THEN {"public", "private"}
  ELSE IF {h, "*"} \cap runtime.fetch # {} THEN {"public"}
  ELSE {}

\* host_fetch and GrantedResolver, of an address the host resolves to.
Fetches(h, to) == runtime.fetch # {} /\ to \in Reach(h)

\* run_module: the notification and clipboard imports are checked at each call.
Calls(kind) == kind \in runtime.imports

\* run_module: what a preopened directory may be used for.
Opens(guest, write) ==
  \E d \in runtime.preopens : d.guest = guest /\ (write => d.access = "rw")

(***************************************************************************)
(* What a package declares.                                                *)
(***************************************************************************)
Declares(kind, of) == \E i \in DOMAIN declared : declared[i].kind = kind /\ declared[i].of \in of

\* A session may do exactly what its package declares, whatever the order and
\* the repetitions in the manifest, through four encodings: a directory in the
\* wider of its modes and under its own path, in the runtime and in the portal,
\* which take no other; an import or host that is named; a host that is not an
\* address, or not named, only at public addresses.  The runtime takes all of
\* its arguments.  The data directory is touched only for a manifest that
\* declares it and holds nothing to refuse (derive).
AccessIsDeclared ==
  /\ prepared => stage # "declared" /\ Valid /\ Grantable /\ Declares("app-data", Access)
  /\ stage # "rejected"
  /\ stage = "running" =>
       /\ portal = {[path |-> PathOf(kind), writable |-> Declares(kind, {"rw"})] :
                      kind \in {k \in {"app-data", "documents"} : Declares(k, Access)}}
       /\ \A kind \in {"app-data", "documents"} :
            /\ \A write \in BOOLEAN :
                 Opens(Guest(kind), write) <=> Declares(kind, IF write THEN {"rw"} ELSE Access)
            /\ \A d \in runtime.preopens : d.guest = Guest(kind) => d.host = PathOf(kind)
       /\ \A kind \in {"notifications", "clipboard-read", "clipboard-write"} :
            Calls(kind) <=> Declares(kind, {""})
       /\ \A h \in Host :
            /\ Fetches(h, "public") <=> Declares("fetch", {h, "*"})
            /\ Fetches(h, "private") <=> h \in Address /\ Declares("fetch", {h})
=============================================================================
