-------------------------------- MODULE AddOns --------------------------------
(***************************************************************************)
(* Plugins and extensions of one process.  The loaders go through the      *)
(* bundles of the configured directories in order and register those that *)
(* a registry of approved checksums knows; use cases then fire the hooks   *)
(* of the plugins, and an extension fires those of its own name space.     *)
(*                                                                         *)
(* A bundle's version stands for its checksums, of the manifest and of the *)
(* code.  manifest is what decoding it does: "fine", "refused" (a          *)
(* ValueError, or code that cannot be imported), or "raises" (a route      *)
(* without a path is a KeyError nobody catches).                           *)
(***************************************************************************)
EXTENDS Integers, FiniteSets, Sequences, Functions

CONSTANTS
    PluginBundles,      \* [id, version, manifest, priority, hooks]
    ExtensionBundles,   \* [id, version, manifest, routes, commands]
    PluginIds, ExtensionIds, Versions,
    Points,             \* hook points, core or of an extension
    BeforePoints,       \* those that are named BEFORE_...
    MaxFound            \* bound: bundle directories of each kind

ASSUME AddOnsAssumption ==
    /\ BeforePoints \subseteq Points /\ MaxFound \in Nat /\ Versions \subseteq Nat \ {0}
    /\ \A b \in PluginBundles : b.id \in PluginIds /\ b.priority \in Int /\ b.hooks \in Seq(Points)

Unknown == [version |-> 0]
TrustLevels == {"TRUSTED", "SANDBOXED"}

VARIABLES
    trust,       \* the approved version and level of each plugin, or Unknown
    installed,   \* the approved version of each extension, or Unknown
    found,       \* the bundle directories, in the order they are looked at
    queue,       \* those not looked at yet
    phase,       \* "plugins", "extensions", "running" or "failed"
    hooks,       \* the plugins registered for each point, in the order they run
    registered,  \* identifiers of the plugins registered
    extensions,  \* the extensions registered
    routes,      \* the keys taken by their routes, and by their commands
    commands,
    firing,      \* the hook point being fired, and the hooks still to run
    ran          \* history: what each hook of this firing has done

approvals  == <<trust, installed, found>>
extensionVars == <<extensions, routes, commands>>
pluginVars == <<hooks, registered>>
addOnVars  == <<approvals, queue, phase, pluginVars, extensionVars, firing, ran>>

-----------------------------------------------------------------------------
(* Loading                                                                 *)

Approves(registry, b) == registry[b.id].version = b.version
LoadsAnyVersion(registry, b) == registry[b.id] # Unknown /\ b.manifest = "fine"   \* mutant: no checksum
Loads(registry, b)  == Approves(registry, b) /\ b.manifest = "fine"
Breaks(registry, b) == Approves(registry, b) /\ b.manifest = "raises"

(* The members of s at the positions K, in their order.                    *)
Rank(K, i)    == Cardinality({h \in K : h <= i})
Members(s, K) == [j \in 1 .. Cardinality(K) |-> s[CHOOSE i \in K : Rank(K, i) = j]]

(* Hooks of higher priority run first, and those of the same priority in   *)
(* the order of their registration.                                        *)
Copies(b, n)        == [i \in 1 .. n |-> b]
PlacedLast(s, b, n) == s \o Copies(b, n)     \* mutant: never sorted
Placed(s, b, n) ==
    Members(s, {i \in DOMAIN s : s[i].priority >= b.priority}) \o Copies(b, n)
        \o Members(s, {i \in DOMAIN s : s[i].priority < b.priority})

(* A hook point that a manifest names twice is called twice.               *)
Times(b, p) == Cardinality({k \in DOMAIN b.hooks : b.hooks[k] = p})
Register(b) ==
    /\ registered' = registered \cup {b.id}
    /\ hooks' = [p \in Points |-> Placed(hooks[p], b, Times(b, p))]

LoadPlugin ==
    /\ phase = "plugins" /\ queue.plugins # <<>>
    /\ queue' = [queue EXCEPT !.plugins = Tail(@)]
    /\ LET b == Head(queue.plugins)
       IN  IF Loads(trust, b) /\ b.id \notin registered
           THEN Register(b) ELSE UNCHANGED pluginVars
    /\ UNCHANGED <<approvals, phase, extensionVars, firing, ran>>

(* Nothing is kept of an extension that collides with those registered, or *)
(* with itself.  Paths begin with the extension's identifier.              *)
RoutesOf(e)   == {e.id} \X Range(e.routes)
CommandsOf(e) == Range(e.commands)
Collides(e) ==
    \/ \E x \in extensions : x.id = e.id
    \/ ~ IsInjective(e.routes) \/ RoutesOf(e) \cap routes # {}
    \/ ~ IsInjective(e.commands) \/ CommandsOf(e) \cap commands # {}

IsCopy(e) ==
    \E i \in 1 .. (Len(found.extensions) - Len(queue.extensions)) :
        found.extensions[i].id = e.id /\ Loads(installed, found.extensions[i])

(* All are loaded before the first is registered: an error that nothing    *)
(* catches ends the start with no extension at all.                        *)
LoadExtension ==
    /\ phase = "extensions" /\ queue.extensions # <<>>
    /\ queue' = [queue EXCEPT !.extensions = Tail(@)]
    /\ LET e == Head(queue.extensions)
       IN  \/ /\ Breaks(installed, e)
              /\ phase' = "failed"
              /\ extensions' = {} /\ routes' = {} /\ commands' = {}
           \/ /\ Loads(installed, e) /\ ~ IsCopy(e) /\ ~ Collides(e)
              /\ extensions' = extensions \cup {e}
              /\ routes' = routes \cup RoutesOf(e)
              /\ commands' = commands \cup CommandsOf(e)
              /\ UNCHANGED phase
           \/ /\ ~ Breaks(installed, e)
              /\ Loads(installed, e) => IsCopy(e) \/ Collides(e)
              /\ UNCHANGED <<phase, extensionVars>>
    /\ UNCHANGED <<approvals, pluginVars, firing, ran>>

NextPhase ==
    /\ \/ phase = "plugins" /\ queue.plugins = <<>> /\ phase' = "extensions"
       \/ phase = "extensions" /\ queue.extensions = <<>> /\ phase' = "running"
    /\ UNCHANGED <<approvals, queue, pluginVars, extensionVars, firing, ran>>

-----------------------------------------------------------------------------
(* Firing                                                                  *)

Quiet == [point |-> "none", todo |-> <<>>, ended |-> "done"]

Fire(p) ==
    /\ phase = "running" /\ firing.ended # "no"
    /\ firing' = [point |-> p, todo |-> hooks[p], ended |-> IF hooks[p] = <<>> THEN "done" ELSE "no"]
    /\ ran' = <<>>
    /\ UNCHANGED <<approvals, queue, phase, pluginVars, extensionVars>>

EffectiveTrust(h) == trust[h.id].level

(* A hook may set abort or raise.  A sandboxed one works on a copy of the  *)
(* context and is only logged; so is what fails after the use case.        *)
Vetoes(h, asks) ==
    asks /\ EffectiveTrust(h) = "TRUSTED" /\ firing.point \in BeforePoints

Runs(asks) ==
    /\ firing.todo # <<>>
    /\ LET h    == Head(firing.todo)
           rest == Tail(firing.todo)
       IN  /\ firing' = IF Vetoes(h, asks) THEN [firing EXCEPT !.todo = <<>>, !.ended = "aborted"]
                        ELSE [firing EXCEPT !.todo = rest, !.ended = IF rest = <<>> THEN "done" ELSE "no"]
           /\ ran' = Append(ran, [hook |-> h, asked |-> asks])
    /\ UNCHANGED <<approvals, queue, phase, pluginVars, extensionVars>>

-----------------------------------------------------------------------------
(* Taking out, of a running registry                                       *)

UnregisterIdOnly(id) ==     \* mutant: its hooks go on running
    /\ phase = "running" /\ id \in registered
    /\ registered' = registered \ {id}
    /\ UNCHANGED <<approvals, queue, phase, hooks, extensionVars, firing, ran>>
UnregisterPlugin(id) ==
    /\ phase = "running" /\ id \in registered
    /\ registered' = registered \ {id}
    /\ hooks' = [p \in Points |-> Members(hooks[p], {i \in DOMAIN hooks[p] : hooks[p][i].id # id})]
    /\ UNCHANGED <<approvals, queue, phase, extensionVars, firing, ran>>

UnregisterExtension(e) ==
    /\ phase = "running" /\ e \in extensions
    /\ extensions' = extensions \ {e}
    /\ routes' = routes \ RoutesOf(e)
    /\ commands' = commands \ CommandsOf(e)
    /\ UNCHANGED <<approvals, queue, phase, pluginVars, firing, ran>>

Directories(bundles) == UNION {[1 .. n -> bundles] : n \in 0 .. MaxFound}

AddOnsInit ==
    /\ trust \in [PluginIds -> {Unknown} \cup [version : Versions, level : TrustLevels]]
    /\ installed \in [ExtensionIds -> {Unknown} \cup [version : Versions]]
    /\ found \in [plugins : Directories(PluginBundles), extensions : Directories(ExtensionBundles)]
    /\ queue = found /\ phase = "plugins"
    /\ hooks = [p \in Points |-> <<>>] /\ registered = {}
    /\ extensions = {} /\ routes = {} /\ commands = {}
    /\ firing = Quiet /\ ran = <<>>

AddOnsNext ==
    \/ LoadPlugin \/ LoadExtension \/ NextPhase
    \/ \E p \in Points : Fire(p)
    \/ \E asks \in BOOLEAN : Runs(asks)
    \/ \E id \in PluginIds : UnregisterPlugin(id)
    \/ \E e \in ExtensionBundles : UnregisterExtension(e)

AddOnsSpec == AddOnsInit /\ [][AddOnsNext]_addOnVars

-----------------------------------------------------------------------------
(* Properties                                                              *)

(* The types; and the plugins that run are those registered.               *)
AddOnsTypeOK ==
    /\ phase \in {"plugins", "extensions", "running", "failed"}
    /\ registered \subseteq PluginIds /\ extensions \subseteq ExtensionBundles
    /\ \A p \in Points : \A i \in DOMAIN hooks[p] : hooks[p][i].id \in registered
    /\ firing.ended \in {"no", "done", "aborted"}
    /\ firing.ended = "no" <=> firing.todo # <<>>

(* A use case is stopped exactly when a trusted plugin asks for it before  *)
(* it has begun, and no plugin runs after that one.                        *)
OnlyTrustedVeto ==
    LET vetoes == {i \in DOMAIN ran : /\ ran[i].asked /\ firing.point \in BeforePoints
                                     /\ trust[ran[i].hook.id].level = "TRUSTED"}
    IN  vetoes = IF firing.ended = "aborted" THEN {Len(ran)} ELSE {}

(* Whatever is registered and unregistered, in any order of the            *)
(* directories, the hooks of a point run from the highest priority to the  *)
(* lowest, each as often as its manifest names the point.                  *)
HighestPriorityFirst ==
    \A p \in Points :
        /\ \A i, j \in DOMAIN hooks[p] : i < j => hooks[p][i].priority >= hooks[p][j].priority
        /\ \A i \in DOMAIN hooks[p] :
             Cardinality({j \in DOMAIN hooks[p] : hooks[p][j] = hooks[p][i]}) = Times(hooks[p][i], p)

(* Of the copies of a bundle, the first that the registry approves.        *)
Firsts(registry, s) ==
    {s[i] : i \in {i \in DOMAIN s : /\ Approves(registry, s[i]) /\ s[i].manifest = "fine"
                                  /\ \A j \in 1 .. i - 1 :
                                       s[j].id = s[i].id => \/ ~ Approves(registry, s[j])
                                                            \/ s[j].manifest # "fine"}}

(* What is registered was approved as it is; of several copies it is the   *)
(* first that was, and before anything is taken out none is missing.       *)
FirstApprovedCopy ==
    /\ \A p \in Points : Range(hooks[p]) \subseteq Firsts(trust, found.plugins)
    /\ extensions \subseteq Firsts(installed, found.extensions)
    /\ phase = "extensions" => registered = {b.id : b \in Firsts(trust, found.plugins)}

(* The routes and commands taken are those of the extensions registered,   *)
(* each of one extension: what is unregistered can be registered again.    *)
KeysMatchExtensions ==
    /\ routes = UNION {RoutesOf(e) : e \in extensions}
    /\ commands = UNION {CommandsOf(e) : e \in extensions}
    /\ \A d, e \in extensions : d # e => CommandsOf(d) \cap CommandsOf(e) = {}

(* Plugins run in their order and stop no more than they may.              *)
HooksObey == OnlyTrustedVeto /\ HighestPriorityFirst

(* What is registered was approved, and holds the keys that are taken.     *)
RegistriesHold == FirstApprovedCopy /\ KeysMatchExtensions
=============================================================================
