------------------------------ MODULE MCPlatform ------------------------------
(***************************************************************************)
(* What a request meets before and around the use cases, in four           *)
(* components that share nothing: the way it takes through a frontend, the *)
(* add-ons, the quota, and the start of the frontends.  In each behaviour  *)
(* one of them moves.                                                      *)
(***************************************************************************)
EXTENDS RequestBoundary, AddOns, Throttle, Startup

CONSTANTS t1, t2

VARIABLE part

-----------------------------------------------------------------------------
(* AddOns                                                                  *)

Plugin(id, version, manifest, priority, points) ==
    [id |-> id, version |-> version, manifest |-> manifest, priority |-> priority, hooks |-> points]

SomePlugins == {
    Plugin("p1", 1, "fine", 0, <<"BEFORE_CREATE", "AFTER_CREATE">>),
    Plugin("p1", 2, "fine", 2, <<"BEFORE_CREATE">>),
    Plugin("p2", 1, "fine", 1, <<"BEFORE_CREATE", "BEFORE_CREATE">>),
    Plugin("p3", 1, "fine", 1, <<"AFTER_CREATE", "BEFORE_CREATE">>),
    Plugin("p3", 1, "refused", 1, <<>>)}

Extension(id, version, manifest, paths, names) ==
    [id |-> id, version |-> version, manifest |-> manifest, routes |-> paths, commands |-> names]

SomeExtensions == {
    Extension("x1", 1, "fine", <<"run">>, <<"export">>),
    Extension("x1", 2, "fine", <<"run", "stop">>, <<>>),
    Extension("x2", 1, "fine", <<"run">>, <<"export">>),
    Extension("x2", 2, "fine", <<"run", "run">>, <<>>),
    Extension("x2", 1, "raises", <<>>, <<>>)}

(* Plugins or extensions, and only the first plugin approved anew.        *)
AddOnsCases ==
    \/ /\ found \in [plugins : {<<>>}, extensions : Directories(ExtensionBundles)]
       /\ trust = [p \in PluginIds |-> Unknown]
    \/ /\ found \in [plugins : Directories(PluginBundles), extensions : {<<>>}]
       /\ installed = [x \in ExtensionIds |-> Unknown]
       /\ trust \in [PluginIds -> {Unknown} \cup [version : Versions, level : TrustLevels]]
       /\ \A p \in {"p2", "p3"} : trust[p].version # 2

-----------------------------------------------------------------------------
(* Startup: two installations that work, one with its own login and one    *)
(* with full OIDC, and those that differ from them in one setting.         *)

AllUnset == [n \in Settings |-> "unset"]
OwnLogin == [AllUnset EXCEPT !["secret_key"] = "given"]
FullOidc == [n \in Settings |->
                CASE n = "auth" -> "oidc"
                  [] n \in {"oidc_url", "admin_token", "issuer", "client_id", "jwks_url", "audience",
                            "secret_key"} -> "given"
                  [] OTHER -> "unset"]

Meanings(n) ==
    CASE n \in {"auth", "persons"} -> {"local", "oidc", "nonsense"}
      [] n = "provider" -> {"keycloak", "nonsense"}
      [] n \in Flags -> {""}
      [] n = "window" -> {"zero"}
      [] n = "identity_mode" -> {"user"}
      [] n = "operator_id" -> {"given", "nonsense"}
      [] n = "extensions" -> {}
      [] OTHER -> {"", "given"}

With(s, n) == {[s EXCEPT ![n] = v] : v \in Meanings(n)}
SomeEnvironments ==
    {OwnLogin, FullOidc} \cup UNION {With(OwnLogin, n) \cup With(FullOidc, n) : n \in Settings}

SomeFiles ==
    {AllUnset, [AllUnset EXCEPT !["extensions"] = "broken"]}
        \cup UNION {With(AllUnset, n) : n \in {"auth", "persons", "identity_mode", "secret_key", "rate_redis"}}

-----------------------------------------------------------------------------

BoundaryRests == Init
AddOnsRest ==
    /\ found = [plugins |-> <<>>, extensions |-> <<>>]
    /\ trust = [p \in PluginIds |-> Unknown] /\ installed = [x \in ExtensionIds |-> Unknown]
    /\ AddOnsInit
ThrottleRests == policy = "memory" /\ ThrottleInit
StartupRests  == env = OwnLogin /\ file = AllUnset /\ reachable = FALSE /\ StartupInit

PlatformInit ==
    \/ part = "boundary" /\ Init /\ AddOnsRest /\ ThrottleRests /\ StartupRests
    \/ part = "addons" /\ BoundaryRests /\ AddOnsCases /\ AddOnsInit /\ ThrottleRests /\ StartupRests
    \/ part = "throttle" /\ BoundaryRests /\ AddOnsRest /\ ThrottleInit /\ StartupRests
    \/ /\ part = "startup" /\ BoundaryRests /\ AddOnsRest /\ ThrottleRests
       /\ file \in SomeFiles /\ (file = AllUnset \/ env \in {OwnLogin, FullOidc})
       /\ StartupInit

PlatformNext ==
    \/ part = "boundary" /\ Next /\ UNCHANGED <<part, addOnVars, throttleVars, startupVars>>
    \/ part = "addons" /\ AddOnsNext /\ UNCHANGED <<part, vars, throttleVars, startupVars>>
    \/ part = "throttle" /\ ThrottleNext /\ UNCHANGED <<part, vars, addOnVars, startupVars>>
    \/ part = "startup" /\ StartupNext /\ UNCHANGED <<part, vars, addOnVars, throttleVars>>

PlatformSpec ==
    PlatformInit /\ [][PlatformNext]_<<part, vars, addOnVars, throttleVars, startupVars>>

(* The types of the four.                                                  *)
PlatformTypeOK == TypeOK /\ AddOnsTypeOK /\ ThrottleTypeOK /\ StartupTypeOK

Alike == Permutations({t1, t2})
=============================================================================
