------------------------------ MODULE MCIdentity ------------------------------
(***************************************************************************)
(* Instances of LocalAccounts, DirectoryAccounts and DirectoryCache for    *)
(* TLC, which share nothing: in each behaviour one of them moves.          *)
(***************************************************************************)
EXTENDS LocalAccounts, DirectoryAccounts, DirectoryCache, TLC

(* p1 and p2 are people and accounts of the provider; w1 and w2 are what    *)
(* serves requests in each component; h1 and h2 are processes.             *)
CONSTANTS p1, p2, w1, w2, h1, h2

VARIABLE part

LocalRests == database = "MySQL" /\ store = "redis" /\ Init
AccountsRest == backend = "oidc" /\ isolation = "mysql" /\ AccountsInit
CacheRests == home = [t \in Threads |-> h1] /\ CacheInit

IdentityInit ==
    \/ part = "local" /\ Init /\ AccountsRest /\ CacheRests
    \/ part = "accounts" /\ LocalRests /\ AccountsInit /\ CacheRests
    \/ part = "cache" /\ LocalRests /\ AccountsRest /\ CacheInit

IdentityNext ==
    \/ part = "local" /\ Next /\ UNCHANGED <<part, accountVars, cacheVars>>
    \/ part = "accounts" /\ AccountsNext /\ UNCHANGED <<part, vars, cacheVars>>
    \/ part = "cache" /\ CacheNext /\ UNCHANGED <<part, vars, accountVars>>

IdentitySpec == IdentityInit /\ [][IdentityNext]_<<part, vars, accountVars, cacheVars>>

(* The types of the three.                                                 *)
IdentityTypeOK == TypeOK /\ AccountsTypeOK /\ CacheTypeOK

Alike == Permutations({p1, p2}) \cup Permutations({w1, w2}) \cup Permutations({h1, h2})
=============================================================================
