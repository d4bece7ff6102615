---------------------------- MODULE DirectoryCache ----------------------------
(***************************************************************************)
(* The profile of one person of the identity provider, as the processes    *)
(* that cache it see it.                                                   *)
(*                                                                         *)
(* get answers from the cache of its process until the entry expires; the  *)
(* Person in the cache is the one earlier requests hold, and the services  *)
(* change it in place before save sends it.  A request waits for the       *)
(* provider outside any lock, at most Latency, and then puts what it was   *)
(* answered into the cache or takes the entry out.  Times are what is left *)
(* of them, or how long ago they were.                                     *)
(***************************************************************************)
EXTENDS Naturals, FiniteSets

CONSTANTS
    Processes,
    Threads,     \* requests served at the same time, each in some process
    Levels,      \* ACL levels
    FirstLevel,
    Gone,        \* what the provider answers of an account it has dropped
    TTL,         \* cache_ttl
    Latency      \* bound: how long an answer is under way (timeout=10)

ASSUME CacheAssumption ==
    /\ FirstLevel \in Levels /\ Gone \notin Levels
    /\ TTL \in Nat /\ Latency \in Nat
    /\ IsFiniteSet(Threads) /\ IsFiniteSet(Processes)

(* Person objects: what the requests and the caches refer to, and one to   *)
(* decode the next answer into.                                            *)
PersonObjects  == 1 .. (Cardinality(Threads) + Cardinality(Processes) + 1)
NoPerson == 0

VARIABLES
    home,      \* the process of each thread
    directory, \* the level of the account at the provider, or Gone
    person,    \* the level each Person object holds
    cache,     \* of each process: a Person and how long it stays
    call,      \* what each thread is doing
    known,     \* history: how long ago each level was last the directory's, or
               \* asked for by an administrator of the application
    age        \* history: of each Person whether a save has returned in its
               \* process since ("outdated"), and it was cached even so ("raced")

cacheVars == <<home, directory, person, cache, call, known, age>>

-----------------------------------------------------------------------------
NoEntry == [who |-> NoPerson, left |-> 0]
Resting == [op |-> "none", step |-> "none", who |-> NoPerson, level |-> Gone, ago |-> 0]
Calls(t, c) == call' = [call EXCEPT ![t] = c]
At(t, step) == call[t].step = step

CacheGetForever(p) == cache[p]       \* mutant: nothing expires
CacheGet(p) == IF TTL > 0 /\ cache[p].left > 0 THEN cache[p] ELSE NoEntry

CachePutEverywhere(p, who) ==      \* mutant: one cache for all processes
    IF TTL > 0 THEN [q \in Processes |-> [who |-> who, left |-> TTL]] ELSE cache
CachePut(p, who) ==
    IF TTL > 0 THEN [cache EXCEPT ![p] = [who |-> who, left |-> TTL]] ELSE cache
CacheInvalidate(p) == [cache EXCEPT ![p] = NoEntry]

Referred == {cache[p].who : p \in Processes} \cup {call[t].who : t \in Threads}
Fresh    == CHOOSE x \in PersonObjects : x \notin Referred

(* What nobody refers to any more is forgotten.                            *)
Forgets(objects, ages) ==
    LET held == {cache'[p].who : p \in Processes} \cup {call'[t].who : t \in Threads}
    IN  /\ person' = [x \in PersonObjects |-> IF x \in held THEN objects[x] ELSE FirstLevel]
        /\ age'    = [x \in PersonObjects |-> IF x \in held THEN ages[x] ELSE "new"]

LongAgo == TTL + Latency + 1     \* bound: longer is not told apart
Remember(level) == [known EXCEPT ![level] = 0]

-----------------------------------------------------------------------------
(* A use case looks the person up: to decide on a right, to rename them,   *)
(* to give them another level, or to remove them without looking.          *)
Begin(t, op, level) ==
    /\ call[t] = Resting
    /\ op = "profile" <=> level # Gone
    /\ LET hit == CacheGet(home[t]).who
           c   == [Resting EXCEPT !.op = op, !.level = level]
       IN  CASE op = "remove" -> Calls(t, [c EXCEPT !.step = "deleting"])
             [] op # "remove" /\ hit # NoPerson -> Calls(t, [c EXCEPT !.step = "loaded", !.who = hit])
             [] OTHER -> Calls(t, [c EXCEPT !.step = "asking"])
    /\ cache' = IF op = "remove" \/ CacheGet(home[t]) = cache[home[t]] THEN cache
                ELSE CacheInvalidate(home[t])
    /\ Forgets(person, age)
    /\ UNCHANGED <<home, directory, known>>

(* The provider answers; the answer is decoded and cached when it arrives. *)
Answers(t) ==
    /\ At(t, "asking")
    /\ Calls(t, IF directory = Gone THEN Resting
                ELSE [call[t] EXCEPT !.step = "answered", !.who = Fresh])
    /\ person' = IF directory = Gone THEN person ELSE [person EXCEPT ![Fresh] = directory]
    /\ UNCHANGED <<home, directory, cache, known, age>>

Receives(t) ==
    LET who == call[t].who
    IN  /\ At(t, "answered")
        /\ Calls(t, [call[t] EXCEPT !.step = "loaded", !.ago = 0])
        /\ cache' = CachePut(home[t], who)
        /\ Forgets(person, [age EXCEPT ![who] = IF @ = "outdated" THEN "raced" ELSE @])
        /\ UNCHANGED <<home, directory, known>>

(* The right is decided on, or the use case is refused, or the provider    *)
(* does not answer.                                                        *)
Rests(t) == Calls(t, Resting) /\ UNCHANGED cache /\ Forgets(person, age)

Decides(t) ==
    /\ call[t].step \in {"asking", "answered", "loaded"}
    /\ Rests(t)
    /\ UNCHANGED <<home, directory, known>>

(* update and set_acl_profile: the Person is changed where it is, and save *)
(* makes the payload of it.                                                *)
Changes(t) ==
    LET c == call[t]
    IN  /\ At(t, "loaded") /\ c.op \in {"rename", "profile"}
        /\ person' = IF c.op = "profile" THEN [person EXCEPT ![c.who] = c.level] ELSE person
        /\ known'  = IF c.op = "profile" THEN Remember(c.level) ELSE known
        /\ Calls(t, [c EXCEPT !.step = "saving", !.level = person'[c.who]])
        /\ UNCHANGED <<home, directory, cache, age>>

IsNow(level) ==
    /\ directory' = level
    /\ known' = IF level = Gone THEN known ELSE Remember(level)

(* The PATCH or the DELETE: done, refused, or done with its answer lost.   *)
(* Whatever raises leaves the cache alone.                                 *)
Sends(t) ==
    LET c == call[t]
    IN  /\ c.step \in {"saving", "deleting"}
        /\ \/ /\ directory # Gone
              /\ IsNow(IF c.step = "saving" THEN c.level ELSE Gone)
              /\ \/ /\ Calls(t, [c EXCEPT !.step = "sent"])
                    /\ UNCHANGED <<cache, person, age>>
                 \/ Rests(t)
           \/ Rests(t) /\ UNCHANGED <<directory, known>>
        /\ UNCHANGED home

(* The answer of the save: the entry of this process goes.                 *)
InProcess(t) ==
    {cache[home[t]].who} \cup {call[u].who : u \in {u \in Threads \ {t} : home[u] = home[t]}}

Saved(t) ==
    /\ At(t, "sent")
    /\ Calls(t, Resting)
    /\ cache' = CacheInvalidate(home[t])
    /\ Forgets(person, [x \in PersonObjects |-> IF x \in InProcess(t) THEN "outdated" ELSE age[x]])
    /\ UNCHANGED <<home, directory, known>>

(* The administrators of the provider change or drop the account there.    *)
Administers(level) ==
    /\ directory # Gone /\ level # directory
    /\ IsNow(level)
    /\ UNCHANGED <<home, person, cache, call, age>>

(* Time passes.                                                            *)
UnderWay(t) == call[t].step \in {"answered", "sent"}

TimePasses ==
    /\ \A t \in Threads : UnderWay(t) => call[t].ago < Latency
    /\ call'  = [t \in Threads |-> IF UnderWay(t) THEN [call[t] EXCEPT !.ago = @ + 1] ELSE call[t]]
    /\ cache' = [p \in Processes |-> IF cache[p].left > 0 THEN [cache[p] EXCEPT !.left = @ - 1] ELSE cache[p]]
    /\ known' = [l \in Levels |-> IF l = directory THEN 0
                                  ELSE IF known[l] < LongAgo THEN known[l] + 1 ELSE LongAgo]
    /\ UNCHANGED <<home, directory, person, age>>

CacheInit ==
    /\ home \in [Threads -> Processes]
    /\ directory = FirstLevel
    /\ person = [x \in PersonObjects |-> FirstLevel]
    /\ cache = [p \in Processes |-> NoEntry]
    /\ call = [t \in Threads |-> Resting]
    /\ known = [l \in Levels |-> IF l = FirstLevel THEN 0 ELSE LongAgo]
    /\ age = [x \in PersonObjects |-> "new"]

CacheNext ==
    \/ \E t \in Threads :
         \/ \E op \in {"read", "rename", "profile", "remove"}, level \in Levels \cup {Gone} : Begin(t, op, level)
         \/ Answers(t) \/ Receives(t) \/ Decides(t) \/ Changes(t) \/ Sends(t) \/ Saved(t)
    \/ \E level \in Levels \cup {Gone} : Administers(level)
    \/ TimePasses

CacheSpec == CacheInit /\ [][CacheNext]_cacheVars

-----------------------------------------------------------------------------
(* Properties                                                              *)

(* The types; every Person in a cache or in use is one, and only a save in *)
(* progress refers to a level that is not the Person's any more.           *)
CacheTypeOK ==
    /\ home \in [Threads -> Processes]
    /\ directory \in Levels \cup {Gone}
    /\ person \in [PersonObjects -> Levels]
    /\ \A p \in Processes : cache[p].who \in PersonObjects \cup {NoPerson} /\ cache[p].left \in 0 .. TTL
    /\ \A p, q \in Processes : p # q /\ cache[p].who = cache[q].who => cache[p].who = NoPerson
    /\ \A t \in Threads : call[t].step \in {"answered", "loaded", "saving"} => call[t].who \in PersonObjects
    /\ known \in [Levels -> 0 .. LongAgo]
    /\ age \in [PersonObjects -> {"new", "outdated", "raced"}]

(* What a process decides rights on, when it asks nobody, was the level of *)
(* the person no longer ago than the entry lives and an answer travels: a  *)
(* right taken away at the provider ends everywhere, though not at once.   *)
(* A level an administrator asked for counts as one, because the change is *)
(* made in the cache before the provider has agreed to it.                 *)
StaleIsBounded ==
    \A p \in Processes :
        LET entry == CacheGet(p)
        IN  entry # NoEntry => known[person[entry.who]] + entry.left <= TTL + Latency

(* After a save has returned, its process does not serve what it read      *)
(* before, unless a read was under way that puts it back.                  *)
SavesAreSeen ==
    \A p \in Processes :
        LET entry == CacheGet(p)
        IN  entry # NoEntry => age[entry.who] # "outdated"

(* What a cache serves is neither too old nor known to be wrong.           *)
CacheIsFresh == StaleIsBounded /\ SavesAreSeen
=============================================================================
