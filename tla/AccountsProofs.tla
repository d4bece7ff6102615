---------------------------- MODULE AccountsProofs ----------------------------
(***************************************************************************)
(* Proofs about LocalAccounts, for any people, limits, clocks and bounds:  *)
(* the types, that guesses are counted and founders stay, how long a       *)
(* revoked token is refused, and that on MySQL counting logins touches     *)
(* nothing but the lockout.                                                *)
(*                                                                         *)
(* The invariant says how the copy a request is about to save was made     *)
(* from the credential it read (CountOf), that a credential once there     *)
(* stays, and that tokens expire on whole seconds.                         *)
(***************************************************************************)
EXTENDS LocalAccounts, TLAPS

KindOf(w) == request[w].kind
Counted(w) == KindOf(w) \in {"failure", "success", "set"} /\ request[w].stage \in {"read", "found"}

CountOf(w) ==
    Counted(w) =>
        LET q == request[w]
        IN  /\ q.found # NoCredential \/ q.read # NoCredential => credential[q.person] # NoCredential
            /\ q.kind # "set" => q.found # NoCredential /\ q.read # NoCredential
            /\ q.kind = "set" => q.read = q.found
            /\ q.kind = "failure" =>
                  /\ q.new.failed = q.read.failed + 1
                  /\ MaxAttempts > 0 /\ q.new.failed >= MaxAttempts => q.new.locked # NoLock
            /\ q.kind # "failure" => q.new.failed = 0
            /\ database = "MySQL" =>
                  /\ q.stage = "found"
                  /\ q.kind # "set" => q.new.hash = q.found.hash
                  /\ q.kind = "failure" /\ q.new.locked = NoLock => q.found.locked = NoLock

CountsInv == \A w \in Workers : CountOf(w)

(* Nobody guessed at a password that is not there.                         *)
NoGuesses == \A p \in Persons : credential[p] = NoCredential => wrong[p] = 0

Seconds == {Second * n : n \in Nat}

TokensInv ==
    \A k \in 1 .. MaxTokens : tokens[k] # NoToken =>
        /\ tokens[k].exp \in Seconds
        /\ tokens[k].out /\ (store = "redis" \/ ~ restarted) =>
              tokens[k].until + 2 * Second > tokens[k].exp

AccountsInv ==
    TypeOK /\ CountsInv /\ NoGuesses /\ CountsAreExact /\ FoundersStay /\ TokensInv

-----------------------------------------------------------------------------
(* Types and numbers                                                       *)

LEMMA RequestTypes ==
    ASSUME NEW q \in Requests
    PROVE  /\ q.kind \in {"idle", "setup", "failure", "success", "set"}
           /\ q.kind = "idle" => q = Idle
           /\ q.kind \in {"failure", "success"} /\ q.stage = "asked" =>
                 q.person \in Persons /\ q.at \in Nat
           /\ q.kind \in {"failure", "success", "set"} =>
                 q.person \in Persons /\ q.stage \in {"asked", "read", "found"}
           /\ q.kind = "set" => q.stage # "asked"
           /\ q.kind \in {"failure", "success", "set"} /\ q.stage \in {"read", "found"} =>
                 /\ q \in [kind : {"failure", "success", "set"}, stage : {"read", "found"},
                           person : Persons, read : Credentials \cup {NoCredential},
                           found : Credentials \cup {NoCredential}, new : Credentials]
                 /\ q.read \in Credentials \cup {NoCredential}
                 /\ q.found \in Credentials \cup {NoCredential} /\ q.new \in Credentials
<1>1. CASE q = Idle
    BY <1>1 DEF Idle
<1>2. CASE q = [kind |-> "setup"]
    BY <1>2 DEF Idle
<1>3. CASE q \in [kind : {"failure", "success"}, stage : {"asked"}, person : Persons, at : Nat]
    BY <1>3
<1>4. CASE q \in [kind : {"failure", "success", "set"}, stage : {"read", "found"},
                  person : Persons, read : Credentials \cup {NoCredential},
                  found : Credentials \cup {NoCredential}, new : Credentials]
    BY <1>4
<1> QED BY <1>1, <1>2, <1>3, <1>4 DEF Requests

LEMMA Columns ==
    ASSUME NEW a \in Credentials, NEW b \in Credentials, NEW c \in Credentials
    PROVE  LET m == ChangedColumns(a, b, c)
           IN  /\ m \in Credentials /\ (a = b => m = c)
               /\ c.hash = b.hash => m.hash = a.hash
               /\ m.locked = IF c.locked = b.locked THEN a.locked ELSE c.locked
<1> DEFINE C == {"hash", "failed", "locked"}
           m == [x \in C |-> IF c[x] = b[x] THEN a[x] ELSE c[x]]
<1>1. DOMAIN a = C /\ c = [x \in C |-> c[x]]
    BY DEF Credentials
<1>2. ChangedColumns(a, b, c) = m
    BY <1>1 DEF ChangedColumns
<1>3. m \in Credentials
    BY DEF Credentials
<1>4. a = b => m = c
    BY <1>1
<1> QED BY <1>2, <1>3, <1>4

LEMMA CountedCredentials ==
    ASSUME NEW c \in Credentials, NEW t \in Nat
    PROVE  /\ AfterFailure(c, t) \in Credentials /\ AfterFailure(c, t).hash = c.hash
           /\ AfterFailure(c, t).failed = c.failed + 1
           /\ MaxAttempts > 0 /\ c.failed + 1 >= MaxAttempts => AfterFailure(c, t).locked # NoLock
           /\ AfterFailure(c, t).locked = NoLock => c.locked = NoLock
           /\ AfterSuccess(c) \in Credentials /\ AfterSuccess(c).hash = c.hash
           /\ AfterSuccess(c).failed = 0
<1>1. /\ AfterSuccess(c) \in Credentials /\ AfterSuccess(c).hash = c.hash
      /\ AfterSuccess(c).failed = 0
    BY DEF AfterSuccess, Credentials
<1> DEFINE full == MaxAttempts > 0 /\ c.failed + 1 >= MaxAttempts
<1>2. PICK u \in Nat : u = t + LockTime /\ u # NoLock
    BY AccountsAssumption
<1>4. CASE full
  <2>1. AfterFailure(c, t) = [c EXCEPT !.failed = c.failed + 1, !.locked = u]
      BY <1>2, <1>4 DEF AfterFailure, Credentials
  <2>2. [c EXCEPT !.failed = c.failed + 1, !.locked = u] \in Credentials
    <3>1. c.failed + 1 \in Nat
        BY DEF Credentials
    <3> HIDE DEF full
    <3>2. \A f \in Nat, l \in Nat : [c EXCEPT !.failed = f, !.locked = l] \in Credentials
        BY DEF Credentials
    <3> QED BY <3>1, <3>2
  <2>3. /\ AfterFailure(c, t).hash = c.hash /\ AfterFailure(c, t).failed = c.failed + 1
        /\ AfterFailure(c, t).locked = u
      BY <2>1 DEF Credentials
  <2> QED BY <1>1, <1>2, <2>1, <2>2, <2>3
<1>5. CASE ~ full
  <2>1. AfterFailure(c, t) = [c EXCEPT !.failed = c.failed + 1]
      BY <1>5 DEF AfterFailure, Credentials
  <2> QED BY <1>1, <1>5, <2>1 DEF Credentials
<1> QED BY <1>4, <1>5

LEMMA FreshIsCredential ==
    ASSUME NEW secret \in Secrets
    PROVE  /\ FreshCredential(secret) \in Credentials /\ FreshCredential(secret).failed = 0
           /\ FreshCredential(secret) # NoCredential
<1>1. FreshCredential(secret) \in Credentials /\ FreshCredential(secret).failed = 0
    BY DEF FreshCredential, Credentials
<1> QED BY <1>1, NoCredentialAssumption

LEMMA WholeSeconds ==
    ASSUME NEW t \in Nat
    PROVE  Whole(t) \in Seconds /\ Whole(t) \in Nat /\ Whole(t) <= t /\ t < Whole(t) + Second
<1>1. Second \in Nat /\ Second > 0
    BY AccountsAssumption
<1>2. t \div Second \in Nat /\ Second * (t \div Second) \in Nat
    BY <1>1, Z3
<1>6. t % Second \in 0 .. Second - 1
    BY <1>1, Z3
<1>7. t % Second = t - Second * (t \div Second)
    BY <1>1, Z3
<1>3. Whole(t) = Second * (t \div Second)
    BY <1>1, <1>2, <1>7 DEF Whole
<1>4. Whole(t) \in Seconds
    BY <1>2, <1>3 DEF Seconds
<1>5. Whole(t) \in Nat /\ Whole(t) <= t /\ t < Whole(t) + Second
    BY <1>1, <1>2, <1>3, <1>6, <1>7
<1> QED BY <1>4, <1>5

(* A token in force expires after this very second.                        *)
LEMMA ExpiresLater ==
    ASSUME NEW x \in Seconds, NEW t \in Nat, x > Whole(t)
    PROVE  x > t
<1>1. PICK n \in Nat : x = Second * n
    BY DEF Seconds
<1>2. PICK m \in Nat : Whole(t) = Second * m
    BY WholeSeconds DEF Seconds
<1>3. Second \in Nat /\ Second > 0
    BY AccountsAssumption
<1>4. n > m
  <2> SUFFICES ASSUME n <= m PROVE FALSE
      OBVIOUS
  <2>1. Second * n <= Second * m
      BY <1>3
  <2> QED BY <1>1, <1>2, <1>3, <2>1
<1>5. Second * (m + 1) <= Second * n
    BY <1>3, <1>4
<1>6. Second * (m + 1) = Second * m + Second
    BY <1>3
<1>7. x >= Whole(t) + Second
    BY <1>1, <1>2, <1>3, <1>5, <1>6
<1> QED BY <1>3, <1>7, WholeSeconds, <1>1

(* What is left of a token's life, in whole seconds, is cut by less than   *)
(* one.                                                                    *)
LEMMA Cut ==
    ASSUME NEW x \in Nat
    PROVE  x \div Second \in Nat /\ Second * (x \div Second) + Second > x
<1>1. Second \in Nat /\ Second > 0
    BY AccountsAssumption
<1> QED BY <1>1, Z3

-----------------------------------------------------------------------------
(* Requests                                                                *)

LEMMA OthersCount ==
    ASSUME AccountsInv, NEW v \in Workers, request'[v] = request[v], database' = database,
           \A p \in Persons : credential[p] # NoCredential => credential'[p] # NoCredential
    PROVE  CountOf(v)'
<1>1. request[v] \in Requests
    BY DEF AccountsInv, TypeOK
<1>2. Counted(v) => request[v].person \in Persons
    BY <1>1, RequestTypes DEF Counted, KindOf
<1>3. CountOf(v)
    BY DEF AccountsInv, CountsInv
<1> QED BY <1>2, <1>3 DEF CountOf, Counted, KindOf

(* Steps of one worker that leave credentials and people alone.            *)
LEMMA OneRequest ==
    ASSUME AccountsInv, NEW w \in Workers, NEW q \in Requests, Becomes(w, q),
           UNCHANGED <<world, people, credential, founders, wrong, stale>>,
           requests' \in 0 .. MaxRequests, restarted' = restarted, UNCHANGED tokens,
           q.kind \in {"failure", "success"} => credential[q.person] # NoCredential,
           CountOf(w)'
    PROVE  AccountsInv'
<1>1. request' = [request EXCEPT ![w] = q] /\ request \in [Workers -> Requests]
    BY DEF Becomes, AccountsInv, TypeOK
<1>2. request' \in [Workers -> Requests]
    BY <1>1
<1>3. \A v \in Workers : v # w => CountOf(v)'
  <2> SUFFICES ASSUME NEW v \in Workers, v # w PROVE CountOf(v)'
      OBVIOUS
  <2>1. request'[v] = request[v]
      BY <1>1
  <2> QED BY <2>1, OthersCount DEF world
<1>4. CountsInv'
    BY <1>3 DEF CountsInv
<1>5. \A v \in Workers : request'[v].kind \in {"failure", "success"} =>
          credential[request'[v].person] # NoCredential
    BY <1>1 DEF AccountsInv, TypeOK
<1>6. TypeOK'
    BY <1>2, <1>5 DEF AccountsInv, TypeOK, world, Here
<1>7. (NoGuesses /\ CountsAreExact /\ FoundersStay /\ TokensInv)'
    BY DEF AccountsInv, NoGuesses, CountsAreExact, FoundersStay, TokensInv, world, Here
<1> QED BY <1>4, <1>6, <1>7 DEF AccountsInv

LEMMA AccountsInvInit == Init => AccountsInv
<1> SUFFICES ASSUME Init PROVE AccountsInv
    OBVIOUS
<1>1. Idle \in Requests /\ Idle.kind = "idle"
    BY DEF Requests, Idle
<1>2. TypeOK
  <2>1. request \in [Workers -> Requests] /\ \A w \in Workers : request[w].kind = "idle"
      BY <1>1 DEF Init
  <2>2. 0 \in 0 .. MaxTime /\ 0 \in 0 .. MaxRequests
      BY AccountsAssumption
  <2>3. \A p \in Persons : credential[p] = NoCredential
      BY DEF Init
  <2> QED BY <2>1, <2>2, <2>3 DEF Init, TypeOK
<1>3. CountsInv
    BY <1>1 DEF Init, CountsInv, CountOf, Counted, KindOf
<1>4. NoGuesses /\ CountsAreExact /\ FoundersStay /\ TokensInv
    BY DEF Init, NoGuesses, CountsAreExact, FoundersStay, TokensInv
<1> QED BY <1>2, <1>3, <1>4 DEF AccountsInv

LEMMA SetupStep ==
    ASSUME AccountsInv, NEW w \in Workers, Setup(w)
    PROVE  AccountsInv'
<1> DEFINE q == [kind |-> "setup"]
<1>1. q \in Requests /\ q.kind = "setup"
    BY DEF Requests
<1>2. Becomes(w, q) /\ requests' \in 0 .. MaxRequests
    BY AccountsAssumption DEF Setup, Starts, Becomes, AccountsInv, TypeOK
<1>3. request'[w] = q
    BY <1>2 DEF Becomes, AccountsInv, TypeOK
<1>4. CountOf(w)'
    BY <1>1, <1>3 DEF CountOf, Counted, KindOf
<1>5. UNCHANGED <<world, people, credential, founders, wrong, stale, restarted, tokens>>
    BY DEF Setup, history
<1> HIDE DEF q
<1> QED BY <1>1, <1>2, <1>4, <1>5, OneRequest

LEMMA LoginStep ==
    ASSUME AccountsInv, NEW w \in Workers, NEW p \in Persons, NEW secret \in Secrets,
           Login(w, p, secret)
    PROVE  AccountsInv'
<1> DEFINE kind == IF secret = credential[p].hash THEN "success" ELSE "failure"
           q == [kind |-> kind, stage |-> "asked", person |-> p, at |-> now]
<1>1. now \in Nat /\ kind \in {"failure", "success"}
    BY AccountsAssumption DEF AccountsInv, TypeOK
<1>2. q \in Requests /\ q.person = p /\ q.stage = "asked"
    BY <1>1 DEF Requests
<1>3. Becomes(w, q) /\ requests' \in 0 .. MaxRequests
    BY AccountsAssumption DEF Login, Starts, Becomes, AccountsInv, TypeOK
<1>4. request'[w] = q
    BY <1>3 DEF Becomes, AccountsInv, TypeOK
<1>5. CountOf(w)'
    BY <1>2, <1>4 DEF CountOf, Counted, KindOf
<1>6. UNCHANGED <<world, people, credential, founders, wrong, stale, restarted, tokens>>
    BY DEF Login, history
<1>7. credential[p] # NoCredential
    BY DEF Login
<1> HIDE DEF q
<1> QED BY <1>2, <1>3, <1>5, <1>6, <1>7, OneRequest

LEMMA SetPasswordStep ==
    ASSUME AccountsInv, NEW w \in Workers, NEW p \in Persons, NEW secret \in Secrets,
           SetPassword(w, p, secret)
    PROVE  AccountsInv'
<1> DEFINE q == [kind |-> "set", stage |-> "found", person |-> p, read |-> credential[p],
                 found |-> credential[p], new |-> FreshCredential(secret)]
<1>1. credential[p] \in Credentials \cup {NoCredential}
    BY DEF AccountsInv, TypeOK
<1>2. q \in Requests /\ q.person = p /\ q.kind = "set"
    BY <1>1, FreshIsCredential DEF Requests
<1>3. Becomes(w, q) /\ requests' \in 0 .. MaxRequests
    BY AccountsAssumption DEF SetPassword, Starts, Becomes, AccountsInv, TypeOK
<1>4. request'[w] = q
    BY <1>3 DEF Becomes, AccountsInv, TypeOK
<1>5. UNCHANGED <<world, people, credential, founders, wrong, stale, restarted, tokens>>
    BY DEF SetPassword, history
<1>6. CountOf(w)'
    BY <1>4, <1>5, FreshIsCredential DEF CountOf, Counted, KindOf
<1> HIDE DEF q
<1> QED BY <1>2, <1>3, <1>5, <1>6, OneRequest

LEMMA ReadToCountStep ==
    ASSUME AccountsInv, NEW w \in Workers, ReadToCount(w)
    PROVE  AccountsInv'
<1> PICK q \in Requests : q = request[w]
    BY DEF AccountsInv, TypeOK
<1>1. q.kind \in {"failure", "success"} /\ q.stage = "asked"
    BY DEF ReadToCount
<1>2. q.person \in Persons /\ q.at \in Nat
    BY <1>1, RequestTypes
<1>3. credential[q.person] # NoCredential /\ credential[q.person] \in Credentials
    BY <1>1, <1>2 DEF AccountsInv, TypeOK
<1> PICK c \in Credentials : c = credential[q.person]
    BY <1>3
<1> DEFINE new == IF q.kind = "failure" THEN AfterFailure(c, q.at) ELSE AfterSuccess(c)
           stage == IF database = "MySQL" THEN "found" ELSE "read"
           r == [kind |-> q.kind, stage |-> stage, person |-> q.person, read |-> c,
                 found |-> c, new |-> new]
<1>4. /\ new \in Credentials /\ new.hash = c.hash
      /\ q.kind = "failure" =>
            /\ new.failed = c.failed + 1
            /\ MaxAttempts > 0 /\ new.failed >= MaxAttempts => new.locked # NoLock
            /\ new.locked = NoLock => c.locked = NoLock
      /\ q.kind # "failure" => new.failed = 0
    BY <1>2, CountedCredentials
<1>5. stage \in {"read", "found"} /\ (database = "MySQL" => stage = "found")
    OBVIOUS
<1>6. Becomes(w, r)
    BY DEF ReadToCount
<1> HIDE DEF new, stage
<1>7. r \in Requests
    BY <1>1, <1>2, <1>4, <1>5 DEF Requests
<1>8. request'[w] = r
    BY <1>6 DEF Becomes, AccountsInv, TypeOK
<1>9. UNCHANGED <<world, people, credential, founders, wrong, stale, restarted, tokens, requests>>
    BY DEF ReadToCount, history
<1>10. CountOf(w)'
    BY <1>1, <1>3, <1>4, <1>5, <1>8, <1>9 DEF CountOf, Counted, KindOf, world
<1>11. requests' \in 0 .. MaxRequests
    BY <1>9 DEF AccountsInv, TypeOK
<1>12. r.kind \in {"failure", "success"} => credential[r.person] # NoCredential
    BY <1>3
<1> HIDE DEF r
<1> QED BY <1>6, <1>7, <1>9, <1>10, <1>11, <1>12, OneRequest

LEMMA FoundLater ==
    ASSUME NEW q \in Requests, q.kind \in {"failure", "success"}, q.stage = "read",
           NEW c \in Credentials
    PROVE  LET r == [q EXCEPT !.stage = "found", !.found = c]
           IN  /\ r \in Requests /\ r.kind = q.kind /\ r.stage = "found" /\ r.person = q.person
               /\ r.read = q.read /\ r.found = c /\ r.new = q.new
<1> DEFINE R == [kind : {"failure", "success", "set"}, stage : {"read", "found"},
                 person : Persons, read : Credentials \cup {NoCredential},
                 found : Credentials \cup {NoCredential}, new : Credentials]
<1>1. q \in R
    BY RequestTypes
<1>2. [q EXCEPT !.stage = "found", !.found = c] \in R
    BY <1>1
<1> QED BY <1>1, <1>2 DEF Requests

LEMMA ReadToSaveStep ==
    ASSUME AccountsInv, NEW w \in Workers, ReadToSave(w)
    PROVE  AccountsInv'
<1> PICK q \in Requests : q = request[w]
    BY DEF AccountsInv, TypeOK
<1>1. q.kind \in {"failure", "success"} /\ q.stage = "read"
    BY DEF ReadToSave
<1>2. q.person \in Persons
    BY <1>1, RequestTypes
<1>3. credential[q.person] # NoCredential /\ credential[q.person] \in Credentials
    BY <1>1, <1>2 DEF AccountsInv, TypeOK
<1> PICK c \in Credentials : c = credential[q.person]
    BY <1>3
<1>4. CountOf(w)
    BY DEF AccountsInv, CountsInv
<1>5. database # "MySQL"
    BY <1>1, <1>4 DEF CountOf, Counted, KindOf
<1> DEFINE r == [q EXCEPT !.stage = "found", !.found = c]
<1>6. Becomes(w, r)
    BY DEF ReadToSave
<1>7. /\ r \in Requests /\ r.kind = q.kind /\ r.stage = "found" /\ r.person = q.person
      /\ r.read = q.read /\ r.found = c /\ r.new = q.new
    BY <1>1, FoundLater
<1> HIDE DEF r
<1>8. request'[w] = r
    BY <1>6 DEF Becomes, AccountsInv, TypeOK
<1>9. UNCHANGED <<world, people, credential, founders, wrong, stale, restarted, tokens, requests>>
    BY DEF ReadToSave, history
<1>10. CountOf(w)'
    BY <1>1, <1>3, <1>4, <1>5, <1>7, <1>8, <1>9 DEF CountOf, Counted, KindOf, world
<1>11. requests' \in 0 .. MaxRequests
    BY <1>9 DEF AccountsInv, TypeOK
<1> QED BY <1>1, <1>3, <1>6, <1>7, <1>9, <1>10, <1>11, OneRequest

-----------------------------------------------------------------------------
(* People                                                                  *)

LEMMA CreateInitialAdminStep ==
    ASSUME AccountsInv, NEW w \in Workers, CreateInitialAdmin(w)
    PROVE  AccountsInv'
<1>1. PICK p \in Persons, secret \in Secrets :
          /\ people[p] = "unborn"
          /\ people'     = [people EXCEPT ![p] = "here"]
          /\ credential' = [credential EXCEPT ![p] = FreshCredential(secret)]
          /\ founders'   = founders \cup {p}
    BY DEF CreateInitialAdmin
<1>2. UNCHANGED <<world, tokens, requests, wrong, stale, restarted>>
    BY DEF CreateInitialAdmin
<1>3. credential[p] = NoCredential /\ wrong[p] = 0
    BY <1>1 DEF AccountsInv, TypeOK, Here, NoGuesses
<1> PICK c \in Credentials : c = FreshCredential(secret) /\ c.failed = 0 /\ c # NoCredential
    BY FreshIsCredential
<1>4. credential' \in [Persons -> Credentials \cup {NoCredential}] /\ credential'[p] = c
      /\ \A o \in Persons : o # p => credential'[o] = credential[o] /\ people'[o] = people[o]
    BY <1>1 DEF AccountsInv, TypeOK
<1>5. people' \in [Persons -> {"unborn", "here", "removed"}] /\ people'[p] = "here"
    BY <1>1 DEF AccountsInv, TypeOK
<1>6. Idle \in Requests /\ Idle.kind = "idle"
    BY DEF Requests, Idle
<1>7. request' \in [Workers -> Requests] /\ request'[w] = Idle
      /\ \A v \in Workers : v # w => request'[v] = request[v]
    BY <1>6 DEF CreateInitialAdmin, Becomes, AccountsInv, TypeOK
<1>8. TypeOK'
  <2>1. \A o \in Persons : (credential[o] # NoCredential => Here(o))'
      BY <1>4, <1>5 DEF AccountsInv, TypeOK, Here
  <2>2. \A o \in Persons : credential[o] # NoCredential => credential'[o] # NoCredential
      BY <1>3, <1>4
  <2>3. \A v \in Workers : request'[v].kind \in {"failure", "success"} =>
            credential'[request'[v].person] # NoCredential
    <3> SUFFICES ASSUME NEW v \in Workers, request'[v].kind \in {"failure", "success"}
                 PROVE  credential'[request'[v].person] # NoCredential
        OBVIOUS
    <3>1. v # w /\ request'[v] = request[v]
        BY <1>6, <1>7
    <3>2. request[v] \in Requests /\ credential[request[v].person] # NoCredential
        BY <3>1 DEF AccountsInv, TypeOK
    <3>3. request[v].person \in Persons
        BY <3>1, <3>2, RequestTypes
    <3> QED BY <2>2, <3>1, <3>2, <3>3
  <2> QED BY <1>1, <1>2, <1>4, <1>5, <1>7, <2>1, <2>3 DEF AccountsInv, TypeOK, world
<1>9. CountsInv'
  <2>1. CountOf(w)'
      BY <1>6, <1>7 DEF CountOf, Counted, KindOf
  <2>2. \A v \in Workers : v # w => CountOf(v)'
      BY <1>2, <1>3, <1>4, <1>7, OthersCount DEF world
  <2> QED BY <2>1, <2>2 DEF CountsInv
<1>10. CountsAreExact' /\ NoGuesses'
  <2>1. \A o \in Persons : wrong'[o] = wrong[o] /\ (o \in stale' <=> o \in stale)
      BY <1>2
  <2> QED BY <1>3, <1>4, <2>1, AccountsAssumption DEF AccountsInv, CountsAreExact, NoGuesses
<1>11. FoundersStay'
    BY <1>1, <1>4, <1>5 DEF AccountsInv, FoundersStay, TypeOK, Here
<1>12. TokensInv'
    BY <1>2 DEF AccountsInv, TokensInv, world
<1> QED BY <1>8, <1>9, <1>10, <1>11, <1>12 DEF AccountsInv

(* Steps after which everybody with a credential is still here.            *)
LEMMA PeopleStep ==
    ASSUME AccountsInv, NEW p \in Persons, AddPerson(p) \/ RemovePerson(p)
    PROVE  AccountsInv'
<1>1. UNCHANGED <<world, credential, tokens, request, requests, founders, wrong, stale, restarted>>
    BY DEF AddPerson, RemovePerson, history
<1>2. people' \in [Persons -> {"unborn", "here", "removed"}]
    BY DEF AddPerson, RemovePerson, AccountsInv, TypeOK
<1>3. \A o \in Persons : credential[o] # NoCredential => people'[o] = "here"
    BY DEF AddPerson, RemovePerson, AccountsInv, TypeOK, Here
<1>4. TypeOK'
    BY <1>1, <1>2, <1>3 DEF AccountsInv, TypeOK, world, Here
<1>5. CountsInv'
    BY <1>1, OthersCount DEF CountsInv, world
<1>6. FoundersStay'
    BY <1>1, <1>3 DEF AccountsInv, FoundersStay, TypeOK, Here
<1>7. (NoGuesses /\ CountsAreExact /\ TokensInv)'
    BY <1>1 DEF AccountsInv, NoGuesses, CountsAreExact, TokensInv, world
<1> QED BY <1>4, <1>5, <1>6, <1>7 DEF AccountsInv

-----------------------------------------------------------------------------
(* Tokens and time                                                         *)

(* A token in the table is well typed and outlives its revocation by less  *)
(* than two seconds.                                                       *)
LEMMA IssuedTokens ==
    ASSUME AccountsInv, NEW p \in Persons
    PROVE  /\ Issued(p) \in [1 .. MaxTokens -> Tokens \cup {NoToken}]
           /\ \A k \in 1 .. MaxTokens :
                 \/ Issued(p)[k] = tokens[k]
                 \/ Issued(p)[k].exp \in Seconds /\ ~ Issued(p)[k].out
<1>1. CASE Free = {}
    BY <1>1 DEF Issued, AccountsInv, TypeOK
<1>2. CASE Free # {}
  <2> DEFINE k == CHOOSE i \in Free : \A j \in Free : i <= j
             t == [person |-> p, exp |-> Whole(now + TokenTTL), until |-> 0, out |-> FALSE]
  <2>1. now + TokenTTL \in Nat
      BY AccountsAssumption DEF AccountsInv, TypeOK
  <2>2. t \in Tokens /\ t.exp \in Seconds /\ t.out = FALSE
      BY <2>1, WholeSeconds DEF Tokens
  <2>3. Issued(p) = [tokens EXCEPT ![k] = t]
      BY <1>2 DEF Issued
  <2> HIDE DEF k, t
  <2> QED BY <2>2, <2>3 DEF AccountsInv, TypeOK
<1> QED BY <1>1, <1>2

LEMMA KeptLongEnough ==
    ASSUME AccountsInv, NEW k \in 1 .. MaxTokens, InForce(k), NEW until \in KeptUntil(k)
    PROVE  until \in Nat /\ until + 2 * Second > tokens[k].exp
<1>1. tokens[k] \in Tokens /\ now \in Nat /\ Second \in Nat /\ Second > 0
    BY AccountsAssumption DEF InForce, AccountsInv, TypeOK
<1> PICK x \in Nat : x = tokens[k].exp
    BY <1>1 DEF Tokens
<1>2. x \in Seconds /\ x > Whole(now)
    BY DEF InForce, AccountsInv, TokensInv
<1>3. x > now
    BY <1>1, <1>2, ExpiresLater
<1>4. PICK d \in Nat : d = x - now /\ d > 0
    BY <1>1, <1>3
<1>5. PICK ttl \in Nat : ttl = d \div Second /\ Second * ttl + Second > d
    BY Cut
<1>6. PICK s \in {ttl, IF ttl = 0 THEN 0 ELSE ttl - 1} :
          until = now + Second * ttl \/ until = now + Second * (IF s = 0 THEN 1 ELSE s)
    BY <1>4, <1>5 DEF KeptUntil
<1>7. \A n \in Nat : n + 1 >= ttl => now + Second * n \in Nat /\ now + Second * n + 2 * Second > x
  <2> SUFFICES ASSUME NEW n \in Nat, n + 1 >= ttl
               PROVE  now + Second * n \in Nat /\ now + Second * n + 2 * Second > x
      OBVIOUS
  <2>1. Second * n \in Nat /\ Second * ttl \in Nat
      BY <1>1
  <2>2. Second * (n + 1) = Second * n + Second
      BY <1>1
  <2>3. Second * ttl <= Second * (n + 1)
      BY <1>1
  <2> QED BY <1>1, <1>4, <1>5, <2>1, <2>2, <2>3
<1>8. PICK n \in Nat : until = now + Second * n /\ n + 1 >= ttl
    BY <1>6
<1> QED BY <1>7, <1>8

LEMMA LogoutStep ==
    ASSUME AccountsInv, NEW k \in 1 .. MaxTokens, Logout(k)
    PROVE  AccountsInv'
<1>1. PICK until \in KeptUntil(k) : tokens' = [tokens EXCEPT ![k].until = until, ![k].out = TRUE]
    BY DEF Logout
<1>2. UNCHANGED <<world, people, credential, request, requests, founders, wrong, stale, restarted>>
    BY DEF Logout, history
<1>3. until \in Nat /\ until + 2 * Second > tokens[k].exp
    BY KeptLongEnough DEF Logout
<1>4. tokens[k] \in Tokens
    BY DEF Logout, InForce, AccountsInv, TypeOK
<1> DEFINE Out(o, u) == [o EXCEPT !.until = u, !.out = TRUE]
<1>0. \A o \in Tokens, u \in Nat :
          Out(o, u) \in Tokens /\ Out(o, u).exp = o.exp /\ Out(o, u).until = u /\ Out(o, u).out
    BY DEF Tokens
<1> PICK t \in Tokens : /\ t = [tokens[k] EXCEPT !.until = until, !.out = TRUE]
                        /\ t.exp = tokens[k].exp /\ t.until = until /\ t.out
    BY <1>3, <1>4, <1>0
<1>5. tokens' = [tokens EXCEPT ![k] = t]
    BY <1>1
<1>6. tokens' \in [1 .. MaxTokens -> Tokens \cup {NoToken}] /\ tokens'[k] = t
      /\ \A j \in 1 .. MaxTokens : j # k => tokens'[j] = tokens[j]
    BY <1>5 DEF AccountsInv, TypeOK
<1>7. TypeOK'
    BY <1>2, <1>6 DEF AccountsInv, TypeOK, world, Here
<1>8. CountsInv'
    BY <1>2, OthersCount DEF CountsInv, world
<1>9. (NoGuesses /\ CountsAreExact /\ FoundersStay)'
    BY <1>2 DEF AccountsInv, NoGuesses, CountsAreExact, FoundersStay, Here
<1>10. TokensInv'
  <2>1. t.exp \in Seconds
      BY DEF Logout, InForce, AccountsInv, TokensInv
  <2> QED BY <1>2, <1>3, <1>6, <2>1 DEF AccountsInv, TokensInv, world
<1> QED BY <1>7, <1>8, <1>9, <1>10 DEF AccountsInv

LEMMA TickStep ==
    ASSUME AccountsInv, Tick
    PROVE  AccountsInv'
<1>1. UNCHANGED <<database, store, people, credential, tokens, request, requests, founders,
                  wrong, stale, restarted>>
    BY DEF Tick, history
<1>2. now' \in 0 .. MaxTime
    BY AccountsAssumption DEF Tick, AccountsInv, TypeOK
<1>3. TypeOK'
    BY <1>1, <1>2 DEF AccountsInv, TypeOK, Here
<1>4. CountsInv'
    BY <1>1, OthersCount DEF CountsInv
<1>5. (NoGuesses /\ CountsAreExact /\ FoundersStay /\ TokensInv)'
    BY <1>1 DEF AccountsInv, NoGuesses, CountsAreExact, FoundersStay, TokensInv, Here
<1> QED BY <1>3, <1>4, <1>5 DEF AccountsInv

LEMMA RestartStep ==
    ASSUME AccountsInv, Restart
    PROVE  AccountsInv'
<1>1. UNCHANGED <<world, people, credential, requests, founders, wrong, stale>> /\ restarted'
    BY DEF Restart, history
<1>2. Idle \in Requests /\ Idle.kind = "idle"
    BY DEF Requests, Idle
<1>3. request' \in [Workers -> Requests] /\ \A w \in Workers : request'[w].kind = "idle"
    BY <1>2 DEF Restart
<1>4. \A k \in 1 .. MaxTokens :
          \/ tokens'[k] = tokens[k] /\ (tokens[k] = NoToken \/ store = "redis")
          \/ /\ tokens[k] \in Tokens /\ store # "redis"
             /\ tokens'[k] = [tokens[k] EXCEPT !.until = 0]
    BY DEF Restart, AccountsInv, TypeOK
<1>5. \A t \in Tokens : [t EXCEPT !.until = 0] \in Tokens /\ [t EXCEPT !.until = 0].exp = t.exp
    BY DEF Tokens
<1>6. tokens' \in [1 .. MaxTokens -> Tokens \cup {NoToken}]
  <2>1. \A k \in 1 .. MaxTokens : tokens'[k] \in Tokens \cup {NoToken}
    <3> SUFFICES ASSUME NEW k \in 1 .. MaxTokens PROVE tokens'[k] \in Tokens \cup {NoToken}
        OBVIOUS
    <3>1. CASE tokens'[k] = tokens[k]
        BY <3>1 DEF AccountsInv, TypeOK
    <3>2. CASE tokens[k] \in Tokens /\ tokens'[k] = [tokens[k] EXCEPT !.until = 0]
        BY <3>2, <1>5
    <3> QED BY <3>1, <3>2, <1>4
  <2> QED BY <2>1 DEF Restart
<1>7. TypeOK'
    BY <1>1, <1>3, <1>6 DEF AccountsInv, TypeOK, world, Here
<1>8. CountsInv'
    BY <1>3 DEF CountsInv, CountOf, Counted, KindOf
<1>9. (NoGuesses /\ CountsAreExact /\ FoundersStay)'
    BY <1>1 DEF AccountsInv, NoGuesses, CountsAreExact, FoundersStay, Here
<1>10. TokensInv'
    BY <1>1, <1>4, <1>5, NoTokenAssumption DEF AccountsInv, TokensInv, world
<1> QED BY <1>7, <1>8, <1>9, <1>10 DEF AccountsInv

-----------------------------------------------------------------------------
(* What is saved                                                           *)

(* The credential that Save leaves: everything it writes for its person.   *)
LEMMA SavedAsRead ==
    ASSUME AccountsInv, NEW w \in Workers, Save(w), NEW q \in Requests, q = request[w],
           q.found = NoCredential => credential[q.person] = NoCredential /\ Here(q.person)
    PROVE  /\ q.person \in Persons /\ Here(q.person)
           /\ \A o \in Persons : o # q.person => credential'[o] = credential[o]
           /\ credential'[q.person] \in Credentials
           /\ q.read = credential[q.person] /\ q.found = credential[q.person] =>
                 credential'[q.person] = q.new
           /\ q.found # NoCredential =>
                 /\ credential[q.person] \in Credentials
                 /\ q.new.hash = q.found.hash =>
                       credential'[q.person].hash = credential[q.person].hash
                 /\ credential'[q.person].locked = IF q.new.locked = q.found.locked
                       THEN credential[q.person].locked ELSE q.new.locked
<1>1. q.kind \in {"failure", "success", "set"} /\ q.stage = "found"
    BY DEF Save
<1>2. q.person \in Persons /\ q.found \in Credentials \cup {NoCredential} /\ q.new \in Credentials
    BY <1>1, RequestTypes
<1> PICK p \in Persons : p = q.person
    BY <1>2
<1>3. CountOf(w)
    BY DEF AccountsInv, CountsInv
<1>4. q.found # NoCredential => credential[p] # NoCredential
    BY <1>1, <1>3 DEF CountOf, Counted, KindOf
<1> DEFINE new == IF q.found = NoCredential THEN q.new
                  ELSE ChangedColumns(credential[p], q.found, q.new)
<1>6. credential' = [credential EXCEPT ![p] = new]
    BY DEF Save
<1>7. credential[p] # NoCredential => credential[p] \in Credentials /\ Here(p)
    BY DEF AccountsInv, TypeOK
<1>8. Here(p)
    BY <1>4, <1>7
<1>9. CASE q.found = NoCredential
  <2>1. new = q.new
      BY <1>9
  <2> HIDE DEF new
  <2> QED BY <1>2, <1>6, <1>8, <1>9, <2>1 DEF AccountsInv, TypeOK
<1>10. CASE q.found # NoCredential
  <2>1. new = ChangedColumns(credential[p], q.found, q.new) /\ q.found \in Credentials
        /\ credential[p] \in Credentials
      BY <1>2, <1>4, <1>7, <1>10
  <2>2. /\ new \in Credentials /\ (q.found = credential[p] => new = q.new)
        /\ q.new.hash = q.found.hash => new.hash = credential[p].hash
        /\ new.locked = IF q.new.locked = q.found.locked THEN credential[p].locked
                        ELSE q.new.locked
      BY <1>2, <2>1, Columns
  <2> HIDE DEF new
  <2>3. credential'[p] = new /\ \A o \in Persons : o # p => credential'[o] = credential[o]
      BY <1>6 DEF AccountsInv, TypeOK
  <2> QED BY <1>2, <1>8, <1>10, <2>1, <2>2, <2>3
<1> QED BY <1>9, <1>10

LEMMA SaveStep ==
    ASSUME AccountsInv, NEW w \in Workers, Save(w)
    PROVE  AccountsInv'
<1> PICK q \in Requests : q = request[w]
    BY DEF AccountsInv, TypeOK
<1>1. q.kind \in {"failure", "success", "set"} /\ q.stage = "found"
    BY DEF Save
<1> PICK p \in Persons : p = q.person
    BY <1>1, RequestTypes
<1>2. UNCHANGED <<world, people, requests, founders, restarted>>
    BY DEF Save
<1>3. Idle \in Requests /\ Idle.kind = "idle"
    BY DEF Requests, Idle
<1>4. request' \in [Workers -> Requests] /\ request'[w] = Idle
      /\ \A v \in Workers : v # w => request'[v] = request[v]
    BY <1>3 DEF Save, Becomes, AccountsInv, TypeOK
<1> DEFINE writes == q.found = NoCredential => credential[p] = NoCredential /\ Here(p)
<1>0. ~ writes => UNCHANGED <<credential, stale, wrong>>
    BY DEF Save
<1>5. /\ \A o \in Persons : o # p => credential'[o] = credential[o]
      /\ \/ credential' = credential
         \/ credential'[p] \in Credentials /\ Here(p)
    BY <1>0, SavedAsRead
<1>6. \A o \in Persons : credential[o] # NoCredential => credential'[o] # NoCredential
    BY <1>5, NoCredentialAssumption
<1>7. credential' \in [Persons -> Credentials \cup {NoCredential}]
  <2>1. \A o \in Persons : credential'[o] \in Credentials \cup {NoCredential}
      BY <1>5 DEF AccountsInv, TypeOK
  <2>2. credential' = credential \/ \E c : credential' = [credential EXCEPT ![p] = c]
      BY DEF Save
  <2>3. credential' = [o \in Persons |-> credential'[o]]
      BY <2>2 DEF AccountsInv, TypeOK
  <2> QED BY <2>1, <2>3
<1>8. /\ tokens' \in [1 .. MaxTokens -> Tokens \cup {NoToken}]
      /\ \A k \in 1 .. MaxTokens :
            tokens'[k] = tokens[k] \/ (tokens'[k].exp \in Seconds /\ ~ tokens'[k].out)
  <2>1. tokens' = tokens \/ tokens' = Issued(p)
      BY DEF Save
  <2> QED BY <2>1, IssuedTokens DEF AccountsInv, TypeOK
<1>9. wrong' \in [Persons -> Nat] /\ \A o \in Persons : o # p => wrong'[o] = wrong[o]
    BY DEF Save, AccountsInv, TypeOK
<1>10. stale' \subseteq Persons /\ stale \subseteq stale'
    BY DEF Save, AccountsInv, TypeOK
<1>11. TypeOK'
  <2>1. \A o \in Persons : credential'[o] # NoCredential => people[o] = "here"
      BY <1>5 DEF AccountsInv, TypeOK, Here
  <2>2. \A v \in Workers : request'[v].kind \in {"failure", "success"} =>
            credential'[request'[v].person] # NoCredential
    <3> SUFFICES ASSUME NEW v \in Workers, request'[v].kind \in {"failure", "success"}
                 PROVE  credential'[request'[v].person] # NoCredential
        OBVIOUS
    <3>1. v # w /\ request'[v] = request[v]
        BY <1>3, <1>4
    <3>2. request[v] \in Requests /\ credential[request[v].person] # NoCredential
        BY <3>1 DEF AccountsInv, TypeOK
    <3>3. request[v].person \in Persons
        BY <3>1, <3>2, RequestTypes
    <3> QED BY <1>6, <3>1, <3>2, <3>3
  <2> QED BY <1>2, <1>4, <1>7, <1>8, <1>9, <1>10, <2>1, <2>2 DEF AccountsInv, TypeOK, world, Here
<1>12. CountsInv'
  <2>1. CountOf(w)'
      BY <1>3, <1>4 DEF CountOf, Counted, KindOf
  <2>2. \A v \in Workers : v # w => CountOf(v)'
      BY <1>2, <1>4, <1>6, OthersCount DEF world
  <2> QED BY <2>1, <2>2 DEF CountsInv
<1>13. CountsAreExact' /\ NoGuesses'
  <2>1. CASE ~ writes
      BY <1>0, <2>1 DEF AccountsInv, CountsAreExact, NoGuesses
  <2>2. CASE writes
    <3>1. stale' = (IF q.read = credential[p] /\ q.found = credential[p] THEN stale
                    ELSE stale \cup {p})
          /\ wrong' = [wrong EXCEPT ![p] = IF q.kind = "failure" THEN @ + 1 ELSE 0]
        BY <2>2 DEF Save
    <3>2. wrong'[p] = IF q.kind = "failure" THEN wrong[p] + 1 ELSE 0
        BY <3>1 DEF AccountsInv, TypeOK
    <3>3. credential'[p] \in Credentials /\ credential'[p] # NoCredential
        BY <2>2, SavedAsRead, NoCredentialAssumption
    <3>4. NoGuesses'
        BY <1>5, <1>9, <3>3 DEF AccountsInv, NoGuesses
    <3>5. ASSUME p \notin stale'
          PROVE  /\ credential'[p].failed = wrong'[p]
                 /\ MaxAttempts > 0 /\ wrong'[p] >= MaxAttempts => credential'[p].locked # NoLock
      <4>1. q.read = credential[p] /\ q.found = credential[p] /\ p \notin stale
          BY <3>1, <3>5
      <4>2. credential'[p] = q.new
          BY <2>2, <4>1, SavedAsRead
      <4>3. CountOf(w)
          BY DEF AccountsInv, CountsInv
      <4>4. CASE q.kind = "failure"
        <5>1. credential[p] # NoCredential /\ q.new.failed = credential[p].failed + 1
              /\ (MaxAttempts > 0 /\ q.new.failed >= MaxAttempts => q.new.locked # NoLock)
            BY <1>1, <4>1, <4>3, <4>4 DEF CountOf, Counted, KindOf
        <5>2. credential[p].failed = wrong[p]
            BY <4>1, <5>1 DEF AccountsInv, CountsAreExact
        <5> QED BY <3>2, <4>2, <4>4, <5>1, <5>2
      <4>5. CASE q.kind # "failure"
        <5>1. q.new.failed = 0
            BY <1>1, <4>3, <4>5 DEF CountOf, Counted, KindOf
        <5> QED BY <3>2, <4>2, <4>5, <5>1, AccountsAssumption
      <4> QED BY <4>4, <4>5
    <3>6. CountsAreExact'
        BY <1>5, <1>9, <1>10, <3>5 DEF AccountsInv, CountsAreExact
    <3> QED BY <3>4, <3>6
  <2> QED BY <2>1, <2>2
<1>14. FoundersStay'
    BY <1>2, <1>6 DEF AccountsInv, FoundersStay, TypeOK, Here
<1>15. TokensInv'
    BY <1>2, <1>8 DEF AccountsInv, TokensInv, world
<1> QED BY <1>11, <1>12, <1>13, <1>14, <1>15 DEF AccountsInv

-----------------------------------------------------------------------------
(* Theorems                                                                *)

LEMMA AccountsStep == AccountsInv /\ [Next]_vars => AccountsInv'
<1> SUFFICES ASSUME AccountsInv, [Next]_vars PROVE AccountsInv'
    OBVIOUS
<1>1. CASE \E w \in Workers : Serving(w)
    BY <1>1, SetupStep, CreateInitialAdminStep, ReadToCountStep, ReadToSaveStep, SaveStep,
       LoginStep, SetPasswordStep DEF Serving
<1>2. CASE \E p \in Persons : AddPerson(p) \/ RemovePerson(p)
    BY <1>2, PeopleStep
<1>3. CASE \E k \in 1 .. MaxTokens : Logout(k)
    BY <1>3, LogoutStep
<1>4. CASE Tick
    BY <1>4, TickStep
<1>5. CASE Restart
    BY <1>5, RestartStep
<1>6. CASE UNCHANGED vars
  <2>1. UNCHANGED <<database, store, now, people, credential, tokens, request, requests,
                    founders, wrong, stale, restarted>>
      BY <1>6 DEF vars
  <2>2. CountsInv'
      BY <2>1, OthersCount DEF CountsInv
  <2>3. TypeOK'
      BY <2>1 DEF AccountsInv, TypeOK, Here
  <2>4. (NoGuesses /\ CountsAreExact /\ FoundersStay /\ TokensInv)'
      BY <2>1 DEF AccountsInv, NoGuesses, CountsAreExact, FoundersStay, TokensInv, Here
  <2> QED BY <2>2, <2>3, <2>4 DEF AccountsInv
<1> QED BY <1>1, <1>2, <1>3, <1>4, <1>5, <1>6 DEF Next

(* The inductive invariant: how the copy a request is about to save was    *)
(* made, and that a credential once there stays.                           *)
THEOREM AccountsCorrect == Spec => []AccountsInv
<1>1. Init => AccountsInv
    BY AccountsInvInit
<1>2. AccountsInv /\ [Next]_vars => AccountsInv'
    BY AccountsStep
<1> QED BY <1>1, <1>2, PTL DEF Spec

(* Types, and only people who are here have credentials.                   *)
THEOREM AccountsTypeCorrect == Spec => []TypeOK
<1>1. AccountsInv => TypeOK
    BY DEF AccountsInv
<1> QED BY <1>1, AccountsCorrect, PTL

(* save() after record_failure and reset_failures: guesses are counted     *)
(* exactly unless a credential was written over one that had changed, and  *)
(* the people of the setup keep their credentials.                         *)
THEOREM CredentialsAlwaysHold == Spec => []CredentialsHold
<1>1. AccountsInv => CredentialsHold
    BY DEF AccountsInv, CredentialsHold
<1> QED BY <1>1, AccountsCorrect, PTL

(* logout and verify_access_token: a revoked token is refused until the    *)
(* last two seconds of its life.                                           *)
THEOREM RevokedAlwaysOut == Spec => []RevokedStayOut
<1>1. AccountsInv => RevokedStayOut
  <2> SUFFICES ASSUME AccountsInv, NEW k \in 1 .. MaxTokens,
                      tokens[k] # NoToken, tokens[k].out, Accepted(k),
                      store = "redis" \/ ~ restarted
               PROVE  now + 2 * Second > tokens[k].exp
      BY DEF RevokedStayOut
  <2>1. tokens[k] \in Tokens /\ now \in Nat /\ Second \in Nat
      BY AccountsAssumption DEF AccountsInv, TypeOK
  <2>2. tokens[k].until \in Nat /\ tokens[k].exp \in Nat
      BY <2>1 DEF Tokens
  <2>3. tokens[k].until + 2 * Second > tokens[k].exp
      BY DEF AccountsInv, TokensInv
  <2>4. tokens[k].until <= now
      BY DEF Accepted
  <2> QED BY <2>1, <2>2, <2>3, <2>4
<1> QED BY <1>1, AccountsCorrect, PTL

(* save() on MySQL: whatever logins overlap, counting them brings no older *)
(* password back, and a failed one clears no lock.                         *)
THEOREM LockoutSavesLocal == Spec => LockoutSavesAreLocal
<1> DEFINE Local ==
        database = "MySQL" => \A p \in Persons :
          /\ LockoutSavesKeepPassword(p)
          /\ credential[p] # NoCredential /\ credential[p].locked # NoLock =>
                \/ credential'[p].locked # NoLock
                \/ \E w \in Workers : Ends(w, p, "set") \/ Ends(w, p, "success")
<1>1. AccountsInv /\ [Next]_vars => [Local]_vars
  <2> SUFFICES ASSUME AccountsInv, Next, database = "MySQL", NEW p \in Persons,
                      credential[p] # NoCredential, credential'[p] # credential[p]
               PROVE  /\ \/ \E w \in Workers : Ends(w, p, "set")
                         \/ credential'[p].hash = credential[p].hash
                      /\ credential[p].locked # NoLock =>
                            \/ credential'[p].locked # NoLock
                            \/ \E w \in Workers : Ends(w, p, "set") \/ Ends(w, p, "success")
      BY DEF LockoutSavesKeepPassword
  <2>1. \A w \in Workers : ~ CreateInitialAdmin(w)
    <3> SUFFICES ASSUME NEW w \in Workers, CreateInitialAdmin(w) PROVE FALSE
        OBVIOUS
    <3>1. PICK o \in Persons : people[o] = "unborn" /\ \A x \in Persons : x # o => credential'[x] = credential[x]
        BY DEF CreateInitialAdmin, AccountsInv, TypeOK
    <3>2. o # p
        BY <3>1 DEF AccountsInv, TypeOK, Here
    <3> QED BY <3>1, <3>2
  <2>2. PICK w \in Workers : Save(w)
      BY <2>1 DEF Next, Serving, Setup, ReadToCount, ReadToSave, Login, SetPassword, AddPerson,
         RemovePerson, Logout, Tick, Restart
  <2> PICK q \in Requests : q = request[w]
      BY DEF AccountsInv, TypeOK
  <2>3. q.kind \in {"failure", "success", "set"} /\ q.stage = "found"
      BY <2>2 DEF Save
  <2>4. q.found = NoCredential => credential[q.person] = NoCredential /\ Here(q.person)
      BY <2>2 DEF Save
  <2>5. q.person = p
      BY <2>2, <2>4, SavedAsRead
  <2>6. q.found # NoCredential
      BY <2>4, <2>5
  <2>7. request'[w] = Idle /\ request[w] # Idle
      BY <2>2, <2>3 DEF Save, Becomes, AccountsInv, TypeOK, Idle
  <2>8. Ends(w, p, q.kind)
      BY <2>3, <2>5, <2>7 DEF Ends
  <2>9. CountOf(w)
      BY DEF AccountsInv, CountsInv
  <2>10. /\ q.kind # "set" => q.new.hash = q.found.hash
         /\ q.kind = "failure" /\ q.new.locked = NoLock => q.found.locked = NoLock
      BY <2>3, <2>9 DEF CountOf, Counted, KindOf
  <2> QED BY <2>2, <2>3, <2>4, <2>5, <2>6, <2>8, <2>10, SavedAsRead
<1> QED BY <1>1, AccountsCorrect, PTL DEF Spec, LockoutSavesAreLocal

=============================================================================
