---------------------------- MODULE SessionsProofs ----------------------------
(***************************************************************************)
(* Proofs about AuthSessions, for any threads, accounts, profiles and      *)
(* bounds: the types, that the account decides at every request, that what *)
(* was ended stays so, and that a family of refresh tokens has one live    *)
(* member.                                                                 *)
(*                                                                         *)
(* The invariant says what is still true of the copies that requests hold  *)
(* (CallOf): how a changed account was made from the one read, that rights *)
(* issued under a version are those of the version, that a session read is *)
(* the one stored until it is ended, and that a token keeps its family.    *)
(*                                                                         *)
(* The last part is about rules and sessions run together: a step is one of *)
(* either (AccessComposes), so what holds of each holds of both.           *)
(***************************************************************************)
EXTENDS AccessProofs, MCAccess, FiniteSetTheorems

(* Rights c issued to account a are those it has, or of an older version.  *)
Current(a, c) ==
    a \notin outdated =>
        /\ c.version <= account[a].version
        /\ c.version = account[a].version => c.profile = account[a].profile

CallKind(w) == call[w].kind

AccountCall(w) ==
    /\ CallKind(w) = "switch off" => call[w].new.status # "active"
    /\ CallKind(w) = "profile" => call[w].new.status = call[w].read.status
    /\ CallKind(w) \in {"switch off", "profile"} =>
          \/ call[w].new = call[w].read
          \/ call[w].new.version = call[w].read.version + 1

RightsCall(w) ==
    /\ CallKind(w) \in {"login", "create"} => Current(call[w].account, call[w].read)
    /\ CallKind(w) = "create" => Current(call[w].account, call[w].found)
    /\ CallKind(w) \in {"touch", "logout"} => Current(call[w].read.account, call[w].read)
    /\ CallKind(w) \in {"rotate", "succeed"} => Current(call[w].read.account, call[w].found)

SessionCall(w) ==
    CallKind(w) \in {"touch", "logout"} /\ call[w].session \notin ended =>
        session[call[w].session] = call[w].read

RefreshCall(w) ==
    /\ CallKind(w) \in {"rotate", "succeed"} =>
          /\ refresh[call[w].token] # NoRefresh
          /\ refresh[call[w].token].family = call[w].read.family
          /\ ~ call[w].read.rotated /\ ~ call[w].read.revoked
    /\ CallKind(w) = "cut" =>
          /\ call[w].family \in Families
          /\ \A r \in 1 .. RefreshIds : call[w].records[r] # NoRefresh =>
                /\ refresh[r] # NoRefresh
                /\ refresh[r].family = call[w].family
                /\ call[w].records[r].family = call[w].family

CallOf(w) == AccountCall(w) /\ RightsCall(w) /\ SessionCall(w) /\ RefreshCall(w)

CallsInv == \A w \in Threads : CallOf(w)

IssuedInv ==
    /\ \A s \in 1 .. SessionIds : session[s] # NoSession => Current(session[s].account, session[s])
    /\ \A t \in access : Current(t.account, t)

Usable(s) == session[s] # NoSession /\ ~ session[s].revoked

EndedInv == \A s \in ended \ revived : ~ Usable(s)

Sweeping(a) == \E w \in Threads : CallKind(w) = "sweep" /\ call[w].account = a

EraInv ==
    \A s \in 1 .. SessionIds \ revived :
        Usable(s) /\ session[s].era < era[session[s].account]
            => session[s].account \in late \/ Sweeping(session[s].account)

FamilyInv ==
    /\ cut \subseteq Families
    /\ \A f \in Families \ overlapped :
          /\ \A r, q \in Family(f) : IsLive(r) /\ IsLive(q) => r = q
          /\ f \in cut => \A r \in Family(f) : ~ IsLive(r)

(* Between the two writes of a rotation nothing lives in the family, and   *)
(* no other rotation of it is between its own.                             *)
Succeeds(x, f) == CallKind(x) = "succeed" /\ call[x].read.family = f

PendingInv ==
    \A x \in Threads, f \in Families \ overlapped : Succeeds(x, f) =>
        /\ \A r \in Family(f) : ~ IsLive(r)
        /\ f \in cut => refresh[call[x].token].revoked
        /\ \A y \in Threads : Succeeds(y, f) => y = x

SessionsInv ==
    /\ SessionsTypeOK /\ CallsInv /\ IssuedInv /\ OffStaysOff
    /\ EndedInv /\ EraInv /\ FamilyInv

-----------------------------------------------------------------------------
(* Types                                                                   *)

LEMMA CallTypes ==
    ASSUME NEW c \in Calls
    PROVE  /\ c.kind \in {"idle", "switch off", "profile", "sweep", "login", "create", "touch",
                          "logout", "rotate", "succeed", "cut"}
           /\ c.kind \in {"switch off", "profile"} =>
                 c.account \in Accounts /\ c.read \in AccountRecords /\ c.new \in AccountRecords
           /\ c.kind = "sweep" => c.account \in Accounts
           /\ c.kind \in {"login", "create"} =>
                 c.account \in Accounts /\ c.read \in AccountRecords /\ c.era \in Nat
           /\ c.kind = "create" => c.found \in AccountRecords
           /\ c.kind \in {"touch", "logout"} =>
                 c.session \in 1 .. SessionIds /\ c.read \in SessionRecords
           /\ c.kind \in {"rotate", "succeed"} =>
                 /\ c.token \in 1 .. RefreshIds /\ c.read \in RefreshRecords
                 /\ c.found \in AccountRecords
           /\ c.kind = "cut" =>
                 /\ c.family \in 1 .. RefreshIds
                 /\ c.records \in [1 .. RefreshIds -> RefreshRecords \cup {NoRefresh}]
<1>1. CASE c = NoCall
    BY <1>1 DEF NoCall
<1>2. CASE c \in [kind : {"switch off", "profile"}, account : Accounts, read : AccountRecords,
                  new : AccountRecords]
    BY <1>2
<1>3. CASE c \in [kind : {"sweep"}, account : Accounts]
    BY <1>3
<1>4. CASE c \in [kind : {"login"}, account : Accounts, read : AccountRecords, era : Nat]
    BY <1>4
<1>5. CASE c \in [kind : {"create"}, account : Accounts, read : AccountRecords, era : Nat,
                  found : AccountRecords]
    BY <1>5
<1>6. CASE c \in [kind : {"touch", "logout"}, session : 1 .. SessionIds, read : SessionRecords]
    BY <1>6
<1>7. CASE c \in [kind : {"rotate", "succeed"}, token : 1 .. RefreshIds, read : RefreshRecords,
                  found : AccountRecords]
    BY <1>7
<1>8. CASE c \in [kind : {"cut"}, family : 1 .. RefreshIds,
                  records : [1 .. RefreshIds -> RefreshRecords \cup {NoRefresh}]]
    BY <1>8
<1> QED BY <1>1, <1>2, <1>3, <1>4, <1>5, <1>6, <1>7, <1>8 DEF Calls

LEMMA FreshIsFree ==
    ASSUME NEW records, NEW none, NEW i, Fresh(records, none, i)
    PROVE  i \in DOMAIN records /\ (i \in Nat => records[i] = none)
<1>1. i \in Unused(records, none)
    BY DEF Fresh
<1>2. i \in DOMAIN records /\ \A j \in DOMAIN records : j >= i => records[j] = none
    BY <1>1 DEF Unused
<1> QED BY <1>2

LEMMA SessionsInvInit == SessionsInit => SessionsInv
<1> SUFFICES ASSUME SessionsInit PROVE SessionsInv
    OBVIOUS
<1>1. SessionsTypeOK
    BY SessionsAssumption DEF SessionsInit, SessionsTypeOK, AccountRecords, Statuses, Calls
<1>2. CallsInv
    BY DEF SessionsInit, CallsInv, CallOf, AccountCall, RightsCall, SessionCall, RefreshCall,
                CallKind, NoCall
<1>3. IssuedInv /\ OffStaysOff /\ EndedInv /\ EraInv
    BY DEF SessionsInit, IssuedInv, OffStaysOff, EndedInv, EraInv, Usable
<1>4. FamilyInv
    BY DEF SessionsInit, FamilyInv, Families
<1> QED BY <1>1, <1>2, <1>3, <1>4 DEF SessionsInv

-----------------------------------------------------------------------------
(* A request arrives: it reads, and nothing else changes but, when a       *)
(* password is set, its era.                                               *)

LEMMA StartsCalls ==
    ASSUME SessionsInv, NEW w \in Threads, NEW q \in Calls, Starts(w, q)
    PROVE  /\ call[w] = NoCall /\ CallKind(w) = "idle"
           /\ call' \in [Threads -> Calls] /\ call'[w] = q
           /\ \A x \in Threads : x # w => call'[x] = call[x]
           /\ calls' \in 0 .. MaxCalls
    BY SessionsAssumption DEF Starts, SessionsInv, SessionsTypeOK, CallKind, NoCall

(* Copies made by a request that arrives.                                  *)
LEMMA ArrivesWith ==
    ASSUME SessionsInv, NEW w \in Threads, NEW q \in Calls, Starts(w, q),
           UNCHANGED <<account, session, access, refresh, history>>, CallOf(w)',
           \/ era' = era
           \/ \E a \in Accounts : /\ era[a] < MaxEra /\ era' = [era EXCEPT ![a] = @ + 1]
                                  /\ q.kind = "sweep" /\ q.account = a
    PROVE  SessionsInv'
<1> USE DEF SessionsInv
<1>1. /\ call[w] = NoCall /\ CallKind(w) = "idle"
      /\ call' \in [Threads -> Calls] /\ call'[w] = q
      /\ \A x \in Threads : x # w => call'[x] = call[x]
      /\ calls' \in 0 .. MaxCalls
    BY StartsCalls
<1>2. /\ UNCHANGED <<account, session, access, refresh>>
      /\ UNCHANGED <<off, outdated, ended, revived, cut, overlapped, late>>
    BY DEF history
<1>3. Families' = Families /\ \A f : Family(f)' = Family(f) /\ \A r : IsLive(r)' = IsLive(r)
    BY <1>2 DEF Families, Family, IsLive
<1>4. era' \in [Accounts -> 0 .. MaxEra]
  <2>1. ASSUME NEW a \in Accounts, era[a] < MaxEra, era' = [era EXCEPT ![a] = @ + 1]
        PROVE  era' \in [Accounts -> 0 .. MaxEra]
    <3>1. era \in [Accounts -> 0 .. MaxEra] /\ era[a] + 1 \in 0 .. MaxEra
        BY <2>1, SessionsAssumption DEF SessionsTypeOK
    <3> QED BY <2>1, <3>1
  <2>2. era' = era => era' \in [Accounts -> 0 .. MaxEra]
      BY DEF SessionsTypeOK
  <2> QED BY <2>1, <2>2
<1>5. SessionsTypeOK'
    BY <1>1, <1>2, <1>3, <1>4 DEF SessionsTypeOK
<1>6. CallsInv'
  <2>1. ASSUME NEW x \in Threads, x # w PROVE CallOf(x)'
    <3>1. CallOf(x) /\ call'[x] = call[x]
        BY <1>1, <2>1 DEF CallsInv
    <3>2. CallKind(x)' = CallKind(x)
        BY <3>1 DEF CallKind
    <3>3. AccountCall(x)' /\ SessionCall(x)'
        BY <1>2, <3>1, <3>2 DEF CallOf, AccountCall, SessionCall
    <3>4. RightsCall(x)'
        BY <1>2, <3>1, <3>2 DEF CallOf, RightsCall, Current
    <3>5. RefreshCall(x)'
        BY <1>2, <1>3, <3>1, <3>2 DEF CallOf, RefreshCall
    <3> QED BY <3>3, <3>4, <3>5 DEF CallOf
  <2> QED BY <2>1 DEF CallsInv
<1>7. IssuedInv' /\ OffStaysOff' /\ EndedInv'
    BY <1>2 DEF IssuedInv, OffStaysOff, EndedInv, Usable, Current, IsActive
<1>8. EraInv'
  <2> SUFFICES ASSUME NEW s \in 1 .. SessionIds \ revived, Usable(s),
                      session[s].era < era'[session[s].account]
               PROVE  session[s].account \in late \/ Sweeping(session[s].account)'
      BY <1>2 DEF EraInv, Usable
  <2>1. CASE era' = era
    <3>1. session[s].account \in late \/ Sweeping(session[s].account)
        BY <2>1 DEF EraInv
    <3>2. Sweeping(session[s].account) => Sweeping(session[s].account)'
        BY <1>1, <1>2 DEF Sweeping, CallKind
    <3> QED BY <3>1, <3>2
  <2>2. CASE era' # era
    <3>1. PICK a \in Accounts : /\ era' = [era EXCEPT ![a] = @ + 1]
                               /\ q.kind = "sweep" /\ q.account = a
        BY <2>2
    <3>2. session[s].account \in Accounts
        BY DEF SessionsTypeOK, Usable, SessionRecords
    <3>3. CASE session[s].account = a
        BY <1>1, <1>2, <3>1, <3>3 DEF Sweeping, CallKind
    <3>4. CASE session[s].account # a
      <4>1. era'[session[s].account] = era[session[s].account]
          BY <3>1, <3>2, <3>4 DEF SessionsTypeOK
      <4>2. session[s].account \in late \/ Sweeping(session[s].account)
          BY <4>1 DEF EraInv
      <4>3. Sweeping(session[s].account) => Sweeping(session[s].account)'
          BY <1>1, <1>2 DEF Sweeping, CallKind
      <4> QED BY <4>2, <4>3
    <3> QED BY <3>3, <3>4
  <2> QED BY <2>1, <2>2
<1>9. FamilyInv'
    BY <1>2, <1>3 DEF FamilyInv
<1> QED BY <1>5, <1>6, <1>7, <1>8, <1>9

LEMMA MarkedAccounts ==
    ASSUME NEW c \in AccountRecords, NEW profile \in SessionProfiles
    PROVE  /\ MarkDisabled(c) \in AccountRecords /\ MarkDisabled(c).status # "active"
           /\ MarkDisabled(c) = c \/ MarkDisabled(c).version = c.version + 1
           /\ MarkDeleted(c) \in AccountRecords /\ MarkDeleted(c).status # "active"
           /\ MarkDeleted(c) = c \/ MarkDeleted(c).version = c.version + 1
           /\ WithProfile(c, profile) \in AccountRecords
           /\ WithProfile(c, profile).status = c.status
           /\ WithProfile(c, profile) = c \/ WithProfile(c, profile).version = c.version + 1
<1>1. /\ c.status \in Statuses /\ c.profile \in SessionProfiles /\ c.version \in Nat
      /\ c = [status |-> c.status, profile |-> c.profile, version |-> c.version]
    BY DEF AccountRecords
<1>2. /\ c.status # "disabled" => MarkDisabled(c) = [status |-> "disabled", profile |-> c.profile,
                                                  version |-> c.version + 1]
      /\ c.status = "disabled" => MarkDisabled(c) = c
    BY <1>1 DEF MarkDisabled
<1>3. /\ c.status # "deleted" => MarkDeleted(c) = [status |-> "deleted", profile |-> c.profile,
                                                version |-> c.version + 1]
      /\ c.status = "deleted" => MarkDeleted(c) = c
    BY <1>1 DEF MarkDeleted
<1>4. /\ profile # c.profile => WithProfile(c, profile) = [status |-> c.status, profile |-> profile,
                                                        version |-> c.version + 1]
      /\ profile = c.profile => WithProfile(c, profile) = c
    BY <1>1 DEF WithProfile
<1>5. ASSUME NEW s \in Statuses, NEW p \in SessionProfiles
      PROVE  [status |-> s, profile |-> p, version |-> c.version + 1] \in AccountRecords
    BY <1>1 DEF AccountRecords
<1>6. /\ MarkDisabled(c) \in AccountRecords /\ MarkDisabled(c).status # "active"
      /\ MarkDisabled(c) = c \/ MarkDisabled(c).version = c.version + 1
    BY <1>1, <1>2, <1>5 DEF Statuses
<1>7. /\ MarkDeleted(c) \in AccountRecords /\ MarkDeleted(c).status # "active"
      /\ MarkDeleted(c) = c \/ MarkDeleted(c).version = c.version + 1
    BY <1>1, <1>3, <1>5 DEF Statuses
<1>8. /\ WithProfile(c, profile) \in AccountRecords
      /\ WithProfile(c, profile).status = c.status
      /\ WithProfile(c, profile) = c \/ WithProfile(c, profile).version = c.version + 1
    BY <1>1, <1>4, <1>5
<1> QED BY <1>6, <1>7, <1>8

LEMMA RewriteKeeps ==
    ASSUME SessionsInv, NEW w \in Threads, NEW kind \in {"switch off", "profile"},
           NEW a \in Accounts, NEW new \in AccountRecords, Rewrite(w, kind, a, new),
           kind = "switch off" => new.status # "active",
           kind = "profile" => new.status = account[a].status,
           new = account[a] \/ new.version = account[a].version + 1
    PROVE  SessionsInv'
<1> DEFINE q == [kind |-> kind, account |-> a, read |-> account[a], new |-> new]
<1>1. Starts(w, q) /\ UNCHANGED <<account, era, session, access, refresh, history>>
    BY DEF Rewrite
<1>2. account[a] \in AccountRecords
    BY DEF SessionsInv, SessionsTypeOK
<1>3. q \in Calls
    BY <1>2 DEF Calls
<1>4. call'[w] = q
    BY <1>1, <1>3, StartsCalls
<1>5. q.kind = kind /\ q.new = new /\ q.read = account[a]
    OBVIOUS
<1> HIDE DEF q
<1>6. CallKind(w)' = kind /\ call'[w].new = new /\ call'[w].read = account[a]
    BY <1>4, <1>5 DEF CallKind
<1>7. AccountCall(w)'
    BY <1>6 DEF AccountCall
<1>8. RightsCall(w)' /\ SessionCall(w)' /\ RefreshCall(w)'
    BY <1>6 DEF RightsCall, SessionCall, RefreshCall
<1> QED BY <1>1, <1>3, <1>7, <1>8, ArrivesWith DEF CallOf

LEMMA ArrivingKeeps ==
    ASSUME SessionsInv, NEW w \in Threads, Arriving(w)
    PROVE  SessionsInv'
<1>1. ASSUME NEW a \in Accounts PROVE account[a] \in AccountRecords
    BY DEF SessionsInv, SessionsTypeOK
<1>2. ASSUME NEW a \in Accounts, DisableAccount(w, a) PROVE SessionsInv'
    BY <1>1, <1>2, MarkedAccounts, RewriteKeeps, SessionsAssumption DEF DisableAccount
<1>3. ASSUME NEW a \in Accounts, DeleteAccount(w, a) PROVE SessionsInv'
    BY <1>1, <1>3, MarkedAccounts, RewriteKeeps, SessionsAssumption DEF DeleteAccount
<1>4. ASSUME NEW a \in Accounts, NEW p \in SessionProfiles, SetProfile(w, a, p) PROVE SessionsInv'
    BY <1>1, <1>4, MarkedAccounts, RewriteKeeps DEF SetProfile
<1>5. ASSUME NEW a \in Accounts, SetPassword(w, a) PROVE SessionsInv'
  <2> DEFINE q == [kind |-> "sweep", account |-> a]
  <2>1. /\ Starts(w, q) /\ UNCHANGED <<account, session, access, refresh, history>>
        /\ era[a] < MaxEra /\ era' = [era EXCEPT ![a] = @ + 1]
      BY <1>5 DEF SetPassword
  <2>2. q \in Calls
      BY DEF Calls
  <2>3. call'[w] = q
      BY <2>1, <2>2, StartsCalls
  <2>4. CallOf(w)'
      BY <2>3 DEF CallOf, AccountCall, RightsCall, SessionCall, RefreshCall, CallKind
  <2>5. q.kind = "sweep" /\ q.account = a
      OBVIOUS
  <2> HIDE DEF q
  <2> QED BY <2>1, <2>2, <2>4, <2>5, ArrivesWith
<1>6. ASSUME NEW a \in Accounts, Login(w, a) PROVE SessionsInv'
  <2> DEFINE q == [kind |-> "login", account |-> a, read |-> account[a], era |-> era[a]]
  <2>1. Starts(w, q) /\ UNCHANGED <<account, era, session, access, refresh, history>>
      BY <1>6 DEF Login
  <2>2. era[a] \in Nat
      BY SessionsAssumption DEF SessionsInv, SessionsTypeOK
  <2>3. q \in Calls
      BY <1>1, <2>2 DEF Calls
  <2>4. call'[w] = q
      BY <2>1, <2>3, StartsCalls
  <2>5. CallOf(w)'
    <3>1. Current(a, account[a])'
        BY <1>1, <2>1 DEF Current, AccountRecords
    <3>2. account' = account
        BY <2>1
    <3> QED BY <2>4, <3>1, <3>2
            DEF CallOf, AccountCall, RightsCall, SessionCall, RefreshCall, CallKind, Current
  <2> HIDE DEF q
  <2> QED BY <2>1, <2>3, <2>5, ArrivesWith
<1>7. ASSUME NEW s \in 1 .. SessionIds, GetSession(w, s) \/ RevokeSession(w, s) PROVE SessionsInv'
  <2>1. PICK kind \in {"touch", "logout"} :
            /\ Starts(w, [kind |-> kind, session |-> s, read |-> session[s]])
            /\ session[s] # NoSession
            /\ UNCHANGED <<account, era, session, access, refresh, history>>
      BY <1>7 DEF GetSession, RevokeSession, Valid
  <2> DEFINE q == [kind |-> kind, session |-> s, read |-> session[s]]
  <2>2. session[s] \in SessionRecords
      BY <2>1 DEF SessionsInv, SessionsTypeOK
  <2>3. q \in Calls
      BY <2>2 DEF Calls
  <2>4. call'[w] = q
      BY <2>1, <2>3, StartsCalls
  <2>5. Current(session[s].account, session[s])
      BY <2>1 DEF SessionsInv, IssuedInv
  <2>6. CallKind(w)' = kind /\ call'[w].session = s /\ call'[w].read = session[s]
      BY <2>4 DEF CallKind
  <2>7. CallOf(w)'
    <3>1. RightsCall(w)'
        BY <2>1, <2>5, <2>6 DEF RightsCall, Current, history
    <3> QED BY <2>1, <2>6, <3>1 DEF CallOf, AccountCall, SessionCall, RefreshCall
  <2> HIDE DEF q
  <2> QED BY <2>1, <2>3, <2>7, ArrivesWith DEF q
<1>8. ASSUME NEW r \in 1 .. RefreshIds, Rotate(w, r) PROVE SessionsInv'
  <2> DEFINE a == refresh[r].account
             q == [kind |-> "rotate", token |-> r, read |-> refresh[r], found |-> account[a]]
  <2>1. /\ Starts(w, q) /\ UNCHANGED <<account, era, session, access, refresh, history>>
        /\ refresh[r] # NoRefresh /\ ~ refresh[r].rotated /\ ~ refresh[r].revoked
      BY <1>8 DEF Rotate, IsLive
  <2>2. refresh[r] \in RefreshRecords
      BY <2>1 DEF SessionsInv, SessionsTypeOK
  <2>3. a \in Accounts
      BY <2>2 DEF RefreshRecords
  <2>4. q \in Calls
      BY <1>1, <2>2, <2>3 DEF Calls
  <2>5. call'[w] = q
      BY <2>1, <2>4, StartsCalls
  <2>6. CallOf(w)'
    <3>1. Current(a, account[a])
        BY <1>1, <2>3 DEF Current, AccountRecords
    <3>2. /\ CallKind(w)' = "rotate" /\ call'[w].token = r /\ call'[w].read = refresh[r]
          /\ call'[w].found = account[a]
        BY <2>5 DEF CallKind
    <3>3. RightsCall(w)'
        BY <2>1, <3>1, <3>2 DEF RightsCall, Current, history
    <3> QED BY <2>1, <3>2, <3>3 DEF CallOf, AccountCall, SessionCall, RefreshCall
  <2> HIDE DEF q
  <2> QED BY <2>1, <2>4, <2>6, ArrivesWith
<1>9. ASSUME NEW f \in 1 .. RefreshIds, RevokeFamily(w, f) PROVE SessionsInv'
  <2> DEFINE records == [r \in 1 .. RefreshIds |-> IF r \in Family(f) THEN refresh[r] ELSE NoRefresh]
             q == [kind |-> "cut", family |-> f, records |-> records]
  <2>1. /\ Starts(w, q) /\ UNCHANGED <<account, era, session, access, refresh, history>>
        /\ f \in Families
      BY <1>9 DEF RevokeFamily
  <2>2. records \in [1 .. RefreshIds -> RefreshRecords \cup {NoRefresh}]
      BY DEF SessionsInv, SessionsTypeOK
  <2>3. q \in Calls
      BY <2>2 DEF Calls
  <2>4. call'[w] = q
      BY <2>1, <2>3, StartsCalls
  <2>5. \A r \in 1 .. RefreshIds : records[r] # NoRefresh =>
            refresh[r] # NoRefresh /\ refresh[r].family = f /\ records[r].family = f
      BY DEF Family
  <2>6. q.kind = "cut" /\ q.family = f /\ q.records = records
      OBVIOUS
  <2> HIDE DEF records, q
  <2>7. CallKind(w)' = "cut" /\ call'[w].family = f /\ call'[w].records = records
      BY <2>4, <2>6 DEF CallKind
  <2>8. refresh' = refresh /\ Families' = Families
      BY <2>1 DEF Families
  <2>9. RefreshCall(w)'
      BY <2>1, <2>5, <2>7, <2>8 DEF RefreshCall
  <2>10. AccountCall(w)' /\ RightsCall(w)' /\ SessionCall(w)'
      BY <2>7 DEF AccountCall, RightsCall, SessionCall
  <2> QED BY <2>1, <2>3, <2>9, <2>10, ArrivesWith DEF CallOf
<1> QED BY <1>2, <1>3, <1>4, <1>5, <1>6, <1>7, <1>8, <1>9 DEF Arriving

-----------------------------------------------------------------------------
(* A request saves. What any step may do to the copies others hold:        *)

AccountMoves ==
    /\ outdated \subseteq outdated'
    /\ \A a \in Accounts \ outdated' :
          account'[a] = account[a] \/ account'[a].version = account[a].version + 1

SessionMoves ==
    /\ ended \subseteq ended'
    /\ \A s \in 1 .. SessionIds \ ended' : session'[s] = session[s] \/ session[s] = NoSession

RefreshMoves ==
    \A r \in 1 .. RefreshIds : refresh[r] # NoRefresh =>
        refresh'[r] # NoRefresh /\ refresh'[r].family = refresh[r].family

LEMMA BecomesCalls ==
    ASSUME SessionsInv, NEW w \in Threads, NEW q \in Calls, Becomes(w, q)
    PROVE  /\ call' \in [Threads -> Calls] /\ call'[w] = q
           /\ \A x \in Threads : x # w => call'[x] = call[x]
    BY DEF Becomes, SessionsInv, SessionsTypeOK

LEMMA RightsKept ==
    ASSUME SessionsTypeOK, AccountMoves, NEW a \in Accounts, NEW c, c.version \in Nat,
           Current(a, c)
    PROVE  Current(a, c)'
<1> SUFFICES ASSUME a \notin outdated'
             PROVE  /\ c.version <= account'[a].version
                    /\ c.version = account'[a].version => c.profile = account'[a].profile
    BY DEF Current
<1>1. a \notin outdated
    BY DEF AccountMoves
<1>2. account[a].version \in Nat
    BY DEF SessionsTypeOK, AccountRecords
<1>3. CASE account'[a] = account[a]
    BY <1>1, <1>3 DEF Current
<1>4. CASE account'[a].version = account[a].version + 1
    BY <1>1, <1>2, <1>4 DEF Current
<1> QED BY <1>3, <1>4 DEF AccountMoves

LEMMA OthersKeep ==
    ASSUME SessionsInv, AccountMoves, SessionMoves, RefreshMoves, NEW w \in Threads, CallOf(w)',
           \A x \in Threads : x # w => call'[x] = call[x]
    PROVE  CallsInv'
<1> SUFFICES ASSUME NEW x \in Threads, x # w PROVE CallOf(x)'
    BY DEF CallsInv
<1>1. CallOf(x) /\ call'[x] = call[x] /\ call[x] \in Calls
    BY DEF SessionsInv, SessionsTypeOK, CallsInv
<1>2. CallKind(x)' = CallKind(x)
    BY <1>1 DEF CallKind
<1>3. AccountCall(x)'
    BY <1>1, <1>2 DEF CallOf, AccountCall
<1>4. RightsCall(x)'
  <2>1. SessionsTypeOK
      BY DEF SessionsInv
  <2>2. ASSUME CallKind(x) \in {"login", "create"}
        PROVE  Current(call[x].account, call[x].read)'
    <3>1. call[x].account \in Accounts /\ call[x].read.version \in Nat
        BY <1>1, <2>2, CallTypes DEF CallKind, AccountRecords
    <3>2. Current(call[x].account, call[x].read)
        BY <1>1, <2>2 DEF CallOf, RightsCall
    <3> QED BY <1>1, <2>1, <3>1, <3>2, RightsKept DEF Current
  <2>3. ASSUME CallKind(x) = "create"
        PROVE  Current(call[x].account, call[x].found)'
    <3>1. call[x].account \in Accounts /\ call[x].found.version \in Nat
        BY <1>1, <2>3, CallTypes DEF CallKind, AccountRecords
    <3>2. Current(call[x].account, call[x].found)
        BY <1>1, <2>3 DEF CallOf, RightsCall
    <3> QED BY <1>1, <2>1, <3>1, <3>2, RightsKept DEF Current
  <2>4. ASSUME CallKind(x) \in {"touch", "logout"}
        PROVE  Current(call[x].read.account, call[x].read)'
    <3>1. call[x].read.account \in Accounts /\ call[x].read.version \in Nat
        BY <1>1, <2>4, CallTypes DEF CallKind, SessionRecords
    <3>2. Current(call[x].read.account, call[x].read)
        BY <1>1, <2>4 DEF CallOf, RightsCall
    <3> QED BY <1>1, <2>1, <3>1, <3>2, RightsKept DEF Current
  <2>5. ASSUME CallKind(x) \in {"rotate", "succeed"}
        PROVE  Current(call[x].read.account, call[x].found)'
    <3>1. call[x].read.account \in Accounts /\ call[x].found.version \in Nat
        BY <1>1, <2>5, CallTypes DEF CallKind, RefreshRecords, AccountRecords
    <3>2. Current(call[x].read.account, call[x].found)
        BY <1>1, <2>5 DEF CallOf, RightsCall
    <3> QED BY <1>1, <2>1, <3>1, <3>2, RightsKept DEF Current
  <2> QED BY <1>2, <2>2, <2>3, <2>4, <2>5 DEF RightsCall
<1>5. SessionCall(x)'
  <2> SUFFICES ASSUME CallKind(x) \in {"touch", "logout"}, call[x].session \notin ended'
               PROVE  session'[call[x].session] = call[x].read
      BY <1>1, <1>2 DEF SessionCall
  <2>1. call[x].session \in 1 .. SessionIds /\ call[x].read # NoSession
      BY <1>1, CallTypes, NothingAssumption DEF CallKind
  <2>2. call[x].session \notin ended
      BY DEF SessionMoves
  <2>3. session[call[x].session] = call[x].read
      BY <1>1, <2>2 DEF CallOf, SessionCall
  <2> QED BY <2>1, <2>3 DEF SessionMoves
<1>6. RefreshCall(x)'
  <2>1. ASSUME CallKind(x) \in {"rotate", "succeed"}
        PROVE  /\ refresh'[call[x].token] # NoRefresh
               /\ refresh'[call[x].token].family = call[x].read.family
               /\ ~ call[x].read.rotated /\ ~ call[x].read.revoked
    <3>1. call[x].token \in 1 .. RefreshIds
        BY <1>1, <2>1, CallTypes DEF CallKind
    <3> QED BY <1>1, <2>1, <3>1 DEF CallOf, RefreshCall, RefreshMoves
  <2>2. ASSUME CallKind(x) = "cut"
        PROVE  /\ call[x].family \in Families'
               /\ \A r \in 1 .. RefreshIds : call[x].records[r] # NoRefresh =>
                     /\ refresh'[r] # NoRefresh
                     /\ refresh'[r].family = call[x].family
                     /\ call[x].records[r].family = call[x].family
    <3>1. call[x].family \in Families
        BY <1>1, <2>2 DEF CallOf, RefreshCall
    <3>2. call[x].family \in Families'
        BY <3>1 DEF Families, RefreshMoves
    <3> QED BY <1>1, <2>2, <3>2 DEF CallOf, RefreshCall, RefreshMoves
  <2> QED BY <1>1, <1>2, <2>1, <2>2 DEF RefreshCall
<1> QED BY <1>3, <1>4, <1>5, <1>6 DEF CallOf

(* Idle requests and sweeps hold no copies.                                *)
LEMMA NothingHeld ==
    ASSUME NEW w \in Threads, CallKind(w)' \in {"idle", "sweep"}
    PROVE  CallOf(w)'
    BY DEF CallOf, AccountCall, RightsCall, SessionCall, RefreshCall

(* What issued rights keep when accounts move.                             *)
LEMMA IssuedKept ==
    ASSUME SessionsInv, AccountMoves, UNCHANGED <<session, access>>
    PROVE  IssuedInv'
<1>1. SessionsTypeOK /\ IssuedInv
    BY DEF SessionsInv
<1>2. ASSUME NEW s \in 1 .. SessionIds, session[s] # NoSession
      PROVE  Current(session[s].account, session[s])'
  <2>1. session[s].account \in Accounts /\ session[s].version \in Nat
      BY <1>1, <1>2 DEF SessionsTypeOK, SessionRecords
  <2>2. Current(session[s].account, session[s])
      BY <1>1, <1>2 DEF IssuedInv
  <2> QED BY <1>1, <2>1, <2>2, RightsKept DEF Current
<1>3. ASSUME NEW t \in access PROVE Current(t.account, t)'
  <2>1. t.account \in Accounts /\ t.version \in Nat
      BY <1>1, <1>3 DEF SessionsTypeOK, AccessTokens
  <2> QED BY <1>1, <2>1, <1>3, RightsKept DEF IssuedInv
<1> QED BY <1>2, <1>3 DEF IssuedInv

(* Families when no refresh token changes.                                 *)
LEMMA FamiliesKept ==
    ASSUME SessionsInv, UNCHANGED <<refresh, cut, overlapped>>
    PROVE  /\ FamilyInv' /\ RefreshMoves
           /\ refresh' \in [1 .. RefreshIds -> RefreshRecords \cup {NoRefresh}]
           /\ cut' \subseteq 1 .. RefreshIds /\ overlapped' \subseteq 1 .. RefreshIds
           /\ \A r \in 1 .. RefreshIds : refresh'[r] # NoRefresh => refresh'[r].family \in Families'
<1>1. Families' = Families /\ \A f : Family(f)' = Family(f) /\ \A r : IsLive(r)' = IsLive(r)
    BY DEF Families, Family, IsLive
<1>2. FamilyInv'
    BY <1>1 DEF SessionsInv, FamilyInv
<1> QED BY <1>1, <1>2 DEF SessionsInv, SessionsTypeOK, RefreshMoves

LEMMA SaveAccountKeeps ==
    ASSUME SessionsInv, NEW w \in Threads, SaveAccount(w)
    PROVE  SessionsInv'
<1> USE DEF SessionsInv
<1> DEFINE q == call[w]
           a == q.account
           done == IF q.kind = "profile" THEN NoCall ELSE [kind |-> "sweep", account |-> a]
<1>1. q \in Calls /\ q.kind = CallKind(w) /\ CallKind(w) \in {"switch off", "profile"}
    BY DEF SaveAccount, SessionsTypeOK, CallKind
<1>2. /\ a \in Accounts /\ q.read \in AccountRecords /\ q.new \in AccountRecords
      /\ account' = [account EXCEPT ![a] = q.new]
      /\ off' = IF q.kind = "profile" THEN off ELSE off \cup {a}
      /\ outdated' = IF account[a] = q.read THEN outdated ELSE outdated \cup {a}
      /\ Becomes(w, done)
      /\ UNCHANGED <<era, session, access, refresh, calls, ended, revived, cut, overlapped, late>>
    BY <1>1, CallTypes DEF SaveAccount
<1>3. /\ q.kind = "switch off" => q.new.status # "active"
      /\ q.kind = "profile" => q.new.status = q.read.status
      /\ q.new = q.read \/ q.new.version = q.read.version + 1
    BY <1>1 DEF CallsInv, CallOf, AccountCall
<1>4. done \in Calls /\ done.kind \in {"idle", "sweep"}
    BY <1>2 DEF Calls, NoCall
<1> HIDE DEF done
<1>5. /\ call' \in [Threads -> Calls] /\ call'[w] = done
      /\ \A x \in Threads : x # w => call'[x] = call[x]
    BY <1>2, <1>4, BecomesCalls
<1> HIDE DEF q
<1>6. /\ account' \in [Accounts -> AccountRecords] /\ account'[a] = q.new
      /\ \A b \in Accounts : b # a => account'[b] = account[b]
    BY <1>2 DEF SessionsTypeOK
<1>7. AccountMoves
  <2>1. a \notin outdated' => account[a] = q.read
      BY <1>2
  <2> QED BY <1>2, <1>3, <1>6, <2>1 DEF AccountMoves
<1>8. SessionMoves
    BY <1>2 DEF SessionMoves
<1>9. /\ FamilyInv' /\ RefreshMoves
      /\ refresh' \in [1 .. RefreshIds -> RefreshRecords \cup {NoRefresh}]
      /\ cut' \subseteq 1 .. RefreshIds /\ overlapped' \subseteq 1 .. RefreshIds
      /\ \A r \in 1 .. RefreshIds : refresh'[r] # NoRefresh => refresh'[r].family \in Families'
    BY <1>2, FamiliesKept
<1>10. SessionsTypeOK'
    BY <1>2, <1>5, <1>6, <1>9 DEF SessionsTypeOK
<1>11. CallsInv'
    BY <1>4, <1>5, <1>7, <1>8, <1>9, OthersKeep, NothingHeld DEF CallKind
<1>12. IssuedInv'
    BY <1>2, <1>7, IssuedKept
<1>13. OffStaysOff'
  <2> SUFFICES ASSUME NEW b \in off' \ outdated' PROVE account'[b].status # "active"
      BY DEF OffStaysOff, IsActive
  <2>1. CASE b # a
    <3>1. b \in off \ outdated /\ b \in Accounts
        BY <1>2, <2>1 DEF SessionsTypeOK
    <3> QED BY <1>6, <2>1, <3>1 DEF OffStaysOff, IsActive
  <2>2. CASE b = a
    <3>1. account[a] = q.read /\ a \notin outdated
        BY <1>2, <2>2
    <3>2. CASE q.kind = "profile"
      <4>1. a \in off
          BY <1>2, <2>2, <3>2
      <4>2. account[a].status # "active"
          BY <3>1, <4>1 DEF OffStaysOff, IsActive
      <4> QED BY <1>3, <1>6, <2>2, <3>1, <3>2, <4>2
    <3>3. CASE q.kind = "switch off"
        BY <1>3, <1>6, <2>2, <3>3
    <3> QED BY <1>1, <3>2, <3>3
  <2> QED BY <2>1, <2>2
<1>14. EndedInv'
    BY <1>2 DEF EndedInv, Usable
<1>15. EraInv'
  <2>1. ASSUME NEW b, Sweeping(b) PROVE Sweeping(b)'
      BY <1>1, <1>5, <2>1 DEF Sweeping, CallKind
  <2> QED BY <1>2, <2>1 DEF EraInv, Usable
<1> QED BY <1>9, <1>10, <1>11, <1>12, <1>13, <1>14, <1>15

LEMMA RevokeAllSessionsKeeps ==
    ASSUME SessionsInv, NEW w \in Threads, RevokeAllSessions(w)
    PROVE  SessionsInv'
<1> USE DEF SessionsInv
<1> DEFINE a == call[w].account
<1>1. /\ CallKind(w) = "sweep"
      /\ session' = [s \in 1 .. SessionIds |-> IF s \in Of(a) THEN NoSession ELSE session[s]]
      /\ ended' = ended \cup Of(a)
      /\ Becomes(w, NoCall)
      /\ UNCHANGED <<account, era, access, refresh, calls, off, outdated, revived, cut, overlapped,
                     late>>
    BY DEF RevokeAllSessions, CallKind
<1>2. NoCall \in Calls /\ NoCall.kind = "idle"
    BY DEF Calls, NoCall
<1>3. /\ call' \in [Threads -> Calls] /\ call'[w] = NoCall
      /\ \A x \in Threads : x # w => call'[x] = call[x]
    BY <1>1, <1>2, BecomesCalls
<1>4. AccountMoves /\ SessionMoves
    BY <1>1 DEF AccountMoves, SessionMoves
<1>5. /\ FamilyInv' /\ RefreshMoves
      /\ refresh' \in [1 .. RefreshIds -> RefreshRecords \cup {NoRefresh}]
      /\ cut' \subseteq 1 .. RefreshIds /\ overlapped' \subseteq 1 .. RefreshIds
      /\ \A r \in 1 .. RefreshIds : refresh'[r] # NoRefresh => refresh'[r].family \in Families'
    BY <1>1, FamiliesKept
<1>6. \A s \in 1 .. SessionIds : session'[s] = IF s \in Of(a) THEN NoSession ELSE session[s]
    BY <1>1
<1>7. SessionsTypeOK'
  <2>1. /\ session' \in [1 .. SessionIds -> SessionRecords \cup {NoSession}]
        /\ Of(a) \subseteq 1 .. SessionIds
      BY <1>1 DEF SessionsTypeOK, Of
  <2> QED BY <1>1, <1>3, <1>5, <2>1 DEF SessionsTypeOK
<1>8. CallsInv'
    BY <1>2, <1>3, <1>4, <1>5, OthersKeep, NothingHeld DEF CallKind
<1>9. IssuedInv' /\ OffStaysOff'
    BY <1>1, <1>6 DEF IssuedInv, OffStaysOff, Current, IsActive
<1>10. EndedInv'
  <2>1. Of(a) \subseteq 1 .. SessionIds
      BY DEF Of
  <2> QED BY <1>1, <1>6, <2>1 DEF EndedInv, Usable, SessionsTypeOK
<1>11. EraInv'
  <2> SUFFICES ASSUME NEW s \in 1 .. SessionIds \ revived,
                      session'[s] # NoSession, ~ session'[s].revoked,
                      session'[s].era < era[session'[s].account]
               PROVE  \/ session'[s].account \in late
                      \/ \E x \in Threads : call'[x].kind = "sweep"
                                           /\ call'[x].account = session'[s].account
      BY <1>1 DEF EraInv, Usable, Sweeping, CallKind
  <2>1. s \notin Of(a) /\ session'[s] = session[s] /\ Usable(s)
      BY <1>6 DEF Usable
  <2>2. session[s].account # a
      BY <2>1 DEF Of, Usable
  <2>3. session[s].account \in late \/ Sweeping(session[s].account)
      BY <2>1 DEF EraInv
  <2> QED BY <1>3, <2>1, <2>2, <2>3 DEF Sweeping, CallKind
<1> QED BY <1>5, <1>7, <1>8, <1>9, <1>10, <1>11

LEMMA CheckAccountKeeps ==
    ASSUME SessionsInv, NEW w \in Threads, CheckAccount(w)
    PROVE  SessionsInv'
<1> USE DEF SessionsInv
<1> DEFINE q == call[w]
           a == q.account
           create == [kind |-> "create", account |-> a, read |-> q.read, era |-> q.era,
                      found |-> account[a]]
<1>1. /\ q \in Calls /\ q.kind = "login" /\ CallKind(w) = "login"
      /\ UNCHANGED <<account, era, session, access, refresh, calls, history>>
    BY DEF CheckAccount, SessionsTypeOK, CallKind
<1>2. a \in Accounts /\ q.read \in AccountRecords /\ q.era \in Nat /\ account[a] \in AccountRecords
    BY <1>1, CallTypes DEF SessionsTypeOK
<1>3. create \in Calls /\ NoCall \in Calls
    BY <1>2 DEF Calls
<1>4. PICK c \in {create, NoCall} : Becomes(w, c)
    BY DEF CheckAccount
<1>5. /\ create.kind = "create" /\ create.account = a /\ create.read = q.read
      /\ create.found = account[a] /\ NoCall.kind = "idle"
    BY DEF NoCall
<1> HIDE DEF create
<1>6. /\ call' \in [Threads -> Calls] /\ call'[w] = c
      /\ \A x \in Threads : x # w => call'[x] = call[x]
    BY <1>3, <1>4, BecomesCalls
<1>7. AccountMoves /\ SessionMoves
    BY <1>1 DEF AccountMoves, SessionMoves, history
<1>8. /\ FamilyInv' /\ RefreshMoves
      /\ refresh' \in [1 .. RefreshIds -> RefreshRecords \cup {NoRefresh}]
      /\ cut' \subseteq 1 .. RefreshIds /\ overlapped' \subseteq 1 .. RefreshIds
      /\ \A r \in 1 .. RefreshIds : refresh'[r] # NoRefresh => refresh'[r].family \in Families'
    BY <1>1, FamiliesKept DEF history
<1>9. CallOf(w)'
  <2>1. CASE c = NoCall
      BY <1>5, <1>6, <2>1, NothingHeld DEF CallKind
  <2>2. CASE c = create
    <3>1. Current(a, q.read)
        BY <1>1 DEF CallsInv, CallOf, RightsCall
    <3>2. Current(a, account[a])
        BY <1>2 DEF Current, AccountRecords
    <3> HIDE DEF q
    <3>3. /\ CallKind(w)' = "create" /\ call'[w].account = a /\ call'[w].read = q.read
          /\ call'[w].found = account[a]
        BY <1>5, <1>6, <2>2 DEF CallKind
    <3>4. RightsCall(w)'
        BY <1>1, <3>1, <3>2, <3>3 DEF RightsCall, Current, history
    <3> QED BY <3>3, <3>4 DEF CallOf, AccountCall, SessionCall, RefreshCall
  <2> QED BY <2>1, <2>2
<1>10. CallsInv'
    BY <1>6, <1>7, <1>8, <1>9, OthersKeep
<1>11. SessionsTypeOK'
    BY <1>1, <1>6, <1>8 DEF SessionsTypeOK, history
<1>12. IssuedInv' /\ OffStaysOff' /\ EndedInv'
    BY <1>1 DEF IssuedInv, OffStaysOff, EndedInv, Usable, Current, IsActive, history
<1>13. EraInv'
  <2>1. ASSUME NEW b, Sweeping(b) PROVE Sweeping(b)'
      BY <1>1, <1>6, <2>1 DEF Sweeping, CallKind
  <2> QED BY <1>1, <2>1 DEF EraInv, Usable, history
<1> QED BY <1>8, <1>10, <1>11, <1>12, <1>13

LEMMA CreateSessionKeeps ==
    ASSUME SessionsInv, NEW w \in Threads, CreateSession(w)
    PROVE  SessionsInv'
<1> USE DEF SessionsInv
<1> DEFINE q == call[w]
           opened == [account |-> q.account, version |-> q.found.version, revoked |-> FALSE,
                      profile |-> q.found.profile, era |-> q.era]
<1>1. PICK s \in 1 .. SessionIds : /\ s \notin ended /\ Fresh(session, NoSession, s)
                                  /\ session' = [session EXCEPT ![s] = opened]
    BY DEF CreateSession
<1>2. /\ q \in Calls /\ q.kind = "create" /\ CallKind(w) = "create"
      /\ late' = IF q.era = era[q.account] THEN late ELSE late \cup {q.account}
      /\ Becomes(w, NoCall)
      /\ UNCHANGED <<account, era, access, refresh, calls, off, outdated, ended, revived, cut,
                     overlapped>>
    BY DEF CreateSession, SessionsTypeOK, CallKind
<1>3. q.account \in Accounts /\ q.era \in Nat /\ q.found \in AccountRecords
    BY <1>2, CallTypes
<1>4. opened \in SessionRecords
    BY <1>3 DEF SessionRecords, AccountRecords
<1>5. /\ opened.account = q.account /\ opened.version = q.found.version
      /\ opened.profile = q.found.profile /\ opened.era = q.era /\ opened # NoSession
    BY <1>4, NothingAssumption
<1>6. session[s] = NoSession
    BY <1>1, FreshIsFree
<1>7. Current(q.account, q.found)
    BY <1>2 DEF CallsInv, CallOf, RightsCall
<1> HIDE DEF opened
<1>8. /\ session' \in [1 .. SessionIds -> SessionRecords \cup {NoSession}] /\ session'[s] = opened
      /\ \A t \in 1 .. SessionIds : t # s => session'[t] = session[t]
    BY <1>1, <1>4 DEF SessionsTypeOK
<1>9. NoCall \in Calls /\ NoCall.kind = "idle"
    BY DEF Calls, NoCall
<1>10. /\ call' \in [Threads -> Calls] /\ call'[w] = NoCall
       /\ \A x \in Threads : x # w => call'[x] = call[x]
    BY <1>2, <1>9, BecomesCalls
<1> HIDE DEF q
<1>11. AccountMoves
    BY <1>2 DEF AccountMoves
<1>12. SessionMoves
    BY <1>2, <1>6, <1>8 DEF SessionMoves
<1>13. /\ FamilyInv' /\ RefreshMoves
       /\ refresh' \in [1 .. RefreshIds -> RefreshRecords \cup {NoRefresh}]
       /\ cut' \subseteq 1 .. RefreshIds /\ overlapped' \subseteq 1 .. RefreshIds
       /\ \A r \in 1 .. RefreshIds : refresh'[r] # NoRefresh => refresh'[r].family \in Families'
    BY <1>2, FamiliesKept
<1>14. SessionsTypeOK'
    BY <1>2, <1>3, <1>8, <1>10, <1>13 DEF SessionsTypeOK
<1>15. CallsInv'
    BY <1>9, <1>10, <1>11, <1>12, <1>13, OthersKeep, NothingHeld DEF CallKind
<1>16. IssuedInv'
  <2>1. ASSUME NEW t \in 1 .. SessionIds, session'[t] # NoSession
        PROVE  Current(session[t].account, session[t])'
    <3>1. CASE t = s
        BY <1>2, <1>5, <1>7, <1>8, <3>1 DEF Current
    <3>2. CASE t # s
        BY <1>2, <1>8, <2>1, <3>2 DEF IssuedInv, Current
    <3> QED BY <3>1, <3>2
  <2>2. \A t \in access : Current(t.account, t)'
      BY <1>2 DEF IssuedInv, Current
  <2> QED BY <1>2, <2>1, <2>2 DEF IssuedInv
<1>17. OffStaysOff'
    BY <1>2 DEF OffStaysOff, IsActive
<1>18. EndedInv'
    BY <1>1, <1>2, <1>8 DEF EndedInv, Usable, SessionsTypeOK
<1>19. EraInv'
  <2> SUFFICES ASSUME NEW t \in 1 .. SessionIds \ revived,
                      session'[t] # NoSession, ~ session'[t].revoked,
                      session'[t].era < era[session'[t].account]
               PROVE  \/ session'[t].account \in late'
                      \/ \E x \in Threads : call'[x].kind = "sweep"
                                           /\ call'[x].account = session'[t].account
      BY <1>2 DEF EraInv, Usable, Sweeping, CallKind
  <2>1. CASE t = s
    <3>1. q.era # era[q.account]
        BY <1>3, <1>5, <1>8, <2>1
    <3> QED BY <1>2, <1>5, <1>8, <2>1, <3>1
  <2>2. CASE t # s
    <3>1. session'[t] = session[t]
        BY <1>8, <2>2
    <3>2. session[t].account \in late \/ Sweeping(session[t].account)
        BY <3>1 DEF EraInv, Usable
    <3>3. late \subseteq late'
        BY <1>2
    <3> QED BY <1>2, <1>10, <3>1, <3>2, <3>3 DEF Sweeping, CallKind
  <2> QED BY <2>1, <2>2
<1> QED BY <1>13, <1>14, <1>15, <1>16, <1>17, <1>18, <1>19

LEMMA MarkedSessions ==
    ASSUME NEW c \in SessionRecords
    PROVE  LET d == [c EXCEPT !.revoked = TRUE]
           IN  /\ d \in SessionRecords /\ d.account = c.account /\ d.version = c.version
               /\ d.profile = c.profile /\ d.era = c.era /\ d.revoked
    BY DEF SessionRecords

LEMMA MarkedTokens ==
    ASSUME NEW c \in RefreshRecords
    PROVE  /\ LET d == [c EXCEPT !.rotated = TRUE]
              IN  d \in RefreshRecords /\ d.family = c.family /\ d.rotated
           /\ LET d == [c EXCEPT !.revoked = TRUE]
              IN  d \in RefreshRecords /\ d.family = c.family /\ d.revoked
    BY DEF RefreshRecords

LEMMA SaveSessionKeeps ==
    ASSUME SessionsInv, NEW w \in Threads, SaveSession(w)
    PROVE  SessionsInv'
<1> USE DEF SessionsInv
<1> DEFINE q == call[w]
           s == q.session
           saved == IF q.kind = "logout" THEN Revoked(q) ELSE q.read
<1>1. /\ q \in Calls /\ q.kind = CallKind(w) /\ CallKind(w) \in {"touch", "logout"}
      /\ session' = [session EXCEPT ![s] = saved]
      /\ ended' = IF q.kind = "logout" THEN ended \cup {s} ELSE ended
      /\ revived' = IF q.kind = "touch" /\ s \in ended THEN revived \cup {s} ELSE revived
      /\ Becomes(w, NoCall)
      /\ UNCHANGED <<account, era, access, refresh, calls, off, outdated, cut, overlapped, late>>
    BY DEF SaveSession, SessionsTypeOK, CallKind
<1>2. s \in 1 .. SessionIds /\ q.read \in SessionRecords
    BY <1>1, CallTypes
<1>3. Current(q.read.account, q.read)
    BY <1>1 DEF CallsInv, CallOf, RightsCall
<1>4. s \notin ended => session[s] = q.read
    BY <1>1 DEF CallsInv, CallOf, SessionCall
<1>5. /\ saved \in SessionRecords /\ saved # NoSession
      /\ saved.account = q.read.account /\ saved.version = q.read.version
      /\ saved.profile = q.read.profile /\ saved.era = q.read.era
      /\ q.kind = "logout" => saved.revoked
      /\ q.kind = "touch" => saved = q.read
  <2>1. Revoked(q) = [q.read EXCEPT !.revoked = TRUE]
      BY DEF Revoked
  <2>2. /\ Revoked(q) \in SessionRecords /\ Revoked(q).account = q.read.account
        /\ Revoked(q).version = q.read.version /\ Revoked(q).profile = q.read.profile
        /\ Revoked(q).era = q.read.era /\ Revoked(q).revoked
      BY <1>2, <2>1, MarkedSessions
  <2>3. CASE q.kind = "logout"
      BY <2>2, <2>3, NothingAssumption
  <2>4. CASE q.kind = "touch"
      BY <1>2, <2>4, NothingAssumption
  <2> QED BY <1>1, <2>3, <2>4
<1> HIDE DEF saved
<1>6. /\ session' \in [1 .. SessionIds -> SessionRecords \cup {NoSession}] /\ session'[s] = saved
      /\ \A t \in 1 .. SessionIds : t # s => session'[t] = session[t]
    BY <1>1, <1>2, <1>5 DEF SessionsTypeOK
<1>7. NoCall \in Calls /\ NoCall.kind = "idle"
    BY DEF Calls, NoCall
<1>8. /\ call' \in [Threads -> Calls] /\ call'[w] = NoCall
      /\ \A x \in Threads : x # w => call'[x] = call[x]
    BY <1>1, <1>7, BecomesCalls
<1> HIDE DEF q
<1>9. AccountMoves
    BY <1>1 DEF AccountMoves
<1>10. SessionMoves
  <2>1. s \notin ended' => saved = session[s]
      BY <1>1, <1>4, <1>5
  <2> QED BY <1>1, <1>6, <2>1 DEF SessionMoves
<1>11. /\ FamilyInv' /\ RefreshMoves
       /\ refresh' \in [1 .. RefreshIds -> RefreshRecords \cup {NoRefresh}]
       /\ cut' \subseteq 1 .. RefreshIds /\ overlapped' \subseteq 1 .. RefreshIds
       /\ \A r \in 1 .. RefreshIds : refresh'[r] # NoRefresh => refresh'[r].family \in Families'
    BY <1>1, FamiliesKept
<1>12. SessionsTypeOK'
    BY <1>1, <1>2, <1>6, <1>8, <1>11 DEF SessionsTypeOK
<1>13. CallsInv'
    BY <1>7, <1>8, <1>9, <1>10, <1>11, OthersKeep, NothingHeld DEF CallKind
<1>14. IssuedInv'
  <2>1. ASSUME NEW t \in 1 .. SessionIds, session'[t] # NoSession
        PROVE  Current(session[t].account, session[t])'
    <3>1. CASE t = s
        BY <1>1, <1>3, <1>5, <1>6, <3>1 DEF Current
    <3>2. CASE t # s
        BY <1>1, <1>6, <2>1, <3>2 DEF IssuedInv, Current
    <3> QED BY <3>1, <3>2
  <2>2. \A t \in access : Current(t.account, t)'
      BY <1>1 DEF IssuedInv, Current
  <2> QED BY <1>1, <2>1, <2>2 DEF IssuedInv
<1>15. OffStaysOff'
    BY <1>1 DEF OffStaysOff, IsActive
<1>16. EndedInv'
  <2> SUFFICES ASSUME NEW t \in ended' \ revived', session'[t] # NoSession
               PROVE  session'[t].revoked
      BY DEF EndedInv, Usable
  <2>1. CASE t # s
      BY <1>1, <1>6, <2>1 DEF EndedInv, Usable, SessionsTypeOK
  <2>2. CASE t = s
      BY <1>1, <1>5, <1>6, <2>2
  <2> QED BY <2>1, <2>2
<1>17. EraInv'
  <2> SUFFICES ASSUME NEW t \in 1 .. SessionIds \ revived',
                      session'[t] # NoSession, ~ session'[t].revoked,
                      session'[t].era < era[session'[t].account]
               PROVE  \/ session'[t].account \in late
                      \/ \E x \in Threads : call'[x].kind = "sweep"
                                           /\ call'[x].account = session'[t].account
      BY <1>1 DEF EraInv, Usable, Sweeping, CallKind
  <2>1. session'[t] = session[t]
      BY <1>1, <1>4, <1>5, <1>6
  <2>2. t \notin revived
      BY <1>1
  <2>3. session[t].account \in late \/ Sweeping(session[t].account)
      BY <2>1, <2>2 DEF EraInv, Usable
  <2> QED BY <1>1, <1>8, <2>1, <2>3 DEF Sweeping, CallKind
<1> QED BY <1>11, <1>12, <1>13, <1>14, <1>15, <1>16, <1>17

(* What an action that only concerns tokens leaves as it was.              *)
LEMMA SessionsStay ==
    ASSUME SessionsInv, NEW w \in Threads, NEW done \in Calls, Becomes(w, done), CallKind(w) # "sweep",
           UNCHANGED <<account, era, session, calls, off, outdated, ended, revived, late>>
    PROVE  /\ call' \in [Threads -> Calls] /\ call'[w] = done /\ (done = NoCall => CallOf(w)')
           /\ \A x \in Threads : x # w => call'[x] = call[x]
           /\ AccountMoves /\ SessionMoves /\ OffStaysOff' /\ EndedInv' /\ EraInv'
           /\ \A s \in 1 .. SessionIds :
                 session[s] # NoSession => Current(session[s].account, session[s])'
           /\ \A t \in access : Current(t.account, t)'
<1> USE DEF SessionsInv
<1>1. NoCall.kind = "idle"
    BY DEF NoCall
<1>2. /\ call' \in [Threads -> Calls] /\ call'[w] = done
      /\ \A x \in Threads : x # w => call'[x] = call[x]
    BY BecomesCalls
<1>3. done = NoCall => CallOf(w)'
    BY <1>1, <1>2, NothingHeld DEF CallKind
<1>4. AccountMoves /\ SessionMoves
    BY DEF AccountMoves, SessionMoves
<1>5. OffStaysOff' /\ EndedInv'
    BY DEF OffStaysOff, IsActive, EndedInv, Usable
<1>6. EraInv'
  <2>1. ASSUME NEW b, Sweeping(b) PROVE Sweeping(b)'
      BY <1>2, <2>1 DEF Sweeping, CallKind
  <2> QED BY <2>1 DEF EraInv, Usable
<1>7. /\ \A s \in 1 .. SessionIds :
            session[s] # NoSession => Current(session[s].account, session[s])'
      /\ \A t \in access : Current(t.account, t)'
    BY DEF IssuedInv, Current
<1> QED BY <1>2, <1>3, <1>4, <1>5, <1>6, <1>7

LEMMA IdleIsACall == NoCall \in Calls
    BY DEF Calls

LEMMA IssueTokensKeeps ==
    ASSUME SessionsInv, NEW w \in Threads, IssueTokens(w)
    PROVE  SessionsInv'
<1> USE DEF SessionsInv
<1> PICK q \in Calls : q = call[w]
    BY DEF SessionsTypeOK
<1> DEFINE t == TokenFor(q.account, q.read)
<1>1. /\ q.kind = "login" /\ CallKind(w) # "sweep" /\ CallKind(w) = "login"
      /\ access' = access \cup {t} /\ Becomes(w, NoCall)
      /\ UNCHANGED <<account, era, session, calls, off, outdated, ended, revived, late>>
      /\ UNCHANGED <<cut, overlapped>>
    BY DEF IssueTokens, CallKind, history
<1>2. q.account \in Accounts /\ q.read \in AccountRecords
    BY <1>1, CallTypes
<1>3. Current(q.account, q.read)
    BY <1>1 DEF CallsInv, CallOf, RightsCall
<1>4. /\ t \in AccessTokens /\ t.account = q.account /\ t.version = q.read.version
      /\ t.profile = q.read.profile
    BY <1>2 DEF TokenFor, AccessTokens, AccountRecords
<1> HIDE DEF t
<1>5. /\ call' \in [Threads -> Calls] /\ CallOf(w)'
      /\ \A x \in Threads : x # w => call'[x] = call[x]
      /\ AccountMoves /\ SessionMoves /\ OffStaysOff' /\ EndedInv' /\ EraInv'
      /\ \A s \in 1 .. SessionIds :
            session[s] # NoSession => Current(session[s].account, session[s])'
      /\ \A x \in access : Current(x.account, x)'
    BY <1>1, SessionsStay, IdleIsACall
<1>6. IssuedInv'
  <2>1. Current(t.account, t)'
      BY <1>1, <1>3, <1>4 DEF Current
  <2>2. \A x \in access' : Current(x.account, x)'
      BY <1>1, <1>5, <2>1 DEF Current
  <2>3. \A s \in 1 .. SessionIds : session'[s] # NoSession => Current(session[s].account, session[s])'
      BY <1>1, <1>5 DEF Current
  <2> QED BY <2>2, <2>3 DEF IssuedInv
<1>7. /\ FamilyInv' /\ RefreshMoves
      /\ refresh' \in [1 .. RefreshIds -> RefreshRecords \cup {NoRefresh}]
      /\ cut' \subseteq 1 .. RefreshIds /\ overlapped' \subseteq 1 .. RefreshIds
      /\ \A r \in 1 .. RefreshIds : refresh'[r] # NoRefresh => refresh'[r].family \in Families'
  <2>1. CASE refresh' = refresh
      BY <1>1, <2>1, FamiliesKept
  <2>2. CASE refresh' # refresh
    <3> DEFINE Opened(r) == [account |-> q.account, family |-> r, rotated |-> FALSE,
                             revoked |-> FALSE]
    <3>1. PICK r \in 1 .. RefreshIds : /\ Fresh(refresh, NoRefresh, r)
                                      /\ refresh' = [refresh EXCEPT ![r] = Opened(r)]
        BY <2>2 DEF IssueTokens
    <3>2. refresh[r] = NoRefresh
        BY <3>1, FreshIsFree
    <3>3. Opened(r) \in RefreshRecords /\ Opened(r) # NoRefresh /\ Opened(r).family = r
      <4>1. Opened(r) \in RefreshRecords
          BY <1>2, SessionsAssumption DEF RefreshRecords
      <4> QED BY <4>1, NothingAssumption
    <3> HIDE DEF Opened
    <3>4. /\ refresh' \in [1 .. RefreshIds -> RefreshRecords \cup {NoRefresh}]
          /\ refresh'[r] = Opened(r)
          /\ \A p \in 1 .. RefreshIds : p # r => refresh'[p] = refresh[p]
        BY <3>1, <3>3 DEF SessionsTypeOK
    <3>5. RefreshMoves
        BY <3>2, <3>4 DEF RefreshMoves
    <3>6. Families' = Families \cup {r} /\ r \notin Families
        BY <3>2, <3>3, <3>4 DEF Families
    <3>7. \A p \in 1 .. RefreshIds : refresh'[p] # NoRefresh => refresh'[p].family \in Families'
        BY <3>3, <3>4, <3>6 DEF SessionsTypeOK
    <3>8. Family(r)' = {r}
        BY <3>2, <3>3, <3>4, <3>6 DEF Family, SessionsTypeOK
    <3>9. ASSUME NEW f \in Families
          PROVE  Family(f)' = Family(f) /\ \A p \in Family(f) : IsLive(p)' = IsLive(p)
      <4>1. f # r
          BY <3>6, <3>9
      <4>2. Family(f)' = Family(f)
          BY <3>2, <3>3, <3>4, <4>1 DEF Family
      <4>3. ASSUME NEW p \in Family(f) PROVE refresh'[p] = refresh[p]
          BY <3>2, <3>4 DEF Family
      <4> QED BY <4>2, <4>3 DEF IsLive
    <3>10. FamilyInv'
      <4>1. ASSUME NEW f \in Families' \ overlapped
            PROVE  /\ \A p, o \in Family(f)' : IsLive(p)' /\ IsLive(o)' => p = o
                   /\ f \in cut => \A p \in Family(f)' : ~ IsLive(p)'
        <5>1. CASE f = r
            BY <3>6, <3>8, <5>1 DEF FamilyInv
        <5>2. CASE f \in Families
            BY <3>9, <4>1, <5>2 DEF FamilyInv
        <5> QED BY <3>6, <5>1, <5>2
      <4>2. cut' \subseteq Families'
          BY <1>1, <3>6 DEF FamilyInv
      <4> QED BY <1>1, <4>1, <4>2 DEF FamilyInv
    <3> QED BY <1>1, <3>4, <3>5, <3>7, <3>10 DEF SessionsTypeOK
  <2> QED BY <2>1, <2>2
<1>8. SessionsTypeOK'
    BY <1>1, <1>4, <1>5, <1>7 DEF SessionsTypeOK
<1>9. CallsInv'
    BY <1>5, <1>7, OthersKeep
<1> QED BY <1>5, <1>6, <1>7, <1>8, <1>9

(* The first write of a rotation: the predecessor.                         *)
LEMMA SaveRotationKeeps ==
    ASSUME SessionsInv, NEW w \in Threads, SaveRotation(w)
    PROVE  SessionsInv'
<1> USE DEF SessionsInv
<1> PICK q \in Calls : q = call[w]
    BY DEF SessionsTypeOK
<1> DEFINE f == q.read.family
           rotated == Rotated(q)
           next == [kind |-> "succeed", token |-> q.token, read |-> q.read, found |-> q.found]
<1>1. /\ q.kind = "rotate" /\ CallKind(w) # "sweep" /\ CallKind(w) = "rotate"
      /\ refresh' = [refresh EXCEPT ![q.token] = rotated] /\ Becomes(w, next)
      /\ overlapped' = IF refresh[q.token] = q.read THEN overlapped ELSE overlapped \cup {f}
      /\ UNCHANGED <<account, era, session, calls, off, outdated, ended, revived, late>>
      /\ UNCHANGED <<access, cut>>
    BY DEF SaveRotation, CallKind
<1>2. q.token \in 1 .. RefreshIds /\ q.read \in RefreshRecords /\ q.found \in AccountRecords
    BY <1>1, CallTypes
<1>3. /\ refresh[q.token] # NoRefresh /\ refresh[q.token].family = f
      /\ ~ q.read.rotated /\ ~ q.read.revoked
      /\ Current(q.read.account, q.found)
    BY <1>1 DEF CallsInv, CallOf, RefreshCall, RightsCall
<1>4. rotated \in RefreshRecords /\ rotated # NoRefresh /\ rotated.family = f /\ rotated.rotated
  <2>1. rotated = [q.read EXCEPT !.rotated = TRUE]
      BY DEF Rotated
  <2> QED BY <1>2, <2>1, MarkedTokens, NothingAssumption
<1>5. /\ next \in Calls /\ next.kind = "succeed" /\ next.token = q.token /\ next.read = q.read
      /\ next.found = q.found
    BY <1>2 DEF Calls
<1> HIDE DEF rotated, next
<1>6. /\ call' \in [Threads -> Calls] /\ call'[w] = next
      /\ \A x \in Threads : x # w => call'[x] = call[x]
      /\ AccountMoves /\ SessionMoves /\ OffStaysOff' /\ EndedInv' /\ EraInv'
      /\ \A s \in 1 .. SessionIds :
            session[s] # NoSession => Current(session[s].account, session[s])'
      /\ \A x \in access : Current(x.account, x)'
    BY <1>1, <1>5, SessionsStay
<1>7. IssuedInv'
    BY <1>1, <1>6 DEF IssuedInv, Current
<1>8. /\ refresh' \in [1 .. RefreshIds -> RefreshRecords \cup {NoRefresh}]
      /\ refresh'[q.token] = rotated
      /\ \A p \in 1 .. RefreshIds : p # q.token => refresh'[p] = refresh[p]
    BY <1>1, <1>2, <1>4 DEF SessionsTypeOK
<1> HIDE DEF f
<1>9. RefreshMoves
    BY <1>3, <1>4, <1>8 DEF RefreshMoves
<1>10. f \in Families /\ f \in 1 .. RefreshIds
    BY <1>2, <1>3 DEF SessionsTypeOK, Families
<1>11. Families' = Families /\ \A g : Family(g)' = Family(g)
    BY <1>2, <1>3, <1>4, <1>8, NothingAssumption DEF Families, Family
<1>12. \A p \in 1 .. RefreshIds : refresh'[p] # NoRefresh => refresh'[p].family \in Families'
    BY <1>4, <1>8, <1>10, <1>11 DEF SessionsTypeOK
<1>13. \A p \in 1 .. RefreshIds : IsLive(p)' => IsLive(p)
    BY <1>4, <1>8 DEF IsLive
<1>14. FamilyInv'
  <2>1. overlapped \subseteq overlapped'
      BY <1>1
  <2>2. \A g : Family(g) \subseteq 1 .. RefreshIds
      BY DEF Family
  <2>3. cut' \subseteq Families'
      BY <1>1, <1>11 DEF FamilyInv
  <2> QED BY <1>1, <1>11, <1>13, <2>1, <2>2, <2>3 DEF FamilyInv
<1>15. SessionsTypeOK'
    BY <1>1, <1>6, <1>8, <1>10, <1>12 DEF SessionsTypeOK
<1>16. CallOf(w)'
  <2>1. /\ CallKind(w)' = "succeed" /\ call'[w].token = q.token /\ call'[w].read = q.read
        /\ call'[w].found = q.found
      BY <1>5, <1>6 DEF CallKind
  <2>2. Current(q.read.account, q.found)'
      BY <1>1, <1>3 DEF Current
  <2>3. RightsCall(w)'
      BY <2>1, <2>2 DEF RightsCall, Current
  <2>4. RefreshCall(w)'
      BY <1>3, <1>4, <1>8, <2>1 DEF RefreshCall, f
  <2> QED BY <2>1, <2>3, <2>4 DEF CallOf, AccountCall, SessionCall
<1>17. CallsInv'
    BY <1>6, <1>9, <1>16, OthersKeep
<1> QED BY <1>6, <1>7, <1>14, <1>15, <1>17

(* The second: the successor.                                              *)
LEMMA SaveSuccessorKeeps ==
    ASSUME SessionsInv, PendingInv, NEW w \in Threads, SaveSuccessor(w)
    PROVE  SessionsInv'
<1> USE DEF SessionsInv
<1> PICK q \in Calls : q = call[w]
    BY DEF SessionsTypeOK
<1> DEFINE f == q.read.family
           t == TokenFor(q.read.account, q.found)
           successor == [account |-> q.read.account, family |-> f, rotated |-> FALSE,
                         revoked |-> FALSE]
<1>1. PICK r \in 1 .. RefreshIds :
          /\ Fresh(refresh, NoRefresh, r)
          /\ refresh' = [refresh EXCEPT ![r] = successor]
    BY DEF SaveSuccessor, FamilyOf
<1>2. /\ q.kind = "succeed" /\ CallKind(w) # "sweep" /\ CallKind(w) = "succeed"
      /\ access' = access \cup {t} /\ Becomes(w, NoCall)
      /\ overlapped' = IF refresh[q.token] = Rotated(q) THEN overlapped ELSE overlapped \cup {f}
      /\ UNCHANGED <<account, era, session, calls, off, outdated, ended, revived, late>>
      /\ UNCHANGED cut
    BY DEF SaveSuccessor, CallKind, FamilyOf
<1>3. q.token \in 1 .. RefreshIds /\ q.read \in RefreshRecords /\ q.found \in AccountRecords
    BY <1>2, CallTypes
<1>4. /\ refresh[q.token] # NoRefresh /\ refresh[q.token].family = f
      /\ ~ q.read.rotated /\ ~ q.read.revoked
      /\ Current(q.read.account, q.found)
    BY <1>2 DEF CallsInv, CallOf, RefreshCall, RightsCall
<1>5. /\ t \in AccessTokens /\ t.account = q.read.account /\ t.version = q.found.version
      /\ t.profile = q.found.profile
    BY <1>3 DEF TokenFor, AccessTokens, AccountRecords, RefreshRecords
<1>6. successor \in RefreshRecords /\ successor # NoRefresh /\ successor.family = f
  <2>1. successor \in RefreshRecords
      BY <1>3 DEF RefreshRecords
  <2> QED BY <2>1, NothingAssumption
<1>20. ~ Rotated(q).revoked
    BY <1>3, <1>4 DEF Rotated, RefreshRecords
<1> HIDE DEF t, successor
<1>7. /\ call' \in [Threads -> Calls] /\ CallOf(w)'
      /\ \A x \in Threads : x # w => call'[x] = call[x]
      /\ AccountMoves /\ SessionMoves /\ OffStaysOff' /\ EndedInv' /\ EraInv'
      /\ \A s \in 1 .. SessionIds :
            session[s] # NoSession => Current(session[s].account, session[s])'
      /\ \A x \in access : Current(x.account, x)'
    BY <1>2, SessionsStay, IdleIsACall
<1>8. IssuedInv'
  <2>1. Current(t.account, t)'
      BY <1>2, <1>4, <1>5 DEF Current
  <2>2. \A x \in access' : Current(x.account, x)'
      BY <1>2, <1>7, <2>1 DEF Current
  <2>3. \A s \in 1 .. SessionIds : session'[s] # NoSession => Current(session[s].account, session[s])'
      BY <1>2, <1>7 DEF Current
  <2> QED BY <2>2, <2>3 DEF IssuedInv
<1>9. refresh[r] = NoRefresh
    BY <1>1, FreshIsFree
<1>10. /\ refresh' \in [1 .. RefreshIds -> RefreshRecords \cup {NoRefresh}]
       /\ refresh'[r] = successor
       /\ \A p \in 1 .. RefreshIds : p # r => refresh'[p] = refresh[p]
    BY <1>1, <1>6 DEF SessionsTypeOK
<1> HIDE DEF f
<1>11. RefreshMoves
    BY <1>9, <1>10 DEF RefreshMoves
<1>12. f \in Families /\ f # r /\ f \in 1 .. RefreshIds
    BY <1>3, <1>4, <1>9 DEF SessionsTypeOK, Families
<1>13. Families' = Families
    BY <1>6, <1>9, <1>10, <1>12 DEF Families
<1>14. \A p \in 1 .. RefreshIds : refresh'[p] # NoRefresh => refresh'[p].family \in Families'
    BY <1>6, <1>10, <1>12, <1>13 DEF SessionsTypeOK
<1>15. Family(f)' = Family(f) \cup {r}
    BY <1>6, <1>9, <1>10 DEF Family
<1>16. ASSUME NEW g \in Families, g # f
       PROVE  Family(g)' = Family(g) /\ \A p \in Family(g) : refresh'[p] = refresh[p]
    BY <1>6, <1>9, <1>10, <1>16 DEF Family
<1>17. FamilyInv'
  <2>1. ASSUME NEW g \in Families \ overlapped'
        PROVE  /\ \A p, o \in Family(g)' : IsLive(p)' /\ IsLive(o)' => p = o
               /\ g \in cut => \A p \in Family(g)' : ~ IsLive(p)'
    <3>1. g \notin overlapped
        BY <1>2, <2>1
    <3>2. CASE g # f
        BY <1>16, <3>1, <3>2 DEF FamilyInv, IsLive
    <3>3. CASE g = f
      <4>1. refresh[q.token] = Rotated(q)
          BY <1>2, <2>1, <3>3
      <4>2. Succeeds(w, g)
          BY <1>2, <3>3 DEF Succeeds, f
      <4>3. (\A p \in Family(g) : ~ IsLive(p)) /\ (g \in cut => refresh[q.token].revoked)
          BY <2>1, <3>1, <4>2 DEF PendingInv
      <4>4. g \notin cut
          BY <1>20, <4>1, <4>3
      <4>5. ASSUME NEW p \in Family(g)', IsLive(p)', p # r PROVE FALSE
        <5>1. p \in Family(g) /\ refresh'[p] = refresh[p]
            BY <1>10, <1>15, <3>3, <4>5 DEF Family
        <5> QED BY <4>3, <4>5, <5>1 DEF IsLive
      <4> QED BY <4>4, <4>5
    <3> QED BY <3>2, <3>3
  <2>2. cut' \subseteq Families'
      BY <1>2, <1>13 DEF FamilyInv
  <2> QED BY <1>2, <1>13, <2>1, <2>2 DEF FamilyInv
<1>18. SessionsTypeOK'
    BY <1>2, <1>5, <1>7, <1>10, <1>12, <1>14 DEF SessionsTypeOK
<1>19. CallsInv'
    BY <1>7, <1>11, OthersKeep
<1> QED BY <1>7, <1>8, <1>17, <1>18, <1>19

LEMMA SaveFamilyKeeps ==
    ASSUME SessionsInv, NEW w \in Threads, SaveFamily(w)
    PROVE  SessionsInv'
<1> USE DEF SessionsInv
<1> PICK q \in Calls : q = call[w]
    BY DEF SessionsTypeOK
<1> DEFINE f == q.family
           members == {r \in 1 .. RefreshIds : q.records[r] # NoRefresh}
           Marked(r) == [q.records[r] EXCEPT !.revoked = TRUE]
           unchanged == Family(f) = members /\ \A r \in members : refresh[r] = q.records[r]
<1>1. /\ q.kind = "cut" /\ CallKind(w) # "sweep" /\ CallKind(w) = "cut"
      /\ refresh' = [r \in 1 .. RefreshIds |-> IF r \in members THEN Marked(r) ELSE refresh[r]]
      /\ cut' = cut \cup {f}
      /\ overlapped' = IF unchanged THEN overlapped ELSE overlapped \cup {f}
      /\ Becomes(w, NoCall)
      /\ UNCHANGED <<account, era, session, calls, off, outdated, ended, revived, late>>
      /\ UNCHANGED access
    BY DEF SaveFamily, CallKind
<1>2. f \in 1 .. RefreshIds /\ q.records \in [1 .. RefreshIds -> RefreshRecords \cup {NoRefresh}]
    BY <1>1, CallTypes
<1>3. /\ f \in Families
      /\ \A r \in members : refresh[r] # NoRefresh /\ refresh[r].family = f
                            /\ q.records[r].family = f
    BY <1>1 DEF CallsInv, CallOf, RefreshCall
<1>4. ASSUME NEW r \in members
      PROVE  /\ Marked(r) \in RefreshRecords /\ Marked(r) # NoRefresh
             /\ Marked(r).family = f /\ Marked(r).revoked
  <2>1. q.records[r] \in RefreshRecords
      BY <1>2
  <2>2. Marked(r) \in RefreshRecords /\ Marked(r).family = q.records[r].family /\ Marked(r).revoked
      BY <2>1, MarkedTokens
  <2> QED BY <1>3, <2>2, NothingAssumption
<1>5. members \subseteq 1 .. RefreshIds
    OBVIOUS
<1> HIDE DEF members, Marked
<1>6. /\ \A r \in 1 .. RefreshIds : refresh'[r] = IF r \in members THEN Marked(r) ELSE refresh[r]
      /\ refresh' \in [1 .. RefreshIds -> RefreshRecords \cup {NoRefresh}]
    BY <1>1, <1>4 DEF SessionsTypeOK
<1>7. /\ call' \in [Threads -> Calls] /\ CallOf(w)'
      /\ \A x \in Threads : x # w => call'[x] = call[x]
      /\ AccountMoves /\ SessionMoves /\ OffStaysOff' /\ EndedInv' /\ EraInv'
      /\ \A s \in 1 .. SessionIds :
            session[s] # NoSession => Current(session[s].account, session[s])'
      /\ \A x \in access : Current(x.account, x)'
    BY <1>1, SessionsStay, IdleIsACall
<1> HIDE DEF f
<1>8. IssuedInv'
    BY <1>1, <1>7 DEF IssuedInv, Current
<1>9. RefreshMoves
    BY <1>3, <1>4, <1>6 DEF RefreshMoves
<1>10. ASSUME NEW r \in 1 .. RefreshIds
       PROVE  /\ refresh'[r] # NoRefresh => refresh[r] # NoRefresh
              /\ refresh[r] # NoRefresh =>
                    refresh'[r] # NoRefresh /\ refresh'[r].family = refresh[r].family
    BY <1>3, <1>4, <1>6
<1>11. Families' = Families /\ \A g : Family(g)' = Family(g)
  <2>1. Families' = Families
      BY <1>10 DEF Families
  <2>2. ASSUME NEW g PROVE Family(g)' = Family(g)
      BY <1>10 DEF Family
  <2> QED BY <2>1, <2>2
<1>12. \A r \in 1 .. RefreshIds : refresh'[r] # NoRefresh => refresh'[r].family \in Families'
    BY <1>10, <1>11 DEF SessionsTypeOK
<1>13. FamilyInv'
  <2>1. ASSUME NEW g \in Families \ overlapped'
        PROVE  /\ \A p, o \in Family(g) : IsLive(p)' /\ IsLive(o)' => p = o
               /\ g \in cut' => \A p \in Family(g) : ~ IsLive(p)'
    <3>1. CASE g = f
      <4>1. Family(f) = members
          BY <1>1, <2>1, <3>1
      <4>2. \A p \in Family(g) : ~ IsLive(p)'
          BY <1>4, <1>5, <1>6, <3>1, <4>1 DEF IsLive
      <4> QED BY <4>2
    <3>2. CASE g # f
      <4>1. g \notin overlapped /\ (g \in cut' => g \in cut)
          BY <1>1, <2>1, <3>2
      <4>2. \A p \in Family(g) : refresh'[p] = refresh[p]
          BY <1>3, <1>6, <3>2 DEF Family
      <4> QED BY <4>1, <4>2 DEF FamilyInv, IsLive
    <3> QED BY <3>1, <3>2
  <2>2. cut' \subseteq Families'
      BY <1>1, <1>3, <1>11 DEF FamilyInv
  <2> QED BY <1>11, <2>1, <2>2 DEF FamilyInv
<1>14. SessionsTypeOK'
    BY <1>1, <1>2, <1>6, <1>7, <1>12 DEF SessionsTypeOK
<1>15. CallsInv'
    BY <1>7, <1>9, OthersKeep
<1> QED BY <1>7, <1>8, <1>13, <1>14, <1>15

-----------------------------------------------------------------------------
(* What is between the two writes of a rotation                            *)

LEMMA PendingIsKnown ==
    ASSUME SessionsInv, NEW x \in Threads, NEW f, Succeeds(x, f)
    PROVE  /\ f \in Families /\ call[x].token \in Family(f)
           /\ refresh[call[x].token] # NoRefresh
<1>1. call[x] \in Calls /\ call[x].kind = "succeed" /\ call[x].read.family = f
    BY DEF SessionsInv, SessionsTypeOK, Succeeds, CallKind
<1>2. call[x].token \in 1 .. RefreshIds
    BY <1>1, CallTypes
<1>3. refresh[call[x].token] # NoRefresh /\ refresh[call[x].token].family = f
    BY <1>1 DEF SessionsInv, CallsInv, CallOf, RefreshCall, Succeeds, CallKind
<1> QED BY <1>2, <1>3 DEF SessionsInv, SessionsTypeOK, Family

(* A step of w that starts no second write, and changes nothing in the     *)
(* families between theirs but to revoke them.                             *)
LEMMA PendingStays ==
    ASSUME SessionsInv, PendingInv, NEW w \in Threads, CallKind(w)' # "succeed",
           \A x \in Threads : x # w => call'[x] = call[x],
           \A x \in Threads, f \in Families \ overlapped' : x # w /\ Succeeds(x, f) =>
               /\ f \notin overlapped
               /\ \A r \in Family(f)' : ~ IsLive(r)'
               /\ f \in cut' => refresh'[call[x].token].revoked
    PROVE  PendingInv'
<1>1. ASSUME NEW x \in Threads, NEW f, Succeeds(x, f)' PROVE x # w /\ Succeeds(x, f)
    BY <1>1 DEF Succeeds, CallKind
<1> SUFFICES ASSUME NEW x \in Threads, NEW f \in Families' \ overlapped', Succeeds(x, f)'
             PROVE  /\ \A r \in Family(f)' : ~ IsLive(r)'
                    /\ f \in cut' => refresh'[call'[x].token].revoked
                    /\ \A y \in Threads : Succeeds(y, f)' => y = x
    BY DEF PendingInv
<1>2. x # w /\ Succeeds(x, f) /\ call'[x] = call[x]
    BY <1>1
<1>3. f \in Families
    BY <1>2, PendingIsKnown
<1>4. f \notin overlapped
    BY <1>2, <1>3
<1>5. \A y \in Threads : Succeeds(y, f) => y = x
    BY <1>2, <1>3, <1>4 DEF PendingInv
<1> QED BY <1>1, <1>2, <1>3, <1>5

(* Steps that leave the refresh tokens alone.                              *)
LEMMA PendingUntouched ==
    ASSUME SessionsInv, PendingInv, NEW w \in Threads, CallKind(w)' # "succeed",
           UNCHANGED <<refresh, cut, overlapped>>,
           \A x \in Threads : x # w => call'[x] = call[x]
    PROVE  PendingInv'
<1>1. \A f : Family(f)' = Family(f) /\ \A r : IsLive(r)' = IsLive(r)
    BY DEF Family, IsLive
<1> QED BY <1>1, PendingStays DEF PendingInv

LEMMA CallsMove ==
    ASSUME SessionsInv, NEW w \in Threads, NEW q, Becomes(w, q) \/ Starts(w, q)
    PROVE  CallKind(w)' = q.kind /\ \A x \in Threads : x # w => call'[x] = call[x]
<1>1. call' = [call EXCEPT ![w] = q] /\ call \in [Threads -> Calls]
    BY DEF Becomes, Starts, SessionsInv, SessionsTypeOK
<1> QED BY <1>1 DEF CallKind

LEMMA ArrivingPends ==
    ASSUME SessionsInv, PendingInv, NEW w \in Threads, Arriving(w)
    PROVE  PendingInv'
<1> DEFINE Moved == CallKind(w)' # "succeed" /\ \A x \in Threads : x # w => call'[x] = call[x]
<1>c. call \in [Threads -> Calls]
    BY DEF SessionsInv, SessionsTypeOK
<1>1. UNCHANGED <<refresh, cut, overlapped>>
    BY DEF Arriving, DisableAccount, DeleteAccount, SetProfile, Rewrite, SetPassword, Login, GetSession,
           RevokeSession, Rotate, RevokeFamily, history
<1>2. Moved
    <2>1. ASSUME NEW a \in Accounts, DisableAccount(w, a) \/ DeleteAccount(w, a) PROVE Moved
        <3>1. ASSUME NEW kind, kind # "succeed", NEW new, Rewrite(w, kind, a, new) PROVE Moved
            BY <1>c, <3>1 DEF Rewrite, Starts, CallKind
        <3> HIDE DEF Moved
        <3>2. "switch off" # "succeed"
            BY Zenon
        <3> QED BY <2>1, <3>1, <3>2, Zenon DEF DisableAccount, DeleteAccount
    <2>2. ASSUME NEW a \in Accounts, NEW profile \in SessionProfiles, SetProfile(w, a, profile) PROVE Moved
        BY <1>c, <2>2 DEF SetProfile, Rewrite, Starts, CallKind
    <2>3. ASSUME NEW a \in Accounts, SetPassword(w, a) PROVE Moved
        BY <1>c, <2>3 DEF SetPassword, Starts, CallKind
    <2>4. ASSUME NEW a \in Accounts, Login(w, a) PROVE Moved
        BY <1>c, <2>4 DEF Login, Starts, CallKind
    <2>5. ASSUME NEW s \in 1 .. SessionIds, GetSession(w, s) PROVE Moved
        BY <1>c, <2>5 DEF GetSession, Starts, CallKind
    <2>6. ASSUME NEW s \in 1 .. SessionIds, RevokeSession(w, s) PROVE Moved
        BY <1>c, <2>6 DEF RevokeSession, Starts, CallKind
    <2>7. ASSUME NEW r \in 1 .. RefreshIds, Rotate(w, r) PROVE Moved
        BY <1>c, <2>7 DEF Rotate, Starts, CallKind
    <2>8. ASSUME NEW r \in 1 .. RefreshIds, RevokeFamily(w, r) PROVE Moved
        BY <1>c, <2>8 DEF RevokeFamily, Starts, CallKind
    <2> HIDE DEF Moved
    <2> QED BY <2>1, <2>2, <2>3, <2>4, <2>5, <2>6, <2>7, <2>8 DEF Arriving
<1> QED BY <1>1, <1>2, PendingUntouched

LEMMA OtherSavesPend ==
    ASSUME SessionsInv, PendingInv, NEW w \in Threads,
           \/ SaveAccount(w) \/ RevokeAllSessions(w)
           \/ CheckAccount(w) \/ CreateSession(w) \/ SaveSession(w)
    PROVE  PendingInv'
<1> DEFINE Moved == CallKind(w)' # "succeed" /\ \A x \in Threads : x # w => call'[x] = call[x]
<1>c. call \in [Threads -> Calls]
    BY DEF SessionsInv, SessionsTypeOK
<1>1. UNCHANGED <<refresh, cut, overlapped>>
    BY DEF SaveAccount, RevokeAllSessions, CheckAccount, CreateSession, SaveSession, history
<1>2. Moved
    <2>1. CASE SaveAccount(w)
        BY <1>c, <2>1 DEF SaveAccount, Becomes, CallKind, NoCall
    <2>2. CASE RevokeAllSessions(w)
        BY <1>c, <2>2 DEF RevokeAllSessions, Becomes, CallKind, NoCall
    <2>3. CASE CheckAccount(w)
        BY <1>c, <2>3 DEF CheckAccount, Becomes, CallKind, NoCall
    <2>4. CASE CreateSession(w)
        BY <1>c, <2>4 DEF CreateSession, Becomes, CallKind, NoCall
    <2>5. CASE SaveSession(w)
        BY <1>c, <2>5 DEF SaveSession, Becomes, CallKind, NoCall
    <2> QED BY <2>1, <2>2, <2>3, <2>4, <2>5
<1> QED BY <1>1, <1>2, PendingUntouched

LEMMA IssueTokensPends ==
    ASSUME SessionsInv, PendingInv, NEW w \in Threads, IssueTokens(w)
    PROVE  PendingInv'
<1>1. Becomes(w, NoCall) /\ UNCHANGED <<cut, overlapped>> /\ NoCall.kind = "idle"
    BY DEF IssueTokens, history, NoCall
<1>2. CallKind(w)' # "succeed" /\ \A x \in Threads : x # w => call'[x] = call[x]
    BY <1>1, CallsMove
<1>3. CASE refresh' = refresh
    BY <1>1, <1>2, <1>3, PendingUntouched
<1>4. CASE refresh' # refresh
  <2>0. PICK r \in 1 .. RefreshIds :
            /\ Fresh(refresh, NoRefresh, r)
            /\ \E c : c.family = r /\ refresh' = [refresh EXCEPT ![r] = c]
      BY <1>4 DEF IssueTokens
  <2>1. PICK c : Fresh(refresh, NoRefresh, r) /\ c.family = r /\ refresh' = [refresh EXCEPT ![r] = c]
      BY <2>0
  <2>2. refresh[r] = NoRefresh
      BY <2>1, FreshIsFree
  <2>3. refresh'[r] = c /\ \A p \in 1 .. RefreshIds : p # r => refresh'[p] = refresh[p]
      BY <2>1 DEF SessionsInv, SessionsTypeOK
  <2>4. ASSUME NEW f \in Families
        PROVE  Family(f)' = Family(f) /\ \A p \in Family(f) : refresh'[p] = refresh[p]
    <3>1. f # r
        BY <2>2, <2>4 DEF Families
    <3> QED BY <2>1, <2>2, <2>3, <3>1 DEF Family
  <2>5. ASSUME NEW x \in Threads, NEW f \in Families \ overlapped', Succeeds(x, f)
        PROVE  /\ f \notin overlapped
               /\ \A p \in Family(f)' : ~ IsLive(p)'
               /\ f \in cut' => refresh'[call[x].token].revoked
    <3>1. f \notin overlapped /\ call[x].token \in Family(f)
        BY <1>1, <2>5, PendingIsKnown
    <3>2. (\A p \in Family(f) : ~ IsLive(p)) /\ (f \in cut => refresh[call[x].token].revoked)
        BY <2>5, <3>1 DEF PendingInv
    <3> QED BY <1>1, <2>4, <3>1, <3>2 DEF IsLive
  <2> QED BY <1>2, <2>5, PendingStays
<1> QED BY <1>3, <1>4

LEMMA SaveRotationPends ==
    ASSUME SessionsInv, PendingInv, NEW w \in Threads, SaveRotation(w)
    PROVE  PendingInv'
<1> PICK q \in Calls : q = call[w]
    BY DEF SessionsInv, SessionsTypeOK
<1> DEFINE f == q.read.family
           rotated == Rotated(q)
           next == [kind |-> "succeed", token |-> q.token, read |-> q.read, found |-> q.found]
<1>1. /\ q.kind = "rotate" /\ refresh' = [refresh EXCEPT ![q.token] = rotated] /\ Becomes(w, next)
      /\ overlapped' = IF refresh[q.token] = q.read THEN overlapped ELSE overlapped \cup {f}
      /\ UNCHANGED cut
    BY DEF SaveRotation
<1>2. q.token \in 1 .. RefreshIds /\ q.read \in RefreshRecords
    BY <1>1, CallTypes
<1>3. /\ refresh[q.token] # NoRefresh /\ refresh[q.token].family = f
      /\ ~ q.read.rotated /\ ~ q.read.revoked
    BY <1>1 DEF SessionsInv, CallsInv, CallOf, RefreshCall, CallKind
<1>4. rotated.family = f /\ rotated.rotated /\ rotated \in RefreshRecords
    BY <1>2, MarkedTokens DEF Rotated
<1>5. call' = [call EXCEPT ![w] = next] /\ call \in [Threads -> Calls]
    BY <1>1 DEF Becomes, SessionsInv, SessionsTypeOK
<1>6. /\ Succeeds(w, f)' /\ call'[w].token = q.token /\ call'[w].read.family = f
      /\ \A x \in Threads : x # w => call'[x] = call[x]
    BY <1>5 DEF Succeeds, CallKind
<1>7. ASSUME NEW x \in Threads, x # w, NEW g PROVE Succeeds(x, g)' <=> Succeeds(x, g)
    BY <1>6, <1>7 DEF Succeeds, CallKind
<1> HIDE DEF next, rotated
<1>8. /\ refresh'[q.token] = rotated
      /\ \A p \in 1 .. RefreshIds : p # q.token => refresh'[p] = refresh[p]
    BY <1>1, <1>2 DEF SessionsInv, SessionsTypeOK
<1> HIDE DEF f
<1>9. Families' = Families /\ \A g : Family(g)' = Family(g)
    BY <1>2, <1>3, <1>4, <1>8, NothingAssumption DEF Families, Family
<1>10. f \in Families /\ q.token \in Family(f)
    BY <1>2, <1>3 DEF SessionsInv, SessionsTypeOK, Families, Family
<1>11. \A p \in 1 .. RefreshIds : IsLive(p)' => IsLive(p) /\ p # q.token
    BY <1>4, <1>8 DEF IsLive
<1>12. f \notin overlapped' =>
          /\ f \notin overlapped /\ IsLive(q.token) /\ f \notin cut
          /\ \A p \in Family(f) : IsLive(p) => p = q.token
          /\ \A x \in Threads : ~ Succeeds(x, f)
  <2> SUFFICES ASSUME f \notin overlapped'
               PROVE  /\ f \notin overlapped /\ IsLive(q.token) /\ f \notin cut
                      /\ \A p \in Family(f) : IsLive(p) => p = q.token
                      /\ \A x \in Threads : ~ Succeeds(x, f)
      OBVIOUS
  <2>1. f \notin overlapped /\ refresh[q.token] = q.read
      BY <1>1
  <2>2. IsLive(q.token)
      BY <1>3, <2>1 DEF IsLive
  <2>3. f \notin cut /\ \A p \in Family(f) : IsLive(p) => p = q.token
      BY <1>10, <2>1, <2>2 DEF SessionsInv, FamilyInv
  <2>4. \A x \in Threads : ~ Succeeds(x, f)
      BY <1>10, <2>1, <2>2 DEF PendingInv
  <2> QED BY <2>1, <2>2, <2>3, <2>4
<1>13. ASSUME NEW x \in Threads, NEW g \in Families \ overlapped', Succeeds(x, g)'
       PROVE  /\ \A p \in Family(g) : ~ IsLive(p)'
              /\ g \in cut => refresh'[call'[x].token].revoked
              /\ \A y \in Threads : Succeeds(y, g)' => y = x
  <2>1. \A h : Family(h) \subseteq 1 .. RefreshIds
      BY DEF Family
  <2>2. CASE g = f
      BY <1>7, <1>11, <1>12, <1>13, <2>1, <2>2
  <2>3. CASE g # f
    <3>1. x # w
        BY <1>6, <1>13, <2>3 DEF Succeeds
    <3>2. Succeeds(x, g) /\ call'[x] = call[x] /\ g \notin overlapped
        BY <1>1, <1>6, <1>7, <1>13, <3>1
    <3>3. /\ \A p \in Family(g) : ~ IsLive(p)
          /\ g \in cut => refresh[call[x].token].revoked
          /\ \A y \in Threads : Succeeds(y, g) => y = x
        BY <1>13, <3>2 DEF PendingInv
    <3>4. call[x].token \in Family(g) /\ call[x].token # q.token
        BY <1>3, <2>3, <3>2, PendingIsKnown DEF Family
    <3>5. ~ Succeeds(w, g)'
        BY <1>6, <2>3 DEF Succeeds
    <3> QED BY <1>7, <1>8, <1>11, <2>1, <3>2, <3>3, <3>4, <3>5
  <2> QED BY <2>2, <2>3
<1> QED BY <1>1, <1>9, <1>13 DEF PendingInv

LEMMA SaveSuccessorPends ==
    ASSUME SessionsInv, PendingInv, NEW w \in Threads, SaveSuccessor(w)
    PROVE  PendingInv'
<1> PICK q : q = call[w]
    OBVIOUS
<1> DEFINE f == q.read.family
<1>1. /\ Succeeds(w, f) /\ Becomes(w, NoCall) /\ UNCHANGED cut /\ overlapped \subseteq overlapped'
      /\ NoCall.kind = "idle"
    BY DEF SaveSuccessor, Succeeds, CallKind, FamilyOf, NoCall
<1>2. CallKind(w)' # "succeed" /\ \A x \in Threads : x # w => call'[x] = call[x]
    BY <1>1, CallsMove
<1>n. PICK r \in 1 .. RefreshIds :
          /\ Fresh(refresh, NoRefresh, r)
          /\ \E c : c.family = f /\ refresh' = [refresh EXCEPT ![r] = c]
    BY DEF SaveSuccessor, FamilyOf
<1>3. PICK c : Fresh(refresh, NoRefresh, r) /\ c.family = f /\ refresh' = [refresh EXCEPT ![r] = c]
    BY <1>n
<1> HIDE DEF f
<1>4. refresh[r] = NoRefresh
    BY <1>3, FreshIsFree
<1>5. refresh'[r] = c /\ \A p \in 1 .. RefreshIds : p # r => refresh'[p] = refresh[p]
    BY <1>3 DEF SessionsInv, SessionsTypeOK
<1>6. ASSUME NEW x \in Threads, NEW g \in Families \ overlapped', x # w, Succeeds(x, g)
      PROVE  /\ g \notin overlapped
             /\ \A p \in Family(g)' : ~ IsLive(p)'
             /\ g \in cut' => refresh'[call[x].token].revoked
  <2>1. g \notin overlapped /\ call[x].token \in Family(g)
      BY <1>1, <1>6, PendingIsKnown
  <2>2. /\ \A p \in Family(g) : ~ IsLive(p)
        /\ g \in cut => refresh[call[x].token].revoked
        /\ \A y \in Threads : Succeeds(y, g) => y = x
      BY <1>6, <2>1 DEF PendingInv
  <2>3. g # f
      BY <1>1, <1>6, <2>2
  <2>4. Family(g)' = Family(g) /\ \A p \in Family(g) : refresh'[p] = refresh[p]
      BY <1>3, <1>4, <1>5, <2>3 DEF Family
  <2> QED BY <1>1, <2>1, <2>2, <2>4 DEF IsLive
<1> QED BY <1>2, <1>6, PendingStays

LEMMA SaveFamilyPends ==
    ASSUME SessionsInv, PendingInv, NEW w \in Threads, SaveFamily(w)
    PROVE  PendingInv'
<1> PICK q \in Calls : q = call[w]
    BY DEF SessionsInv, SessionsTypeOK
<1> DEFINE f == q.family
           members == {r \in 1 .. RefreshIds : q.records[r] # NoRefresh}
           Marked(r) == [q.records[r] EXCEPT !.revoked = TRUE]
<1>1. /\ q.kind = "cut" /\ Becomes(w, NoCall) /\ cut' = cut \cup {f} /\ overlapped \subseteq overlapped'
      /\ refresh' = [r \in 1 .. RefreshIds |-> IF r \in members THEN Marked(r) ELSE refresh[r]]
      /\ f \notin overlapped' => Family(f) = members
      /\ NoCall.kind = "idle"
    BY DEF SaveFamily, NoCall
<1>2. CallKind(w)' # "succeed" /\ \A x \in Threads : x # w => call'[x] = call[x]
    BY <1>1, CallsMove
<1>3. /\ q.records \in [1 .. RefreshIds -> RefreshRecords \cup {NoRefresh}]
      /\ \A r \in members : /\ refresh[r] # NoRefresh /\ refresh[r].family = f
                            /\ q.records[r].family = f
  <2>1. q.records \in [1 .. RefreshIds -> RefreshRecords \cup {NoRefresh}]
      BY <1>1, CallTypes
  <2> QED BY <1>1, <2>1 DEF SessionsInv, CallsInv, CallOf, RefreshCall, CallKind
<1>4. ASSUME NEW r \in members
      PROVE  /\ Marked(r) \in RefreshRecords /\ Marked(r).family = f /\ Marked(r).revoked
             /\ Marked(r) # NoRefresh
  <2>1. q.records[r] \in RefreshRecords
      BY <1>3
  <2> QED BY <1>3, <2>1, MarkedTokens, NothingAssumption
<1> HIDE DEF members, Marked, f
<1>5. \A r \in 1 .. RefreshIds : refresh'[r] = IF r \in members THEN Marked(r) ELSE refresh[r]
    BY <1>1
<1>6. \A g : Family(g)' = Family(g)
    BY <1>3, <1>4, <1>5 DEF Family
<1>7. ASSUME NEW x \in Threads, NEW g \in Families \ overlapped', x # w, Succeeds(x, g)
      PROVE  /\ g \notin overlapped
             /\ \A p \in Family(g)' : ~ IsLive(p)'
             /\ g \in cut' => refresh'[call[x].token].revoked
  <2>1. g \notin overlapped /\ call[x].token \in Family(g)
      BY <1>1, <1>7, PendingIsKnown
  <2>2. /\ \A p \in Family(g) : ~ IsLive(p)
        /\ g \in cut => refresh[call[x].token].revoked
      BY <1>7, <2>1 DEF PendingInv
  <2>3. Family(g) \subseteq 1 .. RefreshIds
      BY DEF Family
  <2>4. CASE g = f
    <3>1. Family(g) = members
        BY <1>1, <1>7, <2>4
    <3>2. \A p \in Family(g) : refresh'[p] = Marked(p) /\ Marked(p).revoked
        BY <1>4, <1>5, <2>3, <3>1
    <3> QED BY <1>6, <2>1, <3>2 DEF IsLive
  <2>5. CASE g # f
    <3>1. \A p \in Family(g) : refresh'[p] = refresh[p]
        BY <1>3, <1>5, <2>3, <2>5 DEF Family
    <3> QED BY <1>1, <1>6, <2>1, <2>2, <2>5, <3>1 DEF IsLive
  <2> QED BY <2>4, <2>5
<1> QED BY <1>2, <1>7, PendingStays

LEMMA PendingInvStep == SessionsInv /\ PendingInv /\ [SessionsNext]_sessionVars => PendingInv'
<1> SUFFICES ASSUME SessionsInv, PendingInv, [SessionsNext]_sessionVars PROVE PendingInv'
    OBVIOUS
<1>1. ASSUME NEW w \in Threads, Arriving(w) PROVE PendingInv'
    BY <1>1, ArrivingPends
<1>2. ASSUME NEW w \in Threads, Saving(w) PROVE PendingInv'
    BY <1>2, OtherSavesPend, IssueTokensPends, SaveRotationPends, SaveSuccessorPends, SaveFamilyPends
       DEF Saving
<1>3. CASE UNCHANGED sessionVars
  <2>1. /\ Families' = Families /\ UNCHANGED <<refresh, cut, overlapped, call>>
        /\ \A f : Family(f)' = Family(f) /\ \A x : Succeeds(x, f)' = Succeeds(x, f)
        /\ \A r : IsLive(r)' = IsLive(r)
      BY <1>3 DEF sessionVars, Families, Family, Succeeds, CallKind, IsLive
  <2> QED BY <2>1 DEF PendingInv
<1> QED BY <1>1, <1>2, <1>3 DEF SessionsNext

-----------------------------------------------------------------------------
LEMMA SessionsInvStep == SessionsInv /\ PendingInv /\ [SessionsNext]_sessionVars => SessionsInv'
<1> SUFFICES ASSUME SessionsInv, PendingInv, [SessionsNext]_sessionVars PROVE SessionsInv'
    OBVIOUS
<1>1. ASSUME NEW w \in Threads, Arriving(w) PROVE SessionsInv'
    BY <1>1, ArrivingKeeps
<1>2. ASSUME NEW w \in Threads, Saving(w) PROVE SessionsInv'
    BY <1>2, SaveAccountKeeps, RevokeAllSessionsKeeps, CheckAccountKeeps, CreateSessionKeeps,
       IssueTokensKeeps, SaveSessionKeeps, SaveRotationKeeps, SaveSuccessorKeeps, SaveFamilyKeeps
       DEF Saving
<1>3. CASE UNCHANGED sessionVars
  <2> USE DEF SessionsInv
  <2>1. /\ UNCHANGED <<account, era, session, access, refresh, call, calls>>
        /\ UNCHANGED <<off, outdated, ended, revived, cut, overlapped, late>>
      BY <1>3 DEF sessionVars
  <2>2. /\ FamilyInv' /\ RefreshMoves
        /\ \A r \in 1 .. RefreshIds : refresh'[r] # NoRefresh => refresh'[r].family \in Families'
      BY <2>1, FamiliesKept
  <2>3. SessionsTypeOK'
      BY <2>1, <2>2 DEF SessionsTypeOK
  <2>4. CallsInv'
    <3>1. ASSUME NEW x \in Threads PROVE CallOf(x)'
      <4>1. CallKind(x)' = CallKind(x) /\ Families' = Families
          BY <2>1 DEF CallKind, Families
      <4>2. CallOf(x)
          BY DEF CallsInv
      <4>3. AccountCall(x)' /\ SessionCall(x)'
          BY <2>1, <4>1, <4>2 DEF CallOf, AccountCall, SessionCall
      <4>4. RightsCall(x)'
          BY <2>1, <4>1, <4>2 DEF CallOf, RightsCall, Current
      <4>5. RefreshCall(x)'
          BY <2>1, <4>1, <4>2 DEF CallOf, RefreshCall
      <4> QED BY <4>3, <4>4, <4>5 DEF CallOf
    <3> QED BY <3>1 DEF CallsInv
  <2>5. IssuedInv' /\ OffStaysOff' /\ EndedInv'
      BY <2>1 DEF IssuedInv, Current, OffStaysOff, IsActive, EndedInv, Usable
  <2>6. EraInv'
      BY <2>1 DEF EraInv, Usable, Sweeping, CallKind
  <2> QED BY <2>2, <2>3, <2>4, <2>5, <2>6
<1> QED BY <1>1, <1>2, <1>3 DEF SessionsNext

(* The invariant holds in every state of the auth package, whatever its    *)
(* threads, accounts and bounds.                                           *)
THEOREM SessionsCorrect == SessionsSpec => []SessionsInv
<1>1. SessionsInit => PendingInv
    BY DEF SessionsInit, PendingInv, Families
<1> QED BY <1>1, SessionsInvInit, SessionsInvStep, PendingInvStep, PTL DEF SessionsSpec

(* The types of AuthSessions; a refresh token's family is known.           *)
THEOREM SessionsTypeCorrect == SessionsSpec => []SessionsTypeOK
<1>1. SessionsInv => SessionsTypeOK
    BY DEF SessionsInv
<1> QED BY <1>1, SessionsCorrect, PTL

(* Disabled accounts stay so and what is accepted was issued under the     *)
(* profile the account has, as long as no account is saved over one that   *)
(* was not the one read: rights of the account's version are its rights.   *)
THEOREM AccountsAlwaysDecide == SessionsSpec => []AccountsDecide
<1>1. SessionsInv => AccountsDecide
  <2> SUFFICES ASSUME SessionsInv PROVE AcceptedMeansCurrentRights
      BY DEF AccountsDecide, SessionsInv
  <2>1. ASSUME NEW s \in 1 .. SessionIds, Valid(s), session[s].account \notin outdated
        PROVE  session[s].profile = account[session[s].account].profile
      BY <2>1 DEF SessionsInv, IssuedInv, Current, Valid, Carries
  <2>2. ASSUME NEW t \in access, Carries(t), t.account \notin outdated
        PROVE  t.profile = account[t.account].profile
      BY <2>2 DEF SessionsInv, IssuedInv, Current, Carries
  <2> QED BY <2>1, <2>2 DEF AcceptedMeansCurrentRights
<1> QED BY <1>1, SessionsCorrect, PTL

(* Sessions logged out, swept away or opened with a password that has been *)
(* replaced are over: a request holds the session it read unless it was    *)
(* ended, so only one that read it before can save it once more.           *)
THEOREM SessionsStayEnded == SessionsSpec => []SessionsEnd
<1>1. SessionsInv => SessionsEnd
  <2> SUFFICES ASSUME SessionsInv PROVE SessionsEnd
      OBVIOUS
  <2>1. EndedStaysEnded
      BY DEF SessionsInv, EndedInv, Usable, EndedStaysEnded, Valid
  <2>2. NewPasswordEndsSessions
      BY DEF SessionsInv, EraInv, Usable, Sweeping, CallKind, NewPasswordEndsSessions, Valid
  <2> QED BY <2>1, <2>2 DEF SessionsEnd
<1> QED BY <1>1, SessionsCorrect, PTL

LEMMA AtMostOne ==
    ASSUME NEW S, \A x, y \in S : x = y
    PROVE  Cardinality(S) <= 1
<1>1. CASE S = {}
    BY <1>1, FS_EmptySet
<1>2. ASSUME NEW x \in S PROVE Cardinality(S) <= 1
  <2>1. S = {x}
      BY <1>2
  <2>2. Cardinality({x}) = 1
      BY FS_Singleton
  <2> QED BY <2>1, <2>2
<1> QED BY <1>1, <1>2

(* A family of refresh tokens has one live member at most, and none once   *)
(* it was revoked, unless it changed between a read and its save.          *)
THEOREM OneTokenLives == SessionsSpec => []OneLiveToken
<1>1. SessionsInv => OneLiveToken
  <2> SUFFICES ASSUME SessionsInv, NEW f \in Families \ overlapped
               PROVE  /\ Cardinality({r \in Family(f) : IsLive(r)}) <= 1
                      /\ f \in cut => \A r \in Family(f) : ~ IsLive(r)
      BY DEF OneLiveToken
  <2>1. /\ \A r, p \in {q \in Family(f) : IsLive(q)} : r = p
        /\ f \in cut => \A r \in Family(f) : ~ IsLive(r)
      BY DEF SessionsInv, FamilyInv
  <2>2. Cardinality({r \in Family(f) : IsLive(r)}) <= 1
      BY <2>1, AtMostOne
  <2> QED BY <2>1, <2>2
<1> QED BY <1>1, SessionsCorrect, PTL

-----------------------------------------------------------------------------
(* The composition                                                         *)

LEMMA AccessSteps ==
    ASSUME [AccessNext]_<<part, vars, sessionVars>>
    PROVE  [Next]_vars /\ [SessionsNext]_sessionVars
    BY DEF AccessNext

(* A behaviour of the rules and the sessions side by side is one of each,  *)
(* so that what is proved of either holds where both are checked.          *)
THEOREM AccessComposes == AccessSpec => Spec /\ SessionsSpec
<1>1. AccessInit => Init /\ SessionsInit
    BY DEF AccessInit
<1> QED BY <1>1, AccessSteps, PTL DEF AccessSpec, Spec, SessionsSpec

(* The types of both hold together, for any rules, accounts and bounds.    *)
THEOREM AccessTypes == AccessSpec => []AccessTypeOK
<1>1. TypeOK /\ SessionsTypeOK => AccessTypeOK
    BY DEF AccessTypeOK
<1> QED BY <1>1, AccessComposes, AccessTypeCorrect, SessionsTypeCorrect, PTL

(* And so does everything else that is checked of them.                    *)
THEOREM AccessSound ==
    AccessSpec => /\ [](OnlyStaleWritesAdmitAnonymous /\ AccountsDecide /\ SessionsEnd /\ OneLiveToken)
                  /\ RulesComeFromManagers
<1> QED BY AccessComposes, OnlyStaleAdmits, AccountsAlwaysDecide, SessionsStayEnded, OneTokenLives,
           RulesFromManagers, PTL
=============================================================================
