---------------------------- MODULE AccessProofs ----------------------------
(***************************************************************************)
(* Machine-checked proofs about AccessControl, for any users, keys, limits,    *)
(* token lifetimes and numbers of restarts.                                 *)
(*                                                                          *)
(* The inductive invariant adds to TypeOK where credentials come from (a key   *)
(* in the store and a token's secret are ones that were issued) and an         *)
(* account per user: what it was let in plus what its bucket would hold is     *)
(* covered by one full bucket per process so far and by time.                *)
(***************************************************************************)
EXTENDS AccessControl, ServiceLemmas, TLAPS

(* Tokens are signed with a secret this or an earlier process had, and keys    *)
(* in the store were issued.                                                *)
Provenance ==
    /\ \A c \in issued : c.kind = "jwt" => c.secret <= secret
    /\ \A k \in DOMAIN api_keys : KeyCredential(k) \in issued

(* Units available to a user once b processes have given it a full bucket.    *)
Bank(b, t) == b * DefaultRpm * Minute + t * DefaultRpm

Account(u) ==
    /\ Known(u) =>
          /\ buckets[u].capacity = DefaultRpm
          /\ admitted[u] * Minute + Level(buckets[u]) <= Bank(boots + 1, now)
    /\ ~Known(u) => admitted[u] * Minute <= Bank(boots, now)

IInv == TypeOK /\ Provenance /\ \A u \in Users : Account(u)

-----------------------------------------------------------------------------

LEMMA BankFacts ==
    ASSUME NEW b \in Nat, NEW t \in Nat
    PROVE  /\ Bank(b, t) \in Nat /\ DefaultRpm * Minute \in Nat
           /\ Bank(b + 1, t) = Bank(b, t) + DefaultRpm * Minute
           /\ Bank(b, t + 1) = Bank(b, t) + DefaultRpm
<1>1. DefaultRpm \in Nat /\ Minute \in Nat
  BY LimitAssumption, TimeAssumption
<1>2. (b + 1) * DefaultRpm = b * DefaultRpm + DefaultRpm
      /\ b * DefaultRpm \in Nat /\ t * DefaultRpm \in Nat /\ DefaultRpm * Minute \in Nat
      /\ (t + 1) * DefaultRpm = t * DefaultRpm + DefaultRpm
  BY <1>1, ProductNat, SMT
<1>3. \A x \in Nat : (x + DefaultRpm) * Minute = x * Minute + DefaultRpm * Minute
                     /\ x * Minute \in Nat
  BY <1>1, ProductNat, SMT
<1> QED
  BY <1>1, <1>2, <1>3, SMT DEF Bank

(* For an issued credential, being refused is not being accepted.             *)
LEMMA RefusedMeansInvalid ==
    ASSUME TypeOK, NEW c \in issued, NEW t
    PROVE  /\ WhoIs(c, t) = Nobody <=>
                 ~(c.kind = "api_key" /\ ValidKey(c.key)) /\ ~(c.kind = "jwt" /\ ValidToken(c, t))
           /\ WhoIs(c, t) \in Users \cup {Nobody}
<1>1. c \in Credentials
  BY DEF TypeOK, HistoryTyped
<1>2. CASE c \in [kind : {"api_key"}, key : ApiKeys]
  <2>1. c.kind = "api_key" /\ c.key \in ApiKeys
    BY <1>2
  <2>2. ValidKey(c.key) => api_keys[c.key].user \in Users
    BY DEF TypeOK, KeysTyped, ValidKey
  <2>3. WhoIs(c, t) = IF ValidKey(c.key) THEN api_keys[c.key].user ELSE Nobody
    BY <2>1 DEF WhoIs
  <2> QED
    BY <2>1, <2>2, <2>3, AccessAssumption
<1>3. CASE c \in [kind : {"jwt"}, sub : Users, exp : Nat, secret : Nat]
  <2>1. c.kind = "jwt" /\ c.sub \in Users
    BY <1>3
  <2>2. WhoIs(c, t) = IF ValidToken(c, t) THEN c.sub ELSE Nobody
    BY <2>1 DEF WhoIs
  <2> QED
    BY <2>1, <2>2, AccessAssumption
<1> QED
  BY <1>1, <1>2, <1>3 DEF Credentials

LEMMA NoCredentialRefused ==
    ASSUME NEW c \in NoCredential, NEW t
    PROVE  WhoIs(c, t) = Nobody
<1>1. c.kind # "api_key" /\ c.kind # "jwt"
  BY DEF NoCredential
<1> QED
  BY <1>1 DEF WhoIs


LEMMA BucketSound ==
    ASSUME BucketsTyped, NEW u, Known(u)
    PROVE  Sound(buckets[u], now) /\ u \in Users
  BY DEF BucketsTyped, Known, Sound

(* A bucket that is written leaves every other as it was.                     *)
LEMMA WriteTyped ==
    ASSUME BucketsTyped, NEW u \in Users, NEW b, Sound(b, now),
           buckets' = Put(buckets, u, b), now' = now
    PROVE  /\ BucketsTyped'
           /\ Known(u)' /\ buckets'[u] = b
           /\ \A v : v # u => (Known(v)' <=> Known(v)) /\ (Known(v) => buckets'[v] = buckets[v])
<1>1. DOMAIN buckets' = DOMAIN buckets \cup {u}
  BY DEF Put
<1>2. \A v \in DOMAIN buckets' : buckets'[v] = IF v = u THEN b ELSE buckets[v]
  BY DEF Put
<1> QED
  BY <1>1, <1>2 DEF BucketsTyped, Known, Sound

(* Refilling u's bucket, and nothing else, keeps every account.               *)
LEMMA RefillKeepsAccounts ==
    ASSUME IInv, NEW u \in Users, Known(u),
           buckets' = Put(buckets, u, Refill(buckets[u])), now' = now,
           admitted' = admitted, boots' = boots
    PROVE  BucketsTyped' /\ \A v \in Users : Account(v)'
<1>1. BucketsTyped /\ now \in Nat
  BY DEF IInv, TypeOK, BucketsTyped
<1>2. Sound(buckets[u], now)
  BY <1>1, BucketSound
<1>3. /\ Sound(Refill(buckets[u]), now) /\ Level(Refill(buckets[u])) = Level(buckets[u])
      /\ Refill(buckets[u]).capacity = buckets[u].capacity
  BY <1>1, <1>2, RefillFacts
<1>4. /\ BucketsTyped' /\ Known(u)' /\ buckets'[u] = Refill(buckets[u])
      /\ \A v : v # u => (Known(v)' <=> Known(v)) /\ (Known(v) => buckets'[v] = buckets[v])
  BY <1>1, <1>3, WriteTyped
<1>5. ASSUME NEW v \in Users PROVE Account(v)'
  <2>1. Account(v)
    BY DEF IInv
  <2>2. CASE v = u
    BY <1>3, <1>4, <2>1, <2>2 DEF Account, Level
  <2>3. CASE v # u
    BY <1>4, <2>1, <2>3 DEF Account, Level
  <2> QED
    BY <2>2, <2>3
<1> QED
  BY <1>4, <1>5

LEMMA AllowKeepsAccounts ==
    ASSUME IInv, NEW u \in Users, Allow(u, 1, 0),
           admitted' = [admitted EXCEPT ![u] = @ + 1], boots' = boots
    PROVE  BucketsTyped' /\ \A v \in Users : Account(v)'
<1> DEFINE b == GetBucket(u, 0)
<1>1. /\ BucketsTyped /\ now \in Nat /\ boots \in Nat /\ admitted \in [Users -> Nat]
      /\ Minute \in Nat
  BY TimeAssumption, AccessAssumption DEF IInv, TypeOK, BucketsTyped, HistoryTyped
<1>2. Known(u) => Sound(buckets[u], now)
  BY <1>1, BucketSound
<1>3. /\ Sound(b, now)
      /\ Known(u) => b = buckets[u]
      /\ ~Known(u) => Level(b) = b.capacity * Minute
  BY <1>1, <1>2, GetBucketFacts
<1>4. ~Known(u) => b.capacity = DefaultRpm
  BY DEF GetBucket, NewBucket
<1>5. Affords(b, 1) /\ buckets' = Put(buckets, u, Take(b, 1)) /\ now' = now
  BY DEF Allow
<1>6. /\ Sound(Take(b, 1), now) /\ Level(Take(b, 1)) = Level(b) - 1 * Minute
      /\ Take(b, 1).capacity = b.capacity
  BY <1>1, <1>3, <1>5, TakeFacts
<1>7. /\ BucketsTyped' /\ Known(u)' /\ buckets'[u] = Take(b, 1)
      /\ \A v : v # u => (Known(v)' <=> Known(v)) /\ (Known(v) => buckets'[v] = buckets[v])
  BY <1>1, <1>5, <1>6, WriteTyped
<1>8. Account(u)'
  <2>1. Account(u) /\ admitted[u] \in Nat /\ admitted'[u] = admitted[u] + 1
    BY <1>1 DEF IInv
  <2>2. (admitted[u] + 1) * Minute = admitted[u] * Minute + Minute /\ 1 * Minute = Minute
        /\ admitted[u] * Minute \in Nat
    BY <1>1, <2>1, ProductNat, SMT
  <2>3. /\ Bank(boots, now) \in Nat /\ DefaultRpm * Minute \in Nat
        /\ Bank(boots + 1, now) = Bank(boots, now) + DefaultRpm * Minute
    BY <1>1, BankFacts
  <2>4. Level(b) \in Nat
    BY <1>1, <1>3, LevelRange DEF Level
  <2>6. b.capacity = DefaultRpm
    BY <1>3, <1>4, <2>1 DEF Account
  <2>7. admitted[u] * Minute + Level(b) <= Bank(boots + 1, now)
    <3>1. CASE Known(u)
      BY <1>3, <2>1, <3>1 DEF Account
    <3>2. CASE ~Known(u)
      <4>1. admitted[u] * Minute <= Bank(boots, now) /\ Level(b) = DefaultRpm * Minute
        BY <1>3, <1>4, <2>1, <3>2 DEF Account
      <4> HIDE DEF b
      <4> QED
        BY <4>1, <2>2, <2>3, SMT
    <3> QED
      BY <3>1, <3>2
  <2>8. admitted'[u] * Minute + Level(buckets[u])' <= Bank(boots + 1, now)
    <3> HIDE DEF b
    <3>1. Level(buckets[u])' = Level(b) - Minute
      BY <1>5, <1>6, <1>7, <2>2 DEF Level
    <3>2. Bank(boots + 1, now) \in Nat
      BY <2>3, SMT
    <3> QED
      BY <1>1, <2>1, <2>2, <2>4, <2>7, <3>1, <3>2, SMT
  <2>9. buckets'[u].capacity = DefaultRpm
    BY <1>6, <1>7, <2>6
  <2> QED
    BY <1>5, <1>7, <2>8, <2>9 DEF Account
<1>9. ASSUME NEW v \in Users, v # u PROVE Account(v)'
  <2>1. Account(v) /\ admitted'[v] = admitted[v]
    BY <1>1, <1>9 DEF IInv
  <2> QED
    BY <1>5, <1>7, <1>9, <2>1 DEF Account, Level
<1> QED
  BY <1>7, <1>8, <1>9

LEMMA DenyKeepsAccounts ==
    ASSUME IInv, NEW u \in Users, Deny(u, 1, 0), admitted' = admitted, boots' = boots
    PROVE  BucketsTyped' /\ \A v \in Users : Account(v)'
<1> DEFINE b == GetBucket(u, 0)
<1>1. /\ BucketsTyped /\ now \in Nat /\ ~Affords(b, 1)
      /\ buckets' = Put(buckets, u, Refill(b)) /\ now' = now
  BY DEF IInv, TypeOK, BucketsTyped, Deny
<1>2. CASE Known(u)
  BY <1>1, <1>2, RefillKeepsAccounts DEF GetBucket
<1>3. CASE ~Known(u)  \* a bucket the check has just created is never refused
  <2>1. Sound(b, now) /\ Level(b) = b.capacity * Minute /\ b.capacity = DefaultRpm
    <3>1. Sound(b, now) /\ Level(b) = b.capacity * Minute
      BY <1>1, <1>3, GetBucketFacts
    <3> QED
      BY <1>3, <3>1 DEF GetBucket, NewBucket
  <2>2. DefaultRpm * Minute >= 1 * Minute
    BY ProductMonotone, LimitAssumption, TimeAssumption, SMT
  <2> QED
    BY <1>1, <2>1, <2>2 DEF Affords
<1> QED
  BY <1>2, <1>3

LEMMA LimiterFrame ==
    ASSUME IInv, UNCHANGED <<limiterVars, admitted, boots>>
    PROVE  BucketsTyped' /\ \A v \in Users : Account(v)'
<1>1. BucketsTyped'
  BY DEF IInv, TypeOK, BucketsTyped, limiterVars
<1>2. ASSUME NEW v \in Users PROVE Account(v)'
  <2>1. Account(v)
    BY DEF IInv
  <2> QED
    BY <2>1 DEF Account, Known, Level, limiterVars
<1> QED
  BY <1>1, <1>2

LEMMA ConnectionsFrame ==
    ASSUME TypeOK, UNCHANGED reqs, issued \subseteq issued'
    PROVE  DOMAIN reqs' = Connections /\ \A r \in Connections : ConnectionTyped(reqs[r])'
<1>1. ASSUME NEW q, ConnectionTyped(q) PROVE ConnectionTyped(q)'
  BY <1>1 DEF ConnectionTyped
<1> QED
  BY <1>1 DEF TypeOK

(* One connection moves on and nothing is issued.                            *)
LEMMA ConnectionMoves ==
    ASSUME TypeOK, UNCHANGED issued, NEW r \in Connections, NEW q, ConnectionTyped(q),
           reqs' = [reqs EXCEPT ![r] = q]
    PROVE  DOMAIN reqs' = Connections /\ \A x \in Connections : ConnectionTyped(reqs[x])'
<1>1. ASSUME NEW p, ConnectionTyped(p) PROVE ConnectionTyped(p)'
  BY <1>1 DEF ConnectionTyped
<1>2. ASSUME NEW x \in Connections PROVE ConnectionTyped(reqs'[x])
  BY DEF TypeOK
<1> QED
  BY <1>1, <1>2 DEF TypeOK

LEMMA CredentialsFrame ==
    ASSUME IInv, UNCHANGED <<authVars, issued>>
    PROVE  KeysTyped' /\ Provenance'
  BY DEF IInv, TypeOK, KeysTyped, Provenance, authVars

LEMMA IssueKeyKeeps ==
    ASSUME IInv, NEW k \in ApiKeys, NEW u \in Users, IssueKey(k, u)
    PROVE  IInv'
<1>1. /\ api_keys' = Put(api_keys, k, [user |-> u, is_active |-> TRUE])
      /\ secret' = secret /\ issued' = issued \cup {KeyCredential(k)}
      /\ UNCHANGED <<limiterVars, reqs, boots, admitted>>
  BY DEF IssueKey, GenerateKey
<1>2. KeyCredential(k) \in Credentials /\ KeyCredential(k).kind = "api_key"
  BY DEF KeyCredential, Credentials
<1>3. DOMAIN api_keys' = DOMAIN api_keys \cup {k}
      /\ \A x \in DOMAIN api_keys' :
            api_keys'[x] = IF x = k THEN [user |-> u, is_active |-> TRUE] ELSE api_keys[x]
  BY <1>1 DEF Put
<1>4. KeysTyped' /\ HistoryTyped' /\ Provenance'
  <2>1. KeysTyped'
    <3>1. [user |-> u, is_active |-> TRUE] \in [user : Users, is_active : BOOLEAN]
      OBVIOUS
    <3>2. \A x \in DOMAIN api_keys : api_keys[x] \in [user : Users, is_active : BOOLEAN]
      BY DEF IInv, TypeOK, KeysTyped
    <3>3. \A x \in DOMAIN api_keys' : api_keys'[x] \in [user : Users, is_active : BOOLEAN]
      BY <1>3, <3>1, <3>2
    <3> QED
      BY <1>1, <1>3, <3>3 DEF IInv, TypeOK, KeysTyped
  <2>2. HistoryTyped'
    BY <1>1, <1>2 DEF IInv, TypeOK, HistoryTyped
  <2>3. Provenance'
    BY <1>1, <1>2, <1>3 DEF IInv, Provenance
  <2> QED
    BY <2>1, <2>2, <2>3
<1> QED
  BY <1>1, <1>4, LimiterFrame, ConnectionsFrame DEF IInv, TypeOK

LEMMA IssueTokenKeeps ==
    ASSUME IInv, NEW u \in Users, IssueToken(u)
    PROVE  IInv'
<1>1. /\ issued' = issued \cup {Token(u, now)}
      /\ UNCHANGED <<limiterVars, authVars, reqs, boots, admitted>>
  BY DEF IssueToken
<1>2. now \in Nat /\ secret \in Nat
  BY DEF IInv, TypeOK, BucketsTyped, KeysTyped
<1>3. /\ Token(u, now) \in Credentials
      /\ Token(u, now).kind = "jwt" /\ Token(u, now).secret = secret
  <2>1. now + JwtExpiry \in Nat
    BY <1>2, ExpiryAssumption
  <2> QED
    BY <1>2, <2>1 DEF Token, Credentials
<1>4. KeysTyped' /\ HistoryTyped'
  BY <1>1, <1>3 DEF IInv, TypeOK, KeysTyped, HistoryTyped, authVars
<1>5. Provenance'
  BY <1>1, <1>2, <1>3 DEF IInv, Provenance, authVars
<1> QED
  BY <1>1, <1>4, <1>5, LimiterFrame, ConnectionsFrame DEF IInv, TypeOK

LEMMA RevokeKeeps ==
    ASSUME IInv, NEW k \in ApiKeys, Revoke(k)
    PROVE  IInv'
<1>1. secret' = secret /\ UNCHANGED <<limiterVars, reqs, history>>
  BY DEF Revoke, DeactivateKey
<1>2. /\ DOMAIN api_keys' = DOMAIN api_keys
      /\ \A x \in DOMAIN api_keys : api_keys'[x] \in [user : Users, is_active : BOOLEAN]
  <2>1. \A x \in DOMAIN api_keys : api_keys[x] \in [user : Users, is_active : BOOLEAN]
    BY DEF IInv, TypeOK, KeysTyped
  <2>2. api_keys' = IF k \in DOMAIN api_keys
                    THEN [api_keys EXCEPT ![k].is_active = FALSE] ELSE api_keys
    BY DEF Revoke, DeactivateKey
  <2> QED
    BY <2>1, <2>2
<1>3. KeysTyped' /\ HistoryTyped' /\ Provenance'
  BY <1>1, <1>2 DEF IInv, TypeOK, KeysTyped, HistoryTyped, Provenance, history
<1> QED
  BY <1>1, <1>3, LimiterFrame, ConnectionsFrame DEF IInv, TypeOK, history

LEMMA ArriveKeeps ==
    ASSUME IInv, NEW r \in Connections, NEW c \in issued \cup NoCredential, Arrive(r, c)
    PROVE  IInv'
<1>1. UNCHANGED <<limiterVars, authVars, history>>
  BY DEF Arrive
<1> DEFINE q == Connection("arrived", c, Nobody, 0)
<1>2. reqs' = [reqs EXCEPT ![r] = q] /\ ConnectionTyped(q)
  <2>1. q.phase = "arrived" /\ ConnectionTyped(q)
    BY DEF Connection, ConnectionTyped
  <2> QED
    BY <2>1 DEF Arrive, Becomes
<1>3. DOMAIN reqs' = Connections /\ \A x \in Connections : ConnectionTyped(reqs[x])'
  <2> HIDE DEF q
  <2> QED
    BY <1>1, <1>2, ConnectionMoves DEF IInv, history
<1>4. HistoryTyped'
  BY <1>1 DEF IInv, TypeOK, HistoryTyped, history
<1> QED
  BY <1>1, <1>3, <1>4, LimiterFrame, CredentialsFrame DEF IInv, TypeOK, history

LEMMA AuthenticateKeeps ==
    ASSUME IInv, NEW r \in Connections, Authenticate(r)
    PROVE  IInv'
<1>1. UNCHANGED <<limiterVars, authVars, history>> /\ Phase(r) = "arrived"
  BY DEF Authenticate
<1>2. ConnectionTyped(reqs[r]) /\ TypeOK
  BY DEF IInv, TypeOK
<1> DEFINE user == WhoIs(Header(r), now)
           refused == Connection("idle", Header(r), User(r), 401)
           passed == Connection("authenticated", Header(r), user, 0)
<1>3. DOMAIN reqs' = Connections /\ \A x \in Connections : ConnectionTyped(reqs[x])'
  <2>1. CASE user = Nobody
    <3>1. ConnectionTyped(refused)
      BY <1>2 DEF ConnectionTyped, Connection, Header, User
    <3>2. reqs' = [reqs EXCEPT ![r] = refused]
      BY <2>1 DEF Authenticate, Reply, Becomes
    <3> HIDE DEF refused
    <3> QED
      BY <1>1, <1>2, <3>1, <3>2, ConnectionMoves DEF history
  <2>2. CASE user # Nobody
    <3>1. Header(r) \in issued
      BY <1>2, <2>2, NoCredentialRefused DEF ConnectionTyped, Header
    <3>2. user \in Users
      BY <1>2, <2>2, <3>1, RefusedMeansInvalid
    <3>3. reqs' = [reqs EXCEPT ![r] = passed]
      BY <2>2 DEF Authenticate, Becomes
    <3> HIDE DEF user
    <3>4. ConnectionTyped(passed)
      BY <3>1, <3>2 DEF ConnectionTyped, Connection
    <3> HIDE DEF passed
    <3> QED
      BY <1>1, <1>2, <3>3, <3>4, ConnectionMoves DEF history
  <2> QED
    BY <2>1, <2>2
<1>4. HistoryTyped'
  BY <1>1 DEF IInv, TypeOK, HistoryTyped, history
<1> QED
  BY <1>1, <1>3, <1>4, LimiterFrame, CredentialsFrame DEF IInv, TypeOK, history

LEMMA LimitKeeps ==
    ASSUME IInv, NEW r \in Connections, Limit(r)
    PROVE  IInv'
<1>1. /\ TypeOK /\ ConnectionTyped(reqs[r]) /\ Phase(r) = "authenticated"
      /\ UNCHANGED <<authVars, issued, boots>>
  BY DEF Limit, IInv, TypeOK
<1>2. Header(r) \in issued /\ User(r) \in Users /\ admitted \in [Users -> Nat]
  BY <1>1 DEF ConnectionTyped, Phase, Header, User, TypeOK, HistoryTyped
<1> DEFINE passed == Connection("admitted", Header(r), User(r), 0)
           refused == Connection("idle", Header(r), User(r), 429)
<1>3. CASE /\ Allow(User(r), 1, 0) /\ Becomes(r, passed)
           /\ admitted' = [admitted EXCEPT ![User(r)] = @ + 1]
  <2>1. BucketsTyped' /\ \A v \in Users : Account(v)'
    BY <1>1, <1>2, <1>3, AllowKeepsAccounts
  <2>2. HistoryTyped'
    BY <1>1, <1>2, <1>3 DEF TypeOK, HistoryTyped
  <2>3. ConnectionTyped(passed)
    BY <1>2 DEF ConnectionTyped, Connection
  <2>4. DOMAIN reqs' = Connections /\ \A x \in Connections : ConnectionTyped(reqs[x])'
    <3> HIDE DEF passed
    <3> QED
      BY <1>1, <1>3, <2>3, ConnectionMoves DEF Becomes
  <2> QED
    BY <1>1, <2>1, <2>2, <2>4, CredentialsFrame DEF IInv, TypeOK
<1>4. CASE Deny(User(r), 1, 0) /\ Becomes(r, refused) /\ UNCHANGED admitted
  <2>1. BucketsTyped' /\ \A v \in Users : Account(v)'
    BY <1>1, <1>2, <1>4, DenyKeepsAccounts
  <2>2. HistoryTyped'
    BY <1>1, <1>4 DEF TypeOK, HistoryTyped
  <2>3. ConnectionTyped(refused)
    BY <1>2 DEF ConnectionTyped, Connection
  <2>4. DOMAIN reqs' = Connections /\ \A x \in Connections : ConnectionTyped(reqs[x])'
    <3> HIDE DEF refused
    <3> QED
      BY <1>1, <1>4, <2>3, ConnectionMoves DEF Becomes
  <2> QED
    BY <1>1, <2>1, <2>2, <2>4, CredentialsFrame DEF IInv, TypeOK
<1> QED
  BY <1>3, <1>4 DEF Limit, Reply

LEMMA HandleKeeps ==
    ASSUME IInv, NEW r \in Connections, Handle(r)
    PROVE  IInv'
<1>1. /\ TypeOK /\ ConnectionTyped(reqs[r]) /\ Phase(r) = "admitted"
      /\ UNCHANGED <<authVars, history>> /\ ReadRemaining(User(r))
  BY DEF Handle, IInv, TypeOK
<1>2. Header(r) \in issued /\ User(r) \in Users
  BY <1>1 DEF ConnectionTyped, Phase, Header, User
<1> DEFINE answered == Connection("idle", Header(r), User(r), 200)
<1>3. BucketsTyped' /\ \A v \in Users : Account(v)'
  <2>1. CASE Known(User(r))
    BY <1>1, <1>2, <2>1, RefillKeepsAccounts DEF ReadRemaining, history
  <2>2. CASE ~Known(User(r))
    BY <1>1, <2>2, LimiterFrame DEF ReadRemaining, history, limiterVars
  <2> QED
    BY <2>1, <2>2
<1>4. ConnectionTyped(answered)
  BY <1>2 DEF ConnectionTyped, Connection
<1>5. DOMAIN reqs' = Connections /\ \A x \in Connections : ConnectionTyped(reqs[x])'
  <2>1. reqs' = [reqs EXCEPT ![r] = answered]
    BY DEF Handle, Reply, Becomes
  <2> HIDE DEF answered
  <2> QED
    BY <1>1, <1>4, <2>1, ConnectionMoves DEF history
<1>6. HistoryTyped'
  BY <1>1 DEF TypeOK, HistoryTyped, history
<1> QED
  BY <1>1, <1>3, <1>5, <1>6, CredentialsFrame DEF IInv, TypeOK, history

LEMMA IdleTyped == ConnectionTyped(Idle)
  BY DEF ConnectionTyped, Idle, Connection, NoCredential

LEMMA RestartKeeps ==
    ASSUME IInv, Restart
    PROVE  IInv'
<1>1. /\ now' = now /\ now \in Nat /\ buckets' = Empty /\ api_keys' = Empty
      /\ boots' = boots + 1 /\ boots < MaxBoots /\ boots \in Nat /\ MaxBoots \in Nat
      /\ secret \in Nat /\ secret' \in {secret, secret + 1}
      /\ UNCHANGED <<issued, admitted>> /\ reqs' = [r \in Connections |-> Idle]
  BY AccessAssumption DEF Restart, AuthRestart, IInv, TypeOK, BucketsTyped, KeysTyped, HistoryTyped
<1>2. DOMAIN buckets' = {} /\ DOMAIN api_keys' = {}
  BY <1>1 DEF Empty
<1>3. BucketsTyped' /\ KeysTyped'
  BY <1>1, <1>2 DEF BucketsTyped, KeysTyped
<1>4. HistoryTyped'
  BY <1>1 DEF IInv, TypeOK, HistoryTyped
<1>5. \A x \in Connections : ConnectionTyped(reqs[x])'
  <2>1. ConnectionTyped(Idle)'
    BY <1>1, IdleTyped DEF ConnectionTyped
  <2>2. Idle' = Idle
    BY DEF Idle, Connection
  <2> QED
    BY <1>1, <2>1, <2>2 DEF ConnectionTyped
<1>6. Provenance'
  <2>1. \A c \in issued : c.kind = "jwt" => c.secret <= secret /\ c.secret \in Nat
    BY DEF IInv, Provenance, TypeOK, HistoryTyped, Credentials
  <2> QED
    BY <1>1, <1>2, <2>1 DEF Provenance
<1>7. ASSUME NEW v \in Users PROVE Account(v)'
  <2>1. Account(v) /\ admitted[v] \in Nat
    BY DEF IInv, TypeOK, HistoryTyped
  <2>2. /\ Bank(boots, now) \in Nat /\ DefaultRpm * Minute \in Nat
        /\ Bank(boots + 1, now) = Bank(boots, now) + DefaultRpm * Minute
    BY <1>1, BankFacts
  <2>3. admitted[v] * Minute <= Bank(boots + 1, now)
    <3>1. admitted[v] * Minute \in Nat
      BY <2>1, ProductNat, TimeAssumption
    <3>2. CASE Known(v)
      <4>1. Level(buckets[v]) \in Nat
        BY <1>1, <3>2, BucketSound, LevelRange DEF IInv, TypeOK, Level
      <4> QED
        BY <2>1, <2>2, <3>1, <3>2, <4>1, SMT DEF Account
    <3>3. CASE ~Known(v)
      BY <2>1, <2>2, <3>1, <3>3, SMT DEF Account
    <3> QED
      BY <3>2, <3>3
  <2> QED
    BY <1>1, <1>2, <2>3 DEF Account, Known
<1> QED
  BY <1>1, <1>3, <1>4, <1>5, <1>6, <1>7 DEF IInv, TypeOK

LEMMA TimeKeeps ==
    ASSUME IInv, TimePasses
    PROVE  IInv'
<1>1. /\ now \in Nat /\ now' = now + 1 /\ boots \in Nat
      /\ UNCHANGED <<buckets, authVars, reqs, history>>
  BY AccessAssumption DEF TimePasses, Tick, IInv, TypeOK, BucketsTyped, HistoryTyped
<1>2. ASSUME NEW u, Known(u)
      PROVE  /\ Sound(buckets[u], now + 1)
             /\ Level(buckets[u]) \in Nat /\ LevelAt(buckets[u], now + 1) \in Nat
             /\ LevelAt(buckets[u], now + 1) <= Level(buckets[u]) + buckets[u].capacity
  <2>1. Sound(buckets[u], now)
    BY <1>2, BucketSound DEF IInv, TypeOK
  <2>2. Sound(buckets[u], now + 1) /\ LevelAt(buckets[u], now) \in Nat
    BY <1>1, <2>1, LevelTick, LevelRange
  <2> QED
    BY <1>1, <2>1, <2>2, LevelTick, LevelRange DEF Level
<1>3. BucketsTyped'
  BY <1>1, <1>2 DEF IInv, TypeOK, BucketsTyped, Known, Sound
<1>4. ASSUME NEW v \in Users PROVE Account(v)'
  <2>1. Account(v) /\ admitted[v] * Minute \in Nat
    BY ProductNat, TimeAssumption DEF IInv, TypeOK, HistoryTyped
  <2>2. Bank(boots, now + 1) = Bank(boots, now) + DefaultRpm
        /\ Bank(boots + 1, now + 1) = Bank(boots + 1, now) + DefaultRpm
        /\ Bank(boots, now) \in Nat /\ Bank(boots + 1, now) \in Nat /\ DefaultRpm \in Nat
    <3>1. boots + 1 \in Nat
      BY <1>1
    <3> QED
      BY <1>1, <3>1, BankFacts, LimitAssumption
  <2>3. CASE Known(v)
    <3>1. /\ Level(buckets[v])' = LevelAt(buckets[v], now + 1)
          /\ buckets[v].capacity = DefaultRpm
          /\ admitted[v] * Minute + Level(buckets[v]) <= Bank(boots + 1, now)
      BY <1>1, <2>1, <2>3 DEF Account, Level
    <3>2. admitted[v] * Minute + LevelAt(buckets[v], now + 1) <= Bank(boots + 1, now + 1)
      BY <1>2, <2>1, <2>2, <2>3, <3>1, SMT
    <3> QED
      BY <1>1, <2>3, <3>1, <3>2 DEF Account, Known, history
  <2>4. CASE ~Known(v)
    <3>1. admitted[v] * Minute <= Bank(boots, now + 1)
      BY <2>1, <2>2, <2>4, SMT DEF Account
    <3> QED
      BY <1>1, <2>4, <3>1 DEF Account, Known, history
  <2> QED
    BY <2>3, <2>4
<1>5. HistoryTyped'
  BY <1>1 DEF IInv, TypeOK, HistoryTyped, history
<1> QED
  BY <1>1, <1>3, <1>4, <1>5, ConnectionsFrame, CredentialsFrame DEF IInv, TypeOK, history

-----------------------------------------------------------------------------

LEMMA Initially == Init => IInv
<1> SUFFICES ASSUME Init PROVE IInv
  OBVIOUS
<1>1. /\ now = 0 /\ buckets = Empty /\ api_keys = Empty /\ secret = 0 /\ boots = 0
      /\ reqs = [r \in Connections |-> Idle] /\ issued = {}
      /\ admitted = [u \in Users |-> 0]
  BY DEF Init, LimiterInit, AuthInit
<1>2. DOMAIN buckets = {} /\ DOMAIN api_keys = {}
  BY <1>1 DEF Empty
<1>3. BucketsTyped /\ KeysTyped /\ HistoryTyped
  BY <1>1, <1>2, AccessAssumption DEF BucketsTyped, KeysTyped, HistoryTyped
<1>4. DOMAIN reqs = Connections /\ \A r \in Connections : ConnectionTyped(reqs[r])
  BY <1>1, IdleTyped
<1>5. Provenance
  BY <1>1, <1>2 DEF Provenance
<1>6. ASSUME NEW u \in Users PROVE Account(u)
  <2>1. admitted[u] * Minute = 0 /\ Bank(0, 0) \in Nat
    BY <1>1, BankFacts, TimeAssumption, SMT
  <2> QED
    BY <1>1, <1>2, <2>1 DEF Account, Known
<1> QED
  BY <1>3, <1>4, <1>5, <1>6 DEF IInv, TypeOK

LEMMA Inductive == IInv /\ [Next]_vars => IInv'
<1> SUFFICES ASSUME IInv, [Next]_vars PROVE IInv'
  OBVIOUS
<1>1. ASSUME NEW r \in Connections, Serve(r) PROVE IInv'
  BY <1>1, AuthenticateKeeps, LimitKeeps, HandleKeeps DEF Serve
<1>2. ASSUME NEW r \in Connections, NEW c \in issued \cup NoCredential, Arrive(r, c)
      PROVE  IInv'
  BY <1>2, ArriveKeeps
<1>3. ASSUME NEW u \in Users, IssueToken(u) PROVE IInv'
  BY <1>3, IssueTokenKeeps
<1>4. ASSUME NEW u \in Users, NEW k \in ApiKeys, IssueKey(k, u) PROVE IInv'
  BY <1>4, IssueKeyKeeps
<1>5. ASSUME NEW k \in ApiKeys, Revoke(k) PROVE IInv'
  BY <1>5, RevokeKeeps
<1>6. CASE Restart
  BY <1>6, RestartKeeps
<1>7. CASE TimePasses
  BY <1>7, TimeKeeps
<1>8. CASE UNCHANGED vars
  <2>1. UNCHANGED <<limiterVars, authVars, reqs, history>>
    BY <1>8 DEF vars
  <2>2. HistoryTyped'
    BY <2>1 DEF IInv, TypeOK, HistoryTyped, history
  <2> QED
    BY <2>1, <2>2, LimiterFrame, ConnectionsFrame, CredentialsFrame DEF IInv, TypeOK, history
<1> QED
  BY <1>1, <1>2, <1>3, <1>4, <1>5, <1>6, <1>7, <1>8 DEF Next

LEMMA Invariance == Spec => []IInv
<1> QED
  BY Initially, Inductive, PTL DEF Spec

(* Types are kept, and beyond the authentication middleware a request has a    *)
(* user and carries a credential that was issued.                           *)
THEOREM AccessTypeCorrect == Spec => []TypeOK
<1>1. IInv => TypeOK
  BY DEF IInv
<1> QED
  BY <1>1, Invariance, PTL

(* A user's budget grows by one full bucket per process and by time, whatever  *)
(* credentials it uses.                                                     *)
THEOREM RestartsKeepBudget == Spec => []BudgetAcrossRestarts
<1>1. IInv => BudgetAcrossRestarts
  <2> SUFFICES ASSUME IInv, NEW u \in Users
               PROVE  admitted[u] * Minute <= Bank(boots + 1, now)
    BY DEF BudgetAcrossRestarts, Bank
  <2>1. /\ Account(u) /\ admitted[u] * Minute \in Nat /\ now \in Nat /\ boots \in Nat
    BY ProductNat, TimeAssumption, AccessAssumption
       DEF IInv, TypeOK, HistoryTyped, BucketsTyped
  <2>2. /\ Bank(boots, now) \in Nat /\ DefaultRpm * Minute \in Nat
        /\ Bank(boots + 1, now) = Bank(boots, now) + DefaultRpm * Minute
    BY <2>1, BankFacts
  <2>3. CASE Known(u)
    <3>1. Level(buckets[u]) \in Nat
      BY <2>1, <2>3, BucketSound, LevelRange DEF IInv, TypeOK, Level
    <3> QED
      BY <2>1, <2>2, <2>3, <3>1, SMT DEF Account
  <2>4. CASE ~Known(u)
    BY <2>1, <2>2, <2>4, SMT DEF Account
  <2> QED
    BY <2>3, <2>4
<1> QED
  BY <1>1, Invariance, PTL

(* One step of an accepting-to-refused credential, action by action.          *)
LEMMA StaysRefused ==
    ASSUME IInv, IInv', Next, NEW c \in issued, WhoIs(c, now) = Nobody
    PROVE  WhoIs(c, now)' = Nobody
<1> DEFINE Valid == (c.kind = "api_key" /\ ValidKey(c.key)) \/ (c.kind = "jwt" /\ ValidToken(c, now))
<1>1. ~Valid
  BY RefusedMeansInvalid DEF IInv
<1>2. c \in Credentials /\ c \in issued' /\ issued \subseteq issued'
  <2>1. issued \subseteq issued'
    BY DEF Next, Serve, Arrive, Authenticate, Limit, Handle, IssueToken, IssueKey, Revoke,
           Restart, TimePasses, history
  <2> QED
    BY <2>1 DEF IInv, TypeOK, HistoryTyped
<1>3. now \in Nat /\ now' \in Nat /\ now' >= now /\ secret \in Nat
  BY DEF IInv, TypeOK, BucketsTyped, KeysTyped, Next, Serve, Arrive, Authenticate, Limit, Handle,
         Allow, Deny, ReadRemaining, IssueToken, IssueKey, Revoke, Restart, TimePasses, Tick,
         limiterVars
<1>4. secret' = secret \/ secret' = secret + 1
  BY DEF Next, Serve, Arrive, Authenticate, Limit, Handle, IssueToken, IssueKey, GenerateKey,
         Revoke, DeactivateKey, Restart, AuthRestart, TimePasses, authVars
<1>5. c.kind = "jwt" => ~ValidToken(c, now)'
  <2> SUFFICES ASSUME c.kind = "jwt" PROVE ~ValidToken(c, now)'
    OBVIOUS
  <2>1. c.secret \in Nat /\ c.exp \in Nat /\ c.secret <= secret /\ ~ValidToken(c, now)
    BY <1>1, <1>2 DEF Credentials, IInv, Provenance
  <2> QED
    BY <1>3, <1>4, <2>1, SMT DEF ValidToken
<1>6. c.kind = "api_key" => ~ValidKey(c.key)'
  <2> SUFFICES ASSUME c.kind = "api_key", ValidKey(c.key)' PROVE FALSE
    OBVIOUS
  <2>1. c.key \in ApiKeys /\ c = KeyCredential(c.key) /\ ~ValidKey(c.key)
    BY <1>1, <1>2 DEF Credentials, KeyCredential
  <2>2. ASSUME NEW u \in Users, NEW k \in ApiKeys, IssueKey(k, u) PROVE FALSE
    <3>1. KeyCredential(k) \notin issued
      BY <2>2 DEF IssueKey
    <3>2. k # c.key
      BY <2>1, <3>1
    <3>3. api_keys' = Put(api_keys, k, [user |-> u, is_active |-> TRUE])
      BY <2>2 DEF IssueKey, GenerateKey
    <3>4. c.key \in DOMAIN api_keys /\ api_keys'[c.key] = api_keys[c.key]
      BY <3>2, <3>3 DEF ValidKey, Put
    <3> QED
      BY <2>1, <3>4 DEF ValidKey
  <2>3. ASSUME NEW k \in ApiKeys, Revoke(k) PROVE FALSE
    <3>1. api_keys' = IF k \in DOMAIN api_keys
                      THEN [api_keys EXCEPT ![k].is_active = FALSE] ELSE api_keys
      BY <2>3 DEF Revoke, DeactivateKey
    <3> QED
      BY <2>1, <3>1 DEF ValidKey
  <2>4. CASE Restart
    BY <2>4 DEF Restart, AuthRestart, Empty, ValidKey
  <2>5. CASE UNCHANGED api_keys
    BY <2>1, <2>5 DEF ValidKey
  <2>6. \/ UNCHANGED api_keys \/ Restart \/ \E k \in ApiKeys : Revoke(k)
        \/ \E u \in Users, k \in ApiKeys : IssueKey(k, u)
    BY DEF Next, Serve, Arrive, Authenticate, Limit, Handle, IssueToken, TimePasses, authVars
  <2> QED
    BY <2>2, <2>3, <2>4, <2>5, <2>6
<1>7. c.kind = "jwt" \/ c.kind = "api_key"
  BY <1>2 DEF Credentials
<1>8. CASE c.kind = "jwt"
  BY <1>5, <1>8 DEF WhoIs
<1>9. CASE c.kind = "api_key"
  BY <1>6, <1>9 DEF WhoIs
<1> QED
  BY <1>7, <1>8, <1>9

(* No credential that has stopped working works again, restarts included.     *)
THEOREM RefusedForGood == Spec => RefusalIsFinal
<1>1. IInv /\ IInv' /\ [Next]_vars
      => [\A c \in issued : WhoIs(c, now) = Nobody => WhoIs(c, now)' = Nobody]_vars
  BY StaysRefused
<1> QED
  BY <1>1, Invariance, PTL DEF Spec, RefusalIsFinal
=============================================================================
