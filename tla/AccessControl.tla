--------------------------- MODULE AccessControl ---------------------------
(***************************************************************************)
(* Who gets in: the authentication and rate-limit middlewares over the key     *)
(* store, the token secret and the buckets of the process, while keys are      *)
(* created and deactivated, tokens expire and the process restarts.           *)
(*                                                                          *)
(*   reqs      one record per connection, used for one request after another   *)
(*   issued    every credential ever given out                               *)
(*   boots     how often the process has been restarted                      *)
(*   admitted  user -> how many of its requests were ever let in               *)
(*                                                                          *)
(* What the handlers do with a request is RequestPipeline's subject; here a    *)
(* handler is the step between being admitted and being answered.  Public      *)
(* paths and OPTIONS requests pass both middlewares unseen and are left out.   *)
(***************************************************************************)
EXTENDS RateLimiter, AuthService

CONSTANTS
    Connections,
    Users,
    ApiKeys,     \* keys that can be generated
    MaxBoots     \* bound on restarts

ASSUME AccessAssumption == Nobody \notin Users /\ MaxBoots \in Nat

VARIABLES reqs, issued, boots, admitted

history == <<issued, boots, admitted>>
vars == <<limiterVars, authVars, reqs, history>>

Connection(phase, header, user, status) ==
    [phase |-> phase, header |-> header, user |-> user, status |-> status]

Idle == Connection("idle", [kind |-> "missing"], Nobody, 0)

Phase(r) == reqs[r].phase
Header(r) == reqs[r].header
User(r) == reqs[r].user

Becomes(r, connection) == reqs' = [reqs EXCEPT ![r] = connection]

Reply(r, status) == Becomes(r, Connection("idle", Header(r), User(r), status))

(* An operator creates a key or a token for a user, or deactivates a key. *)
IssueKey(k, user) ==
    /\ KeyCredential(k) \notin issued
    /\ GenerateKey(k, user)
    /\ issued' = issued \cup {KeyCredential(k)}
    /\ UNCHANGED <<limiterVars, reqs, boots, admitted>>

IssueToken(user) ==
    /\ Token(user, now) \notin issued
    /\ issued' = issued \cup {Token(user, now)}
    /\ UNCHANGED <<limiterVars, authVars, reqs, boots, admitted>>

Revoke(k) ==
    /\ DeactivateKey(k)
    /\ UNCHANGED <<limiterVars, reqs, history>>

Arrive(r, header) ==
    /\ Phase(r) = "idle"
    /\ Becomes(r, Connection("arrived", header, Nobody, 0))
    /\ UNCHANGED <<limiterVars, authVars, history>>

(* Mutant: a request that does not authenticate goes on without a user. *)
Authenticate_Optional(r) ==
    /\ Phase(r) = "arrived"
    /\ Becomes(r, Connection("authenticated", Header(r), WhoIs(Header(r), now), 0))
    /\ UNCHANGED <<limiterVars, authVars, history>>

(* AuthenticationMiddleware.dispatch *)
Authenticate(r) ==
    /\ Phase(r) = "arrived"
    /\ LET user == WhoIs(Header(r), now) IN
       IF user = Nobody THEN Reply(r, 401)
       ELSE Becomes(r, Connection("authenticated", Header(r), user, 0))
    /\ UNCHANGED <<limiterVars, authVars, history>>

(* Mutant: a refused check lets the request through all the same. *)
Limit_NeverRefuses(r) ==
    /\ Phase(r) = "authenticated"
    /\ Allow(User(r), 1, 0) \/ Deny(User(r), 1, 0)
    /\ Becomes(r, Connection("admitted", Header(r), User(r), 0))
    /\ admitted' = [admitted EXCEPT ![User(r)] = @ + 1]
    /\ UNCHANGED <<authVars, issued, boots>>

(* RateLimitMiddleware.dispatch: the bucket is that of the user, whatever     *)
(* credential the request came with.                                        *)
Limit(r) ==
    /\ Phase(r) = "authenticated"
    /\ \/ /\ Allow(User(r), 1, 0)
          /\ Becomes(r, Connection("admitted", Header(r), User(r), 0))
          /\ admitted' = [admitted EXCEPT ![User(r)] = @ + 1]
       \/ /\ Deny(User(r), 1, 0)
          /\ Reply(r, 429)
          /\ UNCHANGED admitted
    /\ UNCHANGED <<authVars, issued, boots>>

(* The handler's answer, stamped with what remains. *)
Handle(r) ==
    /\ Phase(r) = "admitted"
    /\ ReadRemaining(User(r))
    /\ Reply(r, 200)
    /\ UNCHANGED <<authVars, history>>

(* The process is replaced: connections, buckets and keys are gone. *)
Restart ==
    /\ boots < MaxBoots
    /\ AuthRestart
    /\ buckets' = Empty
    /\ reqs' = [r \in Connections |-> Idle]
    /\ boots' = boots + 1
    /\ UNCHANGED <<now, issued, admitted>>

TimePasses == Tick /\ UNCHANGED <<authVars, reqs, history>>

Init ==
    /\ LimiterInit /\ AuthInit
    /\ reqs = [r \in Connections |-> Idle]
    /\ issued = {} /\ boots = 0
    /\ admitted = [u \in Users |-> 0]

Serve(r) == Authenticate(r) \/ Limit(r) \/ Handle(r)

Next ==
    \/ \E r \in Connections :
          Serve(r) \/ \E header \in issued \cup NoCredential : Arrive(r, header)
    \/ \E u \in Users : IssueToken(u) \/ \E k \in ApiKeys : IssueKey(k, u)
    \/ \E k \in ApiKeys : Revoke(k)
    \/ Restart
    \/ TimePasses

Spec == Init /\ [][Next]_vars

(* The event loop gets back to every task that can run. *)
FairSpec == Spec /\ \A r \in Connections : WF_vars(Serve(r))

-----------------------------------------------------------------------------

Credentials ==
    [kind : {"api_key"}, key : ApiKeys]
    \cup [kind : {"jwt"}, sub : Users, exp : Nat, secret : Nat]

BucketsTyped ==
    /\ now \in Nat /\ DOMAIN buckets \subseteq Users
    /\ \A u \in DOMAIN buckets :
          /\ buckets[u] \in Bucket
          /\ buckets[u].tokens <= buckets[u].capacity * Minute
          /\ buckets[u].last_refill <= now

KeysTyped ==
    /\ secret \in Nat /\ DOMAIN api_keys \subseteq ApiKeys
    /\ \A k \in DOMAIN api_keys : api_keys[k] \in [user : Users, is_active : BOOLEAN]

HistoryTyped ==
    /\ boots \in 0..MaxBoots /\ admitted \in [Users -> Nat]
    /\ issued \subseteq Credentials

ConnectionTyped(q) ==
    /\ q \in [phase : {"idle", "arrived", "authenticated", "admitted"},
              header : NoCredential \cup issued,
              user : Users \cup {Nobody}, status : {0, 200, 401, 429}]
    /\ q.phase \in {"authenticated", "admitted"} => q.header \in issued /\ q.user \in Users

(* Every variable keeps its type; beyond the authentication middleware a      *)
(* request has a user and a credential that was once issued.                  *)
TypeOK ==
    /\ BucketsTyped /\ KeysTyped /\ HistoryTyped
    /\ DOMAIN reqs = Connections /\ \A r \in Connections : ConnectionTyped(reqs[r])

(* A credential that has stopped authenticating never authenticates again:     *)
(* not by another deactivation, nor by a restart, nor as time goes on.        *)
RefusalIsFinal ==
    [][\A c \in issued : WhoIs(c, now) = Nobody => WhoIs(c, now)' = Nobody]_vars

(* Whatever credentials a user holds, and however often the process restarts   *)
(* and forgets its buckets, no user is let in more often than one full bucket *)
(* per process plus what accrues over time.                                 *)
BudgetAcrossRestarts ==
    \A u \in Users :
        admitted[u] * Minute <= (boots + 1) * DefaultRpm * Minute + now * DefaultRpm

CarriesKey(r, k) ==
    Phase(r) \in {"authenticated", "admitted"} /\ Header(r) = KeyCredential(k)

(* Deactivating a key takes effect: requests already past the authentication   *)
(* middleware finish, and from some moment on none is served with it.         *)
RevocationSettles ==
    \A k \in ApiKeys :
        KeyCredential(k) \in issued /\ ~ValidKey(k)
            ~> [](\A r \in Connections : ~CarriesKey(r, k))

=============================================================================
