--------------------------- MODULE ProxyClearance ---------------------------
(***************************************************************************)
(* The proxy directory of one worker (control/proxy) in pool mode with      *)
(* FlareSolverr clearance: requests lease an egress proxy with a clearance  *)
(* bundle, concurrent requests for a bundle wait for the one that fetches   *)
(* it, failures rotate the pool, and the leader's scheduler rebuilds the    *)
(* bundles in the background.                                               *)
(*                                                                         *)
(* Nobody awaits while holding the directory's lock, so everything between  *)
(* two awaits (a FlareSolverr call, an event) is one step.  One clearance   *)
(* host is modelled, so a bundle's key is its proxy.  load() is the first   *)
(* thing a request and the scheduler do: they find the directory loaded.    *)
(***************************************************************************)
EXTENDS Naturals, Sequences, FiniteSets

CONSTANTS
  Client,       \* coroutines of concurrent requests
  Warmer,       \* ... of which these run warm_up
  Proxy,        \* proxy URLs
  Nobody,       \* no client, no proxy
  Config,       \* configurations the operator switches between
  FirstConfig,
  Pool,         \* Config -> its proxy pool
  Scheduled,    \* whether this worker runs the clearance scheduler
  MaxRequests,  \* bound of the environment: requests of a client
  MaxSolves,    \* bound of the environment: successful FlareSolverr calls
  MaxChanges    \* bound of the environment: configuration changes

ASSUME ClientAssumption ==
  /\ Warmer \subseteq Client /\ IsFiniteSet(Client)
  /\ Nobody \notin Client \cup Proxy
ASSUME PoolAssumption ==
  /\ FirstConfig \in Config
  /\ \A g \in Config : Pool[g] \in Seq(Proxy) /\ Pool[g] # <<>>
ASSUME BoundAssumption ==
  /\ Scheduled \in BOOLEAN
  /\ MaxRequests \in Nat /\ MaxSolves \in Nat /\ MaxChanges \in Nat

VARIABLES
  config,    \* the configuration snapshot
  changes,
  loaded,    \* configuration the directory has loaded (_config_sig)
  cursor,    \* _pool_cursor, modulo the length of the pool
  bundle,    \* proxy -> number of the solve that built its bundle, 0 for none
  valid,     \* proxies whose bundle is VALID
  flight,    \* _refresh_events: proxy -> client whose event is registered
  solves,
  pc,        \* client -> "idle", "solving", "waiting", "retry", "leased"
  proxy,     \* client -> the proxy it picked
  awaits,    \* client -> the client whose event it waits for
  carried,   \* client -> the bundle of its lease, 0 for none
  requests,
  target,    \* the scheduler: the proxy it is solving for
  todo       \* ... and those still to do

directory  == <<loaded, cursor, bundle, valid, flight>>
clientVars == <<pc, proxy, awaits, carried, requests>>
scheduler  == <<target, todo>>
environment == <<config, changes>>
vars == <<config, changes, loaded, cursor, bundle, valid, flight, solves,
          pc, proxy, awaits, carried, requests, target, todo>>

TypeOK ==
  /\ config \in Config /\ loaded \in Config /\ changes \in Nat
  /\ cursor \in 0..(Len(Pool[loaded]) - 1)
  /\ bundle \in [Proxy -> Nat]
  /\ valid \subseteq {p \in Proxy : bundle[p] # 0}
  /\ flight \in [Proxy -> Client \cup {Nobody}]
  /\ solves \in Nat
  /\ pc \in [Client -> {"idle", "solving", "waiting", "retry", "leased"}]
  /\ proxy \in [Client -> Proxy \cup {Nobody}]
  /\ awaits \in [Client -> Client \cup {Nobody}]
  /\ carried \in [Client -> Nat]
  /\ requests \in [Client -> Nat]
  /\ target \in Proxy \cup {Nobody} /\ todo \subseteq Proxy

Init ==
  /\ config = FirstConfig /\ loaded = FirstConfig /\ changes = 0
  /\ cursor = 0
  /\ bundle = [p \in Proxy |-> 0] /\ valid = {}
  /\ flight = [p \in Proxy |-> Nobody]
  /\ solves = 0
  /\ pc = [c \in Client |-> "idle"]
  /\ proxy = [c \in Client |-> Nobody]
  /\ awaits = [c \in Client |-> Nobody]
  /\ carried = [c \in Client |-> 0]
  /\ requests = [c \in Client |-> 0]
  /\ target = Nobody /\ todo = {}

Nodes(g) == {Pool[g][i] : i \in 1..Len(Pool[g])}

-----------------------------------------------------------------------------
ChangeConfig ==
  /\ changes < MaxChanges
  /\ \E g \in Config \ {config} : config' = g
  /\ changes' = changes + 1
  /\ UNCHANGED <<directory, solves, clientVars, scheduler>>

(* ProxyDirectory.load: bundles of the configured proxies become INVALID,    *)
(* bundles and events of the others are dropped, the refreshes run on.       *)
Load ==
  /\ loaded # config
  /\ loaded' = config
  /\ cursor' = 0
  /\ bundle' = [p \in Proxy |-> IF p \in Nodes(config) THEN bundle[p] ELSE 0]
  /\ valid' = {}
  /\ flight' = [p \in Proxy |-> IF p \in Nodes(config) THEN flight[p] ELSE Nobody]
  /\ UNCHANGED <<environment, solves, clientVars, scheduler>>

-----------------------------------------------------------------------------
(* Mutant: do not look at the running refreshes. *)
JoinsNone(p) == FALSE

(* _get_or_build_bundle: wait if another coroutine is registered for p.      *)
Joins(p) == flight[p] # Nobody

(* A warm-up throws the bundle away. *)
Served(c) == IF c \in Warmer THEN "idle" ELSE "leased"

(* One pass of the single-flight loop for client c and proxy p. *)
Check(c, p) ==
  /\ \/ /\ p \in valid
        /\ pc' = [pc EXCEPT ![c] = Served(c)]
        /\ carried' = [carried EXCEPT ![c] = bundle[p]]
        /\ UNCHANGED <<awaits, flight>>
     \/ /\ p \notin valid /\ ~Joins(p)
        /\ flight' = [flight EXCEPT ![p] = c]
        /\ pc' = [pc EXCEPT ![c] = "solving"]
        /\ UNCHANGED <<awaits, carried>>
     \/ /\ p \notin valid /\ Joins(p)
        /\ awaits' = [awaits EXCEPT ![c] = flight[p]]
        /\ pc' = [pc EXCEPT ![c] = "waiting"]
        /\ UNCHANGED <<carried, flight>>
  /\ UNCHANGED <<environment, loaded, cursor, bundle, valid, solves, scheduler>>

(* acquire: _pick_proxy_url follows the cursor; warm_up visits every node.   *)
Acquire(c) ==
  /\ pc[c] = "idle"
  /\ requests[c] < MaxRequests
  /\ loaded = config
  /\ requests' = [requests EXCEPT ![c] = @ + 1]
  /\ \E p \in Nodes(loaded) :
       /\ c \notin Warmer => p = Pool[loaded][cursor + 1]
       /\ proxy' = [proxy EXCEPT ![c] = p]
       /\ Check(c, p)

(* A woken waiter starts over, with the proxy it picked before. *)
Retry(c) ==
  /\ pc[c] = "retry"
  /\ Check(c, proxy[c])
  /\ UNCHANGED <<proxy, requests>>

(* Mutant: the event is dropped without being set. *)
WokenNobody(c, s) == [pc EXCEPT ![c] = s]

(* event.set() in the finally block. *)
Woken(c, s) ==
  [d \in Client |-> IF d = c THEN s
                    ELSE IF pc[d] = "waiting" /\ awaits[d] = c THEN "retry"
                    ELSE pc[d]]

(* Whatever event is registered for the proxy is taken out. *)
EndFlight(c, s) ==
  /\ flight' = [flight EXCEPT ![proxy[c]] = Nobody]
  /\ pc' = Woken(c, s)
  /\ awaits' = [d \in Client |-> IF pc[d] = "waiting" /\ awaits[d] = c
                                 THEN Nobody ELSE awaits[d]]

SolveSucceeds(c) ==
  /\ pc[c] = "solving"
  /\ solves < MaxSolves
  /\ solves' = solves + 1
  /\ bundle' = [bundle EXCEPT ![proxy[c]] = solves + 1]
  /\ valid' = valid \cup {proxy[c]}
  /\ carried' = [carried EXCEPT ![c] = solves + 1]
  /\ EndFlight(c, Served(c))
  /\ UNCHANGED <<environment, loaded, cursor, proxy, requests, scheduler>>

(* FlareSolverr failed: the lease carries no clearance. *)
SolveFails(c) ==
  /\ pc[c] = "solving"
  /\ carried' = [carried EXCEPT ![c] = 0]
  /\ EndFlight(c, Served(c))
  /\ UNCHANGED <<environment, loaded, cursor, bundle, valid, solves, proxy, requests,
                 scheduler>>

(* The client went away while its request was solving or waiting. *)
Cancel(c) ==
  /\ \/ /\ pc[c] = "solving"
        /\ EndFlight(c, "idle")
     \/ /\ pc[c] \in {"waiting", "retry"}
        /\ pc' = [pc EXCEPT ![c] = "idle"]
        /\ awaits' = [awaits EXCEPT ![c] = Nobody]
        /\ UNCHANGED flight
  /\ UNCHANGED <<environment, loaded, cursor, bundle, valid, solves, proxy, carried,
                 requests, scheduler>>

-----------------------------------------------------------------------------
Done(c) ==
  /\ pc[c] = "leased"
  /\ pc' = [pc EXCEPT ![c] = "idle"]
  /\ UNCHANGED <<environment, loaded, bundle, flight, solves, proxy, awaits, carried,
                 requests, scheduler>>

Advanced == (cursor + 1) % Len(Pool[loaded])

(* feedback of a success, a 429 or a 5xx: the proxy did its work. *)
Succeeds(c) == Done(c) /\ UNCHANGED <<cursor, valid>>

(* FORBIDDEN, TRANSPORT_ERROR *)
Fails(c) == Done(c) /\ cursor' = Advanced /\ UNCHANGED valid

(* CHALLENGE, UNAUTHORIZED: the bundle of the lease's key becomes INVALID.   *)
Challenged(c) ==
  /\ Done(c)
  /\ cursor' = Advanced
  /\ valid' = valid \ {proxy[c]}

-----------------------------------------------------------------------------
(* refresh_clearance_safe: the configured proxies and every cached key, one  *)
(* FlareSolverr call after the other, outside the single-flight guard.       *)
Schedule ==
  /\ Scheduled
  /\ target = Nobody /\ todo = {}
  /\ loaded = config
  /\ todo' = Nodes(loaded) \cup {p \in Proxy : bundle[p] # 0}
  /\ UNCHANGED <<environment, directory, solves, clientVars, target>>

NextTarget(p) ==
  /\ target = Nobody /\ p \in todo
  /\ target' = p
  /\ todo' = todo \ {p}
  /\ UNCHANGED <<environment, directory, solves, clientVars>>

Rebuilt ==
  /\ target # Nobody
  /\ solves < MaxSolves
  /\ solves' = solves + 1
  /\ bundle' = [bundle EXCEPT ![target] = solves + 1]
  /\ valid' = valid \cup {target}
  /\ target' = Nobody
  /\ UNCHANGED <<environment, loaded, cursor, flight, clientVars, todo>>

(* Mutant: drop the bundle that could not be rebuilt. *)
KeptOnFailureNot == valid \ {target}

KeptOnFailure == valid

(* The old bundle is kept. *)
RebuildFails ==
  /\ target # Nobody
  /\ valid' = KeptOnFailure
  /\ target' = Nobody
  /\ UNCHANGED <<environment, loaded, cursor, bundle, flight, solves, clientVars, todo>>

-----------------------------------------------------------------------------
Solve(c) == SolveSucceeds(c) \/ SolveFails(c)

Next ==
  \/ ChangeConfig \/ Load
  \/ \E c \in Client : \/ Acquire(c) \/ Retry(c) \/ Solve(c) \/ Cancel(c)
                       \/ Succeeds(c) \/ Fails(c) \/ Challenged(c)
  \/ Schedule
  \/ \E p \in Proxy : NextTarget(p)
  \/ Rebuilt \/ RebuildFails

Spec == Init /\ [][Next]_vars

(* FlareSolverr calls time out and woken coroutines run. *)
Fairness == \A c \in Client : WF_vars(Solve(c)) /\ WF_vars(Retry(c))

FairSpec == Spec /\ Fairness

-----------------------------------------------------------------------------
(* Safety: for a proxy of the pool at most one request or warm-up has        *)
(* FlareSolverr at work, through failures, cancellations and reloads         *)
(* (control/proxy: "at most one FlareSolverr call per proxy+host key").  The *)
(* scheduler is outside that guard, and it does not hold for a proxy that    *)
(* leaves the pool and comes back, or is still asked for by who picked it.   *)
SingleFlight ==
  \A p \in Nodes(loaded) :
    Cardinality({c \in Client : pc[c] = "solving" /\ proxy[c] = p}) <= 1

(* Safety: whoever waits, waits for a coroutine that is still solving for    *)
(* the same proxy: no wake-up is lost, though reloads drop events.           *)
WaitersHaveOwner ==
  \A c \in Client :
    pc[c] = "waiting" =>
      awaits[c] \in Client /\ pc[awaits[c]] = "solving" /\ proxy[awaits[c]] = proxy[c]

(* Action property: a bundle that works is dropped only by a challenge or a  *)
(* reload, never by a refresh that fails (refresh_clearance_safe: "never     *)
(* discards a working bundle before a replacement is ready").                *)
WorkingBundleKept ==
  [][\A p \in valid :
       \/ p \in valid'
       \/ loaded' # loaded
       \/ \E c \in Client : Challenged(c) /\ proxy[c] = p]_vars

(* Liveness: a request gets its lease, with clearance or without, however    *)
(* the calls it waits for end. *)
AcquireEnds ==
  \A c \in Client :
    pc[c] \in {"solving", "waiting", "retry"} ~> pc[c] \in {"leased", "idle"}

-----------------------------------------------------------------------------
(* Claims of the code's comments that do not hold; the README says in which  *)
(* instances.                                                                *)

(* As SingleFlight, with the scheduler's call counted. *)
SingleFlightOfAll ==
  \A p \in Proxy :
    Cardinality({c \in Client : pc[c] = "solving" /\ proxy[c] = p})
      + (IF target = p THEN 1 ELSE 0) <= 1

(* Action property: a challenge condemns the bundle its lease carried        *)
(* (feedback: "Invalidate associated clearance bundle").                     *)
OnlyItsBundle ==
  [][\A c \in Client :
       (Challenged(c) /\ proxy[c] \in valid) => carried[c] = bundle[proxy[c]]]_vars

(* Action property: after a failure the next lease is of another proxy than  *)
(* the one that failed (feedback: "so the next acquire() prefers a different *)
(* egress rather than hammering the same broken node").                      *)
RotatesAway ==
  [][\A c \in Client :
       ((Fails(c) \/ Challenged(c)) /\ Cardinality(Nodes(loaded)) > 1) =>
          Pool[loaded][cursor' + 1] # proxy[c]]_vars
=============================================================================
