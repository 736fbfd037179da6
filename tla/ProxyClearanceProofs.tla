------------------------ MODULE ProxyClearanceProofs ------------------------
(***************************************************************************)
(* Proofs about ProxyClearance for every number of clients, proxies and     *)
(* configurations and every bound: nobody waits for an event that nobody    *)
(* will set, a bundle that works is not given up for one that cannot be     *)
(* built, and a proxy has one refresh at a time, as long as no proxy comes  *)
(* back to the pool under a refresh that was started before it left.        *)
(***************************************************************************)
EXTENDS ProxyClearance, FiniteSetTheorems, TLAPS

(* A registered event belongs to a coroutine that is solving for that proxy. *)
FlightIsSolving ==
  \A p \in Proxy :
    flight[p] # Nobody => pc[flight[p]] = "solving" /\ proxy[flight[p]] = p

(* Whoever is on its way to a bundle has picked a proxy. *)
PickedProxy ==
  \A c \in Client : pc[c] # "idle" => proxy[c] \in Proxy

WaitInv == TypeOK /\ FlightIsSolving /\ PickedProxy /\ WaitersHaveOwner

(* The event of a proxy of the pool is that of the one who solves for it. *)
SolverIsRegistered ==
  \A c \in Client :
    (pc[c] = "solving" /\ proxy[c] \in Nodes(loaded)) => flight[proxy[c]] = c

(* A proxy that the next reload brings in is not one that a coroutine still  *)
(* works or waits for since it was last in the pool.                         *)
NoneReturns ==
  \A c \in Client :
    pc[c] \in {"solving", "waiting", "retry"} =>
      proxy[c] \notin Nodes(config) \ Nodes(loaded)

(* What makes it so: the operator changes the configuration once at most, or *)
(* never changes which proxies it lists.                                     *)
SettledPools == MaxChanges <= 1 \/ \A g, h \in Config : Nodes(g) = Nodes(h)

(* Before the first change every proxy picked is one of the pool, and the    *)
(* configuration that was loaded the one there is.                           *)
ReturnInv ==
  /\ changes = 0 =>
       config = loaded /\ \A c \in Client : proxy[c] \in Nodes(loaded) \cup {Nobody}
  /\ \A c \in Client : proxy[c] \notin Nodes(config) \ Nodes(loaded)

-----------------------------------------------------------------------------
LEMMA NodesAreProxies ==
  ASSUME NEW g \in Config
  PROVE  Nodes(g) \subseteq Proxy /\ Len(Pool[g]) \in Nat \ {0}
<1>1. Pool[g] \in Seq(Proxy) /\ Pool[g] # <<>>
  BY PoolAssumption
<1> QED BY <1>1 DEF Nodes

LEMMA InitWait == Init => WaitInv
<1> SUFFICES ASSUME Init PROVE WaitInv
  OBVIOUS
<1>1. 0 \in 0..(Len(Pool[FirstConfig]) - 1)
  BY NodesAreProxies, PoolAssumption
<1>2. TypeOK
  BY <1>1, PoolAssumption DEF Init, TypeOK
<1>3. FlightIsSolving /\ PickedProxy /\ WaitersHaveOwner
  BY DEF Init, FlightIsSolving, PickedProxy, WaitersHaveOwner
<1> QED BY <1>2, <1>3 DEF WaitInv

(* The cursor stays within the pool. *)
LEMMA AdvancedType ==
  ASSUME TypeOK
  PROVE  Advanced \in 0..(Len(Pool[loaded]) - 1)
<1> DEFINE n == Len(Pool[loaded])
<1>1. n \in Nat \ {0} /\ cursor \in Nat
  BY NodesAreProxies DEF TypeOK
<1> HIDE DEF n
<1>2. (cursor + 1) % n \in 0..(n - 1)
  BY <1>1
<1> QED BY <1>2 DEF Advanced, n

(* One pass of the loop: a client that is neither solving nor waiting gets   *)
(* the bundle, starts a refresh nobody is running, or waits for the one that *)
(* runs.                                                                     *)
LEMMA CheckWait ==
  ASSUME WaitInv, NEW c \in Client, NEW p \in Proxy, pc[c] \in {"idle", "retry"},
         Check(c, p), proxy' = [proxy EXCEPT ![c] = p], requests' \in [Client -> Nat]
  PROVE  WaitInv'
<1> USE DEF WaitInv
<1>1. Nobody \notin Client
  BY ClientAssumption
<1>2. UNCHANGED <<config, changes, loaded, cursor, bundle, valid, solves, target, todo>>
  BY DEF Check, environment, scheduler
<1>3. CASE /\ pc' = [pc EXCEPT ![c] = Served(c)]
           /\ carried' = [carried EXCEPT ![c] = bundle[p]]
           /\ UNCHANGED <<awaits, flight>>
  <2>1. TypeOK'
    BY <1>2, <1>3 DEF TypeOK, Served
  <2>2. FlightIsSolving' /\ PickedProxy'
    BY <1>3 DEF TypeOK, FlightIsSolving, PickedProxy, Served
  <2>3. WaitersHaveOwner'
    BY <1>3 DEF TypeOK, WaitersHaveOwner, Served
  <2> QED BY <2>1, <2>2, <2>3
<1>4. CASE /\ ~Joins(p) /\ flight' = [flight EXCEPT ![p] = c]
           /\ pc' = [pc EXCEPT ![c] = "solving"]
           /\ UNCHANGED <<awaits, carried>>
  <2>1. TypeOK'
    BY <1>2, <1>4 DEF TypeOK
  <2>2. FlightIsSolving' /\ PickedProxy'
    BY <1>1, <1>4 DEF TypeOK, FlightIsSolving, PickedProxy
  <2>3. WaitersHaveOwner'
    BY <1>4 DEF TypeOK, WaitersHaveOwner
  <2> QED BY <2>1, <2>2, <2>3
<1>5. CASE /\ Joins(p) /\ awaits' = [awaits EXCEPT ![c] = flight[p]]
           /\ pc' = [pc EXCEPT ![c] = "waiting"]
           /\ UNCHANGED <<carried, flight>>
  <2>1. TypeOK'
    BY <1>2, <1>5 DEF TypeOK
  <2>2. FlightIsSolving' /\ PickedProxy'
    BY <1>1, <1>5 DEF TypeOK, FlightIsSolving, PickedProxy
  <2>3. flight[p] \in Client /\ pc[flight[p]] = "solving" /\ proxy[flight[p]] = p
    BY <1>5 DEF Joins, FlightIsSolving, TypeOK
  <2>4. WaitersHaveOwner'
    BY <1>5, <2>3 DEF TypeOK, WaitersHaveOwner
  <2> QED BY <2>1, <2>2, <2>4
<1> QED BY <1>3, <1>4, <1>5 DEF Check

(* The end of a refresh: its waiters wake, and its event is gone. *)
LEMMA EndFlightWait ==
  ASSUME WaitInv, NEW c \in Client, NEW s \in {"idle", "leased"}, pc[c] = "solving",
         EndFlight(c, s), UNCHANGED <<proxy>>, TypeOK'
  PROVE  WaitInv'
<1> USE DEF WaitInv
<1>1. Nobody \notin Client /\ proxy[c] \in Proxy
  BY ClientAssumption DEF PickedProxy
<1>2. \A d \in Client :
        /\ pc'[d] = IF d = c THEN s
                    ELSE IF pc[d] = "waiting" /\ awaits[d] = c THEN "retry" ELSE pc[d]
        /\ awaits'[d] = IF pc[d] = "waiting" /\ awaits[d] = c THEN Nobody ELSE awaits[d]
  BY DEF EndFlight, Woken
<1>3. \A p \in Proxy : flight'[p] = IF p = proxy[c] THEN Nobody ELSE flight[p]
  BY DEF EndFlight, TypeOK
<1>4. ASSUME NEW p \in Proxy, flight'[p] # Nobody
      PROVE  pc'[flight'[p]] = "solving" /\ proxy'[flight'[p]] = p
  <2>1. p # proxy[c] /\ flight'[p] = flight[p] /\ flight[p] \in Client
    BY <1>3, <1>4 DEF TypeOK
  <2>2. pc[flight[p]] = "solving" /\ proxy[flight[p]] = p
    BY <1>4, <2>1 DEF FlightIsSolving
  <2>3. flight[p] # c
    BY <2>1, <2>2
  <2> QED BY <1>2, <2>1, <2>2, <2>3
<1>5. PickedProxy'
  BY <1>1, <1>2 DEF PickedProxy
<1>6. WaitersHaveOwner'
  BY <1>1, <1>2 DEF WaitersHaveOwner
<1> QED BY <1>4, <1>5, <1>6 DEF FlightIsSolving

LEMMA EndFlightType ==
  ASSUME WaitInv, NEW c \in Client, NEW s \in {"idle", "leased"}, pc[c] = "solving",
         EndFlight(c, s)
  PROVE  /\ pc' \in [Client -> {"idle", "solving", "waiting", "retry", "leased"}]
         /\ awaits' \in [Client -> Client \cup {Nobody}]
         /\ flight' \in [Proxy -> Client \cup {Nobody}]
<1> USE DEF WaitInv
<1>1. \A d \in Client :
        /\ Woken(c, s)[d] \in {"idle", "solving", "waiting", "retry", "leased"}
        /\ awaits[d] \in Client \cup {Nobody}
  BY DEF Woken, TypeOK
<1>2. pc' = [d \in Client |-> Woken(c, s)[d]]
  BY DEF EndFlight, Woken
<1> QED BY <1>1, <1>2 DEF EndFlight, TypeOK

LEMMA SolveWait ==
  ASSUME WaitInv, NEW c \in Client, Solve(c)
  PROVE  WaitInv'
<1> USE DEF WaitInv
<1>1. pc[c] = "solving" /\ proxy[c] \in Proxy
  BY DEF Solve, SolveSucceeds, SolveFails, PickedProxy
<1>2. Served(c) \in {"idle", "leased"}
  BY DEF Served
<1>3. EndFlight(c, Served(c)) /\ UNCHANGED <<proxy>>
  BY DEF Solve, SolveSucceeds, SolveFails
<1>4. CASE SolveSucceeds(c)
  <2>1. /\ solves' = solves + 1 /\ bundle' = [bundle EXCEPT ![proxy[c]] = solves + 1]
        /\ valid' = valid \cup {proxy[c]} /\ carried' = [carried EXCEPT ![c] = solves + 1]
        /\ UNCHANGED <<config, changes, loaded, cursor, proxy, requests, target, todo>>
    BY <1>4 DEF SolveSucceeds, environment, scheduler
  <2>2. /\ bundle' \in [Proxy -> Nat] /\ valid' \subseteq {p \in Proxy : bundle'[p] # 0}
        /\ carried' \in [Client -> Nat] /\ solves' \in Nat
    BY <1>1, <2>1 DEF TypeOK
  <2>3. TypeOK'
    BY <1>1, <1>2, <1>3, <2>1, <2>2, EndFlightType DEF TypeOK
  <2> QED BY <1>1, <1>2, <1>3, <2>3, EndFlightWait
<1>5. CASE SolveFails(c)
  <2>1. /\ carried' = [carried EXCEPT ![c] = 0]
        /\ UNCHANGED <<config, changes, loaded, cursor, bundle, valid, solves, proxy, requests,
                       target, todo>>
    BY <1>5 DEF SolveFails, environment, scheduler
  <2>2. TypeOK'
    BY <1>1, <1>2, <1>3, <2>1, EndFlightType DEF TypeOK
  <2> QED BY <1>1, <1>2, <1>3, <2>2, EndFlightWait
<1> QED BY <1>4, <1>5 DEF Solve

LEMMA CancelWait ==
  ASSUME WaitInv, NEW c \in Client, Cancel(c)
  PROVE  WaitInv'
<1> USE DEF WaitInv
<1>1. UNCHANGED <<config, changes, loaded, cursor, bundle, valid, solves, proxy, carried,
                 requests, target, todo>>
  BY DEF Cancel, environment, scheduler
<1>2. CASE pc[c] = "solving" /\ EndFlight(c, "idle")
  <2>1. TypeOK'
    BY <1>1, <1>2, EndFlightType DEF TypeOK
  <2> QED BY <1>1, <1>2, <2>1, EndFlightWait
<1>3. CASE /\ pc[c] \in {"waiting", "retry"} /\ pc' = [pc EXCEPT ![c] = "idle"]
           /\ awaits' = [awaits EXCEPT ![c] = Nobody] /\ UNCHANGED flight
  <2>1. TypeOK'
    BY <1>1, <1>3 DEF TypeOK
  <2>2. FlightIsSolving' /\ PickedProxy' /\ WaitersHaveOwner'
    BY <1>1, <1>3 DEF TypeOK, FlightIsSolving, PickedProxy, WaitersHaveOwner
  <2> QED BY <2>1, <2>2
<1> QED BY <1>2, <1>3 DEF Cancel

LEMMA FeedbackWait ==
  ASSUME WaitInv, NEW c \in Client, Succeeds(c) \/ Fails(c) \/ Challenged(c)
  PROVE  WaitInv'
<1> USE DEF WaitInv
<1>1. Done(c)
  BY DEF Succeeds, Fails, Challenged
<1>2. /\ pc[c] = "leased" /\ pc' = [pc EXCEPT ![c] = "idle"]
      /\ UNCHANGED <<config, changes, loaded, bundle, flight, solves, proxy, awaits, carried,
                     requests, target, todo>>
  BY <1>1 DEF Done, environment, scheduler
<1>3. cursor' \in 0..(Len(Pool[loaded]) - 1) /\ valid' \subseteq valid
  BY AdvancedType DEF Succeeds, Fails, Challenged, TypeOK
<1>4. TypeOK'
  BY <1>2, <1>3 DEF TypeOK
<1>5. FlightIsSolving' /\ PickedProxy' /\ WaitersHaveOwner'
  BY <1>2 DEF TypeOK, FlightIsSolving, PickedProxy, WaitersHaveOwner
<1> QED BY <1>4, <1>5

(* A reload drops the events of proxies that are gone; their refreshes run   *)
(* on, and wake whoever waits for them.                                      *)
LEMMA LoadWait ==
  ASSUME WaitInv, Load
  PROVE  WaitInv'
<1> USE DEF WaitInv
<1>1. UNCHANGED <<config, changes, solves, pc, proxy, awaits, carried, requests, target, todo>>
  BY DEF Load, environment, clientVars, scheduler
<1>2. TypeOK'
  <2>1. 0 \in 0..(Len(Pool[config]) - 1)
    BY NodesAreProxies DEF TypeOK
  <2> QED BY <1>1, <2>1 DEF Load, TypeOK
<1>3. \A p \in Proxy : flight'[p] = IF p \in Nodes(config) THEN flight[p] ELSE Nobody
  BY DEF Load
<1>4. FlightIsSolving'
  BY <1>1, <1>3 DEF FlightIsSolving
<1> QED BY <1>1, <1>2, <1>4 DEF PickedProxy, WaitersHaveOwner

(* The operator and the scheduler touch no client and no event. *)
Background ==
  \/ ChangeConfig \/ Schedule \/ (\E p \in Proxy : NextTarget(p))
  \/ Rebuilt \/ RebuildFails \/ UNCHANGED vars

LEMMA BackgroundMoves ==
  ASSUME TypeOK, Background
  PROVE  TypeOK' /\ UNCHANGED <<loaded, flight, clientVars>>
<1>1. CASE ChangeConfig
  BY <1>1 DEF ChangeConfig, TypeOK, directory, clientVars, scheduler
<1>2. CASE Schedule
  BY <1>2, NodesAreProxies DEF Schedule, TypeOK, environment, directory, clientVars
<1>3. ASSUME NEW p \in Proxy, NextTarget(p)
      PROVE  TypeOK' /\ UNCHANGED <<loaded, flight, clientVars>>
  BY <1>3 DEF NextTarget, TypeOK, environment, directory, clientVars
<1>4. CASE Rebuilt
  <2>1. target \in Proxy
    BY <1>4 DEF Rebuilt, TypeOK
  <2>2. /\ bundle' \in [Proxy -> Nat] /\ valid' \subseteq {p \in Proxy : bundle'[p] # 0}
        /\ solves' \in Nat
    BY <1>4, <2>1 DEF Rebuilt, TypeOK
  <2> QED BY <1>4, <2>2 DEF Rebuilt, TypeOK, environment, clientVars
<1>5. CASE RebuildFails
  BY <1>5 DEF RebuildFails, KeptOnFailure, TypeOK, environment, clientVars
<1>6. CASE UNCHANGED vars
  BY <1>6 DEF vars, TypeOK, clientVars
<1> QED BY <1>1, <1>2, <1>3, <1>4, <1>5, <1>6 DEF Background

LEMMA StepCases ==
  ASSUME [Next]_vars
  PROVE  \/ Load \/ Background
         \/ \E c \in Client : \/ Acquire(c) \/ Retry(c) \/ Solve(c) \/ Cancel(c)
                              \/ Succeeds(c) \/ Fails(c) \/ Challenged(c)
  BY DEF Next, Background

LEMMA AcquirePicks ==
  ASSUME WaitInv, NEW c \in Client, Acquire(c)
  PROVE  /\ pc[c] = "idle" /\ loaded = config /\ requests' \in [Client -> Nat]
         /\ \E p \in Nodes(loaded) : Check(c, p) /\ proxy' = [proxy EXCEPT ![c] = p]
<1>1. pc[c] = "idle" /\ loaded = config /\ requests' = [requests EXCEPT ![c] = @ + 1]
  BY DEF Acquire
<1>2. PICK p \in Nodes(loaded) : proxy' = [proxy EXCEPT ![c] = p] /\ Check(c, p)
  BY DEF Acquire
<1>3. requests' \in [Client -> Nat]
  BY <1>1 DEF WaitInv, TypeOK
<1> QED BY <1>1, <1>2, <1>3

LEMMA RetryPicks ==
  ASSUME WaitInv, NEW c \in Client, Retry(c)
  PROVE  /\ pc[c] = "retry" /\ requests' \in [Client -> Nat] /\ proxy[c] \in Proxy
         /\ Check(c, proxy[c]) /\ proxy' = proxy /\ proxy' = [proxy EXCEPT ![c] = proxy[c]]
  BY DEF Retry, WaitInv, TypeOK, PickedProxy

LEMMA WaitStep ==
  ASSUME WaitInv, [Next]_vars
  PROVE  WaitInv'
<1>1. CASE Background
  <2>1. TypeOK' /\ UNCHANGED <<flight, pc, proxy, awaits>>
    BY <1>1, BackgroundMoves DEF WaitInv, clientVars
  <2> QED BY <2>1 DEF WaitInv, FlightIsSolving, PickedProxy, WaitersHaveOwner
<1>2. ASSUME NEW c \in Client, Acquire(c)
      PROVE  WaitInv'
  BY <1>2, AcquirePicks, CheckWait, NodesAreProxies DEF WaitInv, TypeOK
<1>3. ASSUME NEW c \in Client, Retry(c)
      PROVE  WaitInv'
  BY <1>3, RetryPicks, CheckWait
<1> QED BY <1>1, <1>2, <1>3, StepCases, LoadWait, SolveWait, CancelWait, FeedbackWait

(* Type correctness of the directory and its clients. *)
THEOREM ClearanceTypeOK == Spec => []TypeOK
<1>1. WaitInv => TypeOK
  BY DEF WaitInv
<1> QED BY <1>1, InitWait, WaitStep, PTL DEF Spec

(* For every number of clients and proxies: whoever waits for an event       *)
(* (_get_or_build_bundle) waits for a coroutine that is solving for the same *)
(* proxy and will set it, whatever reloads drop (load) and whoever is        *)
(* cancelled: no wake-up is lost.                                            *)
THEOREM NoWakeUpLost == Spec => []WaitersHaveOwner
<1>1. WaitInv => WaitersHaveOwner
  BY DEF WaitInv
<1> QED BY <1>1, InitWait, WaitStep, PTL DEF Spec

-----------------------------------------------------------------------------
(* One refresh per proxy. *)
LEMMA RegisteredMeansSingle ==
  ASSUME WaitInv, SolverIsRegistered
  PROVE  SingleFlight
<1> SUFFICES ASSUME NEW p \in Nodes(loaded)
             PROVE  Cardinality({c \in Client : pc[c] = "solving" /\ proxy[c] = p}) <= 1
  BY DEF SingleFlight
<1> DEFINE S == {c \in Client : pc[c] = "solving" /\ proxy[c] = p}
<1>1. \A c \in S : c = flight[p]
  BY DEF SolverIsRegistered
<1> HIDE DEF S
<1>2. CASE S = {}
  BY <1>2, FS_EmptySet DEF S
<1>3. CASE S # {}
  <2>1. S = {flight[p]}
    BY <1>1, <1>3
  <2>2. Cardinality({flight[p]}) = 1
    BY FS_Singleton
  <2> QED BY <2>1, <2>2 DEF S
<1> QED BY <1>2, <1>3

(* A pass of the loop starts a refresh only of a proxy that has none. *)
LEMMA CheckRegisters ==
  ASSUME WaitInv, SolverIsRegistered, NEW c \in Client, NEW p \in Proxy,
         pc[c] \in {"idle", "retry"}, Check(c, p), proxy' = [proxy EXCEPT ![c] = p]
  PROVE  SolverIsRegistered'
<1>1. loaded' = loaded /\ Nobody \notin Client
  BY ClientAssumption DEF Check
<1>2. \A d \in Client \ {c} : pc'[d] = pc[d] /\ proxy'[d] = proxy[d]
  BY DEF Check, WaitInv, TypeOK
<1>3. proxy'[c] = p
  BY DEF WaitInv, TypeOK
<1>4. CASE flight' = flight /\ pc'[c] # "solving"
  BY <1>1, <1>2, <1>4 DEF SolverIsRegistered
<1>5. CASE ~Joins(p) /\ flight' = [flight EXCEPT ![p] = c]
  BY <1>1, <1>2, <1>3, <1>5 DEF SolverIsRegistered, Joins, WaitInv, TypeOK, PickedProxy
<1>6. CASE flight' = flight /\ pc' = [pc EXCEPT ![c] = Served(c)]
  BY <1>4, <1>6 DEF Served, WaitInv, TypeOK
<1>7. CASE flight' = flight /\ pc' = [pc EXCEPT ![c] = "waiting"]
  BY <1>4, <1>7 DEF WaitInv, TypeOK
<1> QED BY <1>5, <1>6, <1>7 DEF Check

LEMMA EndFlightRegisters ==
  ASSUME WaitInv, SolverIsRegistered, NEW c \in Client, NEW s \in {"idle", "leased"},
         pc[c] = "solving", EndFlight(c, s), UNCHANGED <<proxy, loaded>>
  PROVE  SolverIsRegistered'
<1>1. \A p \in Proxy : flight'[p] = IF p = proxy[c] THEN Nobody ELSE flight[p]
  BY DEF EndFlight, WaitInv, TypeOK
<1>2. ASSUME NEW d \in Client, pc'[d] = "solving"
      PROVE  d # c /\ pc[d] = "solving"
  BY <1>2 DEF EndFlight, Woken
<1>3. ASSUME NEW d \in Client, pc'[d] = "solving", proxy'[d] \in Nodes(loaded)
      PROVE  flight'[proxy'[d]] = d
  <2>1. d # c /\ pc[d] = "solving" /\ flight[proxy[d]] = d /\ proxy[d] \in Proxy
    BY <1>2, <1>3 DEF SolverIsRegistered, WaitInv, PickedProxy
  <2>2. proxy[d] # proxy[c]
    BY <1>3, <2>1 DEF SolverIsRegistered
  <2> QED BY <1>1, <2>1, <2>2
<1> QED BY <1>3 DEF SolverIsRegistered

LEMMA RegisteredStep ==
  ASSUME WaitInv, SolverIsRegistered, NoneReturns, [Next]_vars
  PROVE  SolverIsRegistered'
<1>1. CASE Background
  BY <1>1, BackgroundMoves DEF WaitInv, SolverIsRegistered, clientVars
<1>2. CASE Load
  <2>1. UNCHANGED <<pc, proxy>> /\ loaded' = config
    BY <1>2 DEF Load, clientVars
  <2>2. \A p \in Nodes(config) : flight'[p] = flight[p]
    BY <1>2, NodesAreProxies DEF Load, WaitInv, TypeOK
  <2>3. ASSUME NEW c \in Client, pc[c] = "solving", proxy[c] \in Nodes(config)
        PROVE  proxy[c] \in Nodes(loaded)
    BY <2>3 DEF NoneReturns
  <2> QED BY <2>1, <2>2, <2>3 DEF SolverIsRegistered
<1>3. ASSUME NEW c \in Client, Acquire(c)
      PROVE  SolverIsRegistered'
  BY <1>3, AcquirePicks, CheckRegisters, NodesAreProxies DEF WaitInv, TypeOK
<1>4. ASSUME NEW c \in Client, Retry(c)
      PROVE  SolverIsRegistered'
  BY <1>4, RetryPicks, CheckRegisters
<1>5. ASSUME NEW c \in Client, Solve(c)
      PROVE  SolverIsRegistered'
  <2>1. /\ pc[c] = "solving" /\ EndFlight(c, Served(c)) /\ UNCHANGED <<proxy, loaded>>
        /\ Served(c) \in {"idle", "leased"}
    BY <1>5 DEF Solve, SolveSucceeds, SolveFails, Served
  <2> QED BY <2>1, EndFlightRegisters
<1>6. ASSUME NEW c \in Client, Cancel(c)
      PROVE  SolverIsRegistered'
  <2>1. CASE pc[c] = "solving" /\ EndFlight(c, "idle")
    <3>1. UNCHANGED <<proxy, loaded>>
      BY <1>6 DEF Cancel
    <3> QED BY <2>1, <3>1, EndFlightRegisters
  <2>2. CASE pc' = [pc EXCEPT ![c] = "idle"] /\ UNCHANGED flight
    BY <1>6, <2>2 DEF Cancel, SolverIsRegistered, WaitInv, TypeOK
  <2> QED BY <1>6, <2>1, <2>2 DEF Cancel
<1>7. ASSUME NEW c \in Client, Succeeds(c) \/ Fails(c) \/ Challenged(c)
      PROVE  SolverIsRegistered'
  BY <1>7 DEF Succeeds, Fails, Challenged, Done, SolverIsRegistered, WaitInv, TypeOK
<1> QED BY <1>1, <1>2, <1>3, <1>4, <1>5, <1>6, <1>7, StepCases

(* For every number of clients, proxies and configuration changes: as long   *)
(* as no reload brings back a proxy that somebody still works or waits for   *)
(* since it was last in the pool, a proxy of the pool has one FlareSolverr   *)
(* call of requests and warm-ups at most (_get_or_build_bundle).             *)
THEOREM OneSolveUnlessOneReturns == Spec /\ []NoneReturns => []SingleFlight
<1>1. Init => WaitInv /\ SolverIsRegistered
  BY InitWait DEF Init, SolverIsRegistered
<1>2. /\ WaitInv /\ SolverIsRegistered /\ NoneReturns /\ [Next]_vars
      => (WaitInv /\ SolverIsRegistered)'
  BY WaitStep, RegisteredStep
<1>3. WaitInv /\ SolverIsRegistered => SingleFlight
  BY RegisteredMeansSingle
<1> QED BY <1>1, <1>2, <1>3, PTL DEF Spec

LEMMA ReturnStep ==
  ASSUME SettledPools, WaitInv, ReturnInv, [Next]_vars
  PROVE  ReturnInv'
<1> USE DEF ReturnInv
<1>1. Nobody \notin Proxy /\ TypeOK /\ TypeOK'
  BY ClientAssumption, WaitStep DEF WaitInv
<1>2. CASE ChangeConfig
  <2>1. /\ config' \in Config /\ UNCHANGED <<loaded, proxy>>
        /\ changes < MaxChanges /\ changes' = changes + 1
    BY <1>2 DEF ChangeConfig, directory, clientVars
  <2>2. CASE \A g, h \in Config : Nodes(g) = Nodes(h)
    BY <1>1, <2>1, <2>2 DEF TypeOK
  <2>3. CASE MaxChanges <= 1
    <3>1. changes = 0
      BY <1>1, <2>1, <2>3, BoundAssumption DEF TypeOK
    <3>2. Nobody \notin Nodes(config)'
      BY <1>1, <2>1, NodesAreProxies
    <3> QED BY <1>1, <2>1, <3>1, <3>2 DEF TypeOK
  <2> QED BY <2>2, <2>3 DEF SettledPools
<1>3. CASE Load
  BY <1>3 DEF Load, environment, clientVars
<1>4. ASSUME NEW c \in Client, Acquire(c)
      PROVE  ReturnInv'
  <2>1. PICK p \in Nodes(loaded) : Check(c, p) /\ proxy' = [proxy EXCEPT ![c] = p]
    BY <1>4, AcquirePicks
  <2>2. loaded = config /\ UNCHANGED <<config, changes, loaded>>
    BY <1>4, <2>1 DEF Acquire, Check, environment
  <2> QED BY <1>1, <2>1, <2>2 DEF TypeOK
<1>5. CASE UNCHANGED <<config, changes, loaded, proxy>>
  BY <1>5
<1>6. CASE Background /\ ~ChangeConfig
  BY <1>5, <1>6 DEF Background, Schedule, NextTarget, Rebuilt, RebuildFails, environment,
                    directory, clientVars, vars
<1>7. ASSUME NEW c \in Client,
             Retry(c) \/ Solve(c) \/ Cancel(c) \/ Succeeds(c) \/ Fails(c) \/ Challenged(c)
      PROVE  UNCHANGED <<config, changes, loaded, proxy>>
  BY <1>7 DEF Retry, Check, Solve, SolveSucceeds, SolveFails, Cancel, Succeeds, Fails,
              Challenged, Done, environment
<1> QED BY <1>2, <1>3, <1>4, <1>5, <1>6, <1>7, StepCases

(* The same from the configurations alone: at most one change, or changes of *)
(* anything but the set of proxies.                                          *)
THEOREM OneSolvePerProxy ==
  ASSUME SettledPools
  PROVE  Spec => []SingleFlight
<1>1. Init => WaitInv /\ ReturnInv
  BY InitWait DEF Init, ReturnInv
<1>2. WaitInv /\ ReturnInv /\ [Next]_vars => (WaitInv /\ ReturnInv)'
  BY WaitStep, ReturnStep
<1>3. ReturnInv => NoneReturns
  BY DEF ReturnInv, NoneReturns
<1> QED BY <1>1, <1>2, <1>3, OneSolveUnlessOneReturns, PTL DEF Spec

-----------------------------------------------------------------------------
(* What a step may do to a bundle that works. *)
LEMMA BundleStep ==
  ASSUME WaitInv, [Next]_vars, NEW p \in valid
  PROVE  \/ p \in valid'
         \/ loaded' # loaded
         \/ \E c \in Client : Challenged(c) /\ proxy[c] = p
<1>1. CASE Load
  BY <1>1 DEF Load
<1>2. CASE Background
  BY <1>2 DEF Background, ChangeConfig, Schedule, NextTarget, Rebuilt, RebuildFails,
              KeptOnFailure, directory, vars
<1>3. ASSUME NEW c \in Client, Acquire(c) \/ Retry(c)
      PROVE  p \in valid'
  BY <1>3 DEF Acquire, Retry, Check
<1>4. ASSUME NEW c \in Client, Solve(c) \/ Cancel(c) \/ Succeeds(c) \/ Fails(c)
      PROVE  p \in valid'
  BY <1>4 DEF Solve, SolveSucceeds, SolveFails, Cancel, Succeeds, Fails
<1>5. ASSUME NEW c \in Client, Challenged(c)
      PROVE  p \in valid' \/ proxy[c] = p
  BY <1>5 DEF Challenged
<1> QED BY <1>1, <1>2, <1>3, <1>4, <1>5, StepCases

(* For every configuration: a bundle that works is given up by a challenge   *)
(* of a lease of its proxy (feedback), or by a reload; a refresh that fails, *)
(* a scheduler's pass or a client that goes away never drops it.             *)
THEOREM WorkingBundleIsKept == Spec => WorkingBundleKept
<1>1. WaitInv /\ [Next]_vars =>
        [\A p \in valid :
           \/ p \in valid'
           \/ loaded' # loaded
           \/ \E c \in Client : Challenged(c) /\ proxy[c] = p]_vars
  BY BundleStep
<1> QED BY <1>1, InitWait, WaitStep, PTL DEF Spec, WorkingBundleKept

=============================================================================
