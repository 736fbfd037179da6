--------------------------- MODULE BuildPoolProofs ---------------------------
(***************************************************************************)
(* Proofs about BuildPool for every number of accounts, calls and           *)
(* verifications, and every retry limit, delay and bound: the in-flight     *)
(* count is the number of leases, a refresh token that was traded in is not *)
(* kept, and an account that was condemned for its token has a dead one.    *)
(***************************************************************************)
EXTENDS BuildPool, FiniteSetTheorems, TLAPS

Idle       == {"start", "done"}
Refreshing == {"locked", "granted", "invalid", "refused", "failed"}

(* An actor works on an account and has a copy of it from its first step on  *)
(* to its end.                                                               *)
BusyHasAccount ==
  \A x \in Actor :
    IF pc[x] \in Idle THEN target[x] = Absent
                      ELSE target[x] \in Account /\ copy[x] \in Record

(* Whoever is inside a refresh holds the lock of its account, and a lock     *)
(* that is taken is held by somebody inside a refresh of that account.       *)
LockIsRefresh ==
  /\ \A x \in Actor : pc[x] \in Refreshing => lock[target[x]] = x
  /\ \A a \in Account :
       lock[a] # Free => target[lock[a]] = a /\ pc[lock[a]] \in Refreshing

PoolInv == TypeOK /\ BusyHasAccount /\ LockIsRefresh

(* The tokens of an exchange that was granted are honoured. *)
GrantedLive ==
  \A x \in Actor : pc[x] = "granted" => copy[x].refresh \in live[target[x]]

CredentialsInv == PoolInv /\ GrantedLive /\ CredentialsLive

(* Until an import, the copy under refresh has the refresh token of the      *)
(* record until the exchange is granted; the copy of a condemned record, and *)
(* one the upstream has called invalid, has a dead token, and none such is   *)
(* granted an exchange.                                                      *)
CopyUnderRefresh ==
  imports = 0 =>
    \A x \in Actor :
      /\ (pc[x] \in {"locked", "invalid"} /\ acct[target[x]] # Absent) =>
           copy[x].refresh = acct[target[x]].refresh
      /\ (pc[x] = "invalid" \/ (pc[x] = "locked" /\ copy[x].reason = "invalid")) =>
           copy[x].refresh \notin live[target[x]]
      /\ pc[x] = "granted" => copy[x].reason # "invalid"

DeadInv == PoolInv /\ CopyUnderRefresh /\ DisabledMeansDead

-----------------------------------------------------------------------------
(* What the operators on a record of the pool keep of it. *)
Keeps(new, old) ==
  /\ new.refresh = old.refresh
  /\ new.reason = "invalid" => old.reason = "invalid"

Rewrite(rec, s, k, u) == [rec EXCEPT !.status = s, !.reason = k, !.until = u]

LEMMA Rewritten ==
  ASSUME NEW rec \in Record, NEW s \in {"active", "cooling", "disabled"},
         NEW k \in Reason, NEW u \in Nat
  PROVE  /\ Rewrite(rec, s, k, u) \in Record
         /\ Rewrite(rec, s, k, u).refresh = rec.refresh
         /\ Rewrite(rec, s, k, u).reason = k
  BY DEF Record, Rewrite

LEMMA ClearedKeeps ==
  ASSUME NEW rec \in Record
  PROVE  Cleared(rec) \in Record /\ Keeps(Cleared(rec), rec)
  BY DEF Cleared, Record, Reason, Keeps

(* The end of the cooldowns keeps every account and its tokens. *)
LEMMA RecoveredKeeps ==
  ASSUME TypeOK
  PROVE  /\ Recovered \in [Account -> Record \cup {Absent}]
         /\ \A a \in Account :
              /\ Recovered[a] = Absent <=> acct[a] = Absent
              /\ acct[a] # Absent => Keeps(Recovered[a], acct[a])
<1>1. ASSUME NEW a \in Account
      PROVE  /\ Recovered[a] \in Record \cup {Absent}
             /\ Recovered[a] = Absent <=> acct[a] = Absent
             /\ acct[a] # Absent => Keeps(Recovered[a], acct[a])
  <2>1. acct[a] \in Record \cup {Absent}
    BY DEF TypeOK
  <2>2. CASE acct[a] = Absent
    BY <2>2 DEF Recovered
  <2>3. CASE acct[a] # Absent
    <3>1. acct[a] \in Record
      BY <2>1, <2>3
    <3>2. Cleared(acct[a]) \in Record /\ Keeps(Cleared(acct[a]), acct[a])
      BY <3>1, ClearedKeeps
    <3> QED BY <2>3, <3>1, <3>2, AbsentAssumption DEF Recovered, Keeps
  <2> QED BY <2>2, <2>3
<1> QED BY <1>1 DEF Recovered

(* A report changes neither token; a record is condemned for its token by    *)
(* that verdict alone.                                                       *)
LEMMA AppliedKeeps ==
  ASSUME NEW rec \in Record, NEW k, now \in Nat
  PROVE  /\ Applied(rec, k) \in Record
         /\ Applied(rec, k).refresh = rec.refresh
         /\ k # "invalid" => Keeps(Applied(rec, k), rec)
<1>1. CASE k = "ok"
  <2>1. Applied(rec, k) = IF rec.status = "cooling" /\ rec.reason # "rate_limited"
                          THEN Cleared(rec) ELSE rec
    BY <1>1 DEF Applied, AppliedSuccess
  <2>2. Cleared(rec) \in Record /\ Keeps(Cleared(rec), rec)
    BY ClearedKeeps
  <2> QED BY <2>1, <2>2 DEF Keeps
<1>2. CASE k \in {"invalid", "misread", "refused", "rejected"}
  <2>1. Applied(rec, k) = Rewrite(rec, "disabled", k, 0)
    BY <1>2 DEF Applied, AppliedFailure, Rewrite
  <2>2. k \in Reason
    BY <1>2 DEF Reason
  <2> QED BY <1>2, <2>1, <2>2, Rewritten DEF Keeps
<1>3. CASE k = "rate_limited"
  <2> DEFINE u == now + RateDelay
  <2>1. Applied(rec, k) = Rewrite(rec, "cooling", k, u)
    BY <1>3 DEF Applied, AppliedFailure, Rewrite
  <2>2. k \in Reason /\ u \in Nat
    BY <1>3, NumberAssumption DEF Reason
  <2> HIDE DEF u
  <2>3. /\ Applied(rec, k) \in Record
        /\ Applied(rec, k).refresh = rec.refresh
        /\ Applied(rec, k).reason = k
    BY <2>1, <2>2, Rewritten
  <2> QED BY <1>3, <2>3 DEF Keeps
<1>4. CASE k = "transient"
  <2> DEFINE u == now + TransientDelay
  <2>1. Applied(rec, k) = Rewrite(rec, "cooling", k, u)
    BY <1>4 DEF Applied, AppliedFailure, Rewrite
  <2>2. k \in Reason /\ u \in Nat
    BY <1>4, NumberAssumption DEF Reason
  <2> HIDE DEF u
  <2>3. /\ Applied(rec, k) \in Record
        /\ Applied(rec, k).refresh = rec.refresh
        /\ Applied(rec, k).reason = k
    BY <2>1, <2>2, Rewritten
  <2> QED BY <1>4, <2>3 DEF Keeps
<1>5. CASE k \notin {"ok", "invalid", "misread", "refused", "rejected", "rate_limited",
                     "transient"}
  <2>1. Applied(rec, k) = rec
    BY <1>5 DEF Applied, AppliedFailure
  <2> QED BY <2>1 DEF Keeps
<1> QED BY <1>1, <1>2, <1>3, <1>4, <1>5

(* What a step that moves no token does to the pool: no account comes or     *)
(* goes, and one that is condemned for its token is in the set C.            *)
KeepsPool(new, C) ==
  /\ new \in [Account -> Record \cup {Absent}]
  /\ \A a \in Account :
       /\ new[a] = Absent <=> acct[a] = Absent
       /\ acct[a] # Absent => new[a].refresh = acct[a].refresh
       /\ (acct[a] # Absent /\ new[a].reason = "invalid") =>
            acct[a].reason = "invalid" \/ a \in C

Condemned(x, k) == IF k = "invalid" THEN {target[x]} ELSE {}

LEMMA RecoveredKeepsPool ==
  ASSUME TypeOK
  PROVE  KeepsPool(Recovered, {}) /\ KeepsPool(acct, {})
  BY RecoveredKeeps DEF KeepsPool, Keeps, TypeOK

(* The end of a call or a verification: what it writes to the pool, and the  *)
(* state it leaves its actor in.                                             *)
LEMMA EndEffect ==
  ASSUME PoolInv, NEW x \in Actor, NEW k, NEW pool,
         KeepsPool(pool, {}), pc[x] \notin Idle, End(x, k, pool)
  PROVE  /\ KeepsPool(acct', Condemned(x, k))
         /\ \E s \in Idle : pc' = [pc EXCEPT ![x] = s]
         /\ target' = [target EXCEPT ![x] = Absent]
         /\ copy' = [copy EXCEPT ![x] = Absent]
         /\ inflight' = IF x \in Request THEN Released(target[x]) ELSE inflight
         /\ forced' \in [Actor -> BOOLEAN] /\ replayed' \in [Request -> BOOLEAN]
         /\ excluded' \in [Request -> SUBSET Account]
         /\ UNCHANGED <<now, issued, live, stale, edits, imports>>
<1> DEFINE a == target[x]
<1>1. a \in Account
  BY DEF PoolInv, BusyHasAccount
<1>2. now \in Nat /\ acct \in [Account -> Record \cup {Absent}]
  BY DEF PoolInv, TypeOK
<1>3. KeepsPool(AppliedTo(pool, a, k), Condemned(x, k))
  <2>1. ASSUME NEW b \in Account
        PROVE  /\ AppliedTo(pool, a, k)[b] \in Record \cup {Absent}
               /\ AppliedTo(pool, a, k)[b] = Absent <=> pool[b] = Absent
               /\ pool[b] # Absent =>
                    /\ AppliedTo(pool, a, k)[b].refresh = pool[b].refresh
                    /\ AppliedTo(pool, a, k)[b].reason = "invalid" =>
                         pool[b].reason = "invalid" \/ b \in Condemned(x, k)
    <3>1. pool \in [Account -> Record \cup {Absent}]
      BY DEF KeepsPool
    <3>2. CASE b = a /\ pool[b] # Absent
      <4>1. pool[b] \in Record
        BY <3>1, <3>2
      <4>2. AppliedTo(pool, a, k)[b] = Applied(pool[b], k)
        BY <3>1, <3>2 DEF AppliedTo
      <4> QED BY <3>2, <4>1, <4>2, <1>2, AppliedKeeps, AbsentAssumption
              DEF Keeps, Condemned
    <3>3. CASE ~(b = a /\ pool[b] # Absent)
      <4>1. AppliedTo(pool, a, k)[b] = pool[b]
        BY <3>1, <3>3, <1>1 DEF AppliedTo
      <4> QED BY <3>1, <4>1
    <3> QED BY <3>2, <3>3
  <2>2. AppliedTo(pool, a, k) = [b \in Account |-> AppliedTo(pool, a, k)[b]]
    BY DEF AppliedTo, KeepsPool
  <2>3. AppliedTo(pool, a, k) \in [Account -> Record \cup {Absent}]
    BY <2>1, <2>2
  <2> QED BY <2>1, <2>3 DEF KeepsPool
<1>4. CASE x \in Request /\ EndAttempt(x, k, pool)
  <2>1. excluded' \in [Request -> SUBSET Account]
    BY <1>1, <1>4 DEF EndAttempt, PoolInv, TypeOK
  <2>2. \E s \in Idle : pc' = [pc EXCEPT ![x] = s]
    BY <1>4 DEF EndAttempt, Idle
  <2>3. acct' = AppliedTo(pool, a, k) /\ inflight' = Released(a)
    BY <1>4 DEF EndAttempt
  <2>4. forced' \in [Actor -> BOOLEAN] /\ replayed' \in [Request -> BOOLEAN]
    BY DEF End, PoolInv, TypeOK
  <2> QED BY <1>3, <1>4, <2>1, <2>2, <2>3, <2>4 DEF End, upstreamVars
<1>5. CASE x \in Verifier /\ EndVerification(x, k, pool)
  <2>1. x \notin Request
    BY <1>5, ActorAssumption
  <2>2. \E s \in Idle : pc' = [pc EXCEPT ![x] = s]
    BY <1>5 DEF EndVerification, Idle
  <2>3. UNCHANGED <<inflight, excluded>>
    BY <1>5 DEF EndVerification
  <2>4. forced' \in [Actor -> BOOLEAN] /\ replayed' \in [Request -> BOOLEAN]
    BY DEF End, PoolInv, TypeOK
  <2>5. KeepsPool(acct', Condemned(x, k))
    <3>1. CASE k = "ok" /\ pool[a] # Absent
      <4>1. acct' = [pool EXCEPT ![a] = Cleared(pool[a])]
        BY <1>5, <3>1 DEF EndVerification
      <4>2. pool \in [Account -> Record \cup {Absent}]
        BY DEF KeepsPool
      <4>3. Cleared(pool[a]) \in Record /\ Keeps(Cleared(pool[a]), pool[a])
        BY <1>1, <3>1, <4>2, ClearedKeeps
      <4> QED BY <1>1, <3>1, <4>1, <4>2, <4>3, AbsentAssumption DEF KeepsPool, Keeps
    <3>2. CASE ~(k = "ok" /\ pool[a] # Absent)
      BY <1>3, <1>5, <3>2 DEF EndVerification
    <3> QED BY <3>1, <3>2
  <2>6. excluded' \in [Request -> SUBSET Account]
    BY <2>3 DEF PoolInv, TypeOK
  <2> QED BY <1>3, <1>5, <2>1, <2>2, <2>3, <2>4, <2>5, <2>6 DEF End, upstreamVars
<1> QED BY <1>4, <1>5 DEF End

-----------------------------------------------------------------------------
LEMMA InitPool == Init => PoolInv
<1> SUFFICES ASSUME Init PROVE PoolInv
  OBVIOUS
<1>1. TypeOK
  BY DEF Init, TypeOK, Record, Reason, Actor
<1>2. BusyHasAccount /\ LockIsRefresh
  BY DEF Init, BusyHasAccount, LockIsRefresh, Idle, Refreshing
<1> QED BY <1>1, <1>2 DEF PoolInv

(* How a step of one actor, x, may treat the refresh lock: leave it alone,   *)
(* take the free lock of its account, or give it back.                       *)
LockMove(x) ==
  \/ lock' = lock /\ pc[x] \notin Refreshing /\ pc'[x] \notin Refreshing
  \/ lock' = lock /\ pc[x] \in Refreshing /\ pc'[x] \in Refreshing /\ target'[x] = target[x]
  \/ /\ pc[x] \notin Refreshing /\ pc'[x] \in Refreshing
     /\ lock[target'[x]] = Free /\ lock' = [lock EXCEPT ![target'[x]] = x]
  \/ /\ pc[x] \in Refreshing /\ pc'[x] \notin Refreshing
     /\ lock' = [lock EXCEPT ![target[x]] = Free]

(* The rest of what x may do: the other actors stand where they stood. *)
OwnMove(x) ==
  /\ \A y \in Actor \ {x} : pc'[y] = pc[y] /\ target'[y] = target[y] /\ copy'[y] = copy[y]
  /\ IF pc'[x] \in Idle THEN target'[x] = Absent
                         ELSE target'[x] \in Account /\ copy'[x] \in Record

LEMMA ActorMoves ==
  ASSUME PoolInv, TypeOK', NEW x \in Actor, OwnMove(x), LockMove(x)
  PROVE  PoolInv'
<1> USE DEF PoolInv
<1>1. Free \notin Actor
  BY ActorAssumption DEF Actor
<1>2. BusyHasAccount'
  BY DEF BusyHasAccount, OwnMove
<1>3. Refreshing \cap Idle = {}
  BY DEF Refreshing, Idle
<1>4. lock \in [Account -> Actor \cup {Free}]
  BY DEF TypeOK
<1>5. CASE lock' = lock /\ pc[x] \notin Refreshing /\ pc'[x] \notin Refreshing
  BY <1>1, <1>2, <1>4, <1>5 DEF LockIsRefresh, OwnMove
<1>6. CASE /\ lock' = lock /\ pc[x] \in Refreshing /\ pc'[x] \in Refreshing
           /\ target'[x] = target[x]
  BY <1>1, <1>2, <1>4, <1>6 DEF LockIsRefresh, OwnMove
<1>7. CASE /\ pc[x] \notin Refreshing /\ pc'[x] \in Refreshing
           /\ lock[target'[x]] = Free /\ lock' = [lock EXCEPT ![target'[x]] = x]
  <2>1. target'[x] \in Account
    BY <1>3, <1>7 DEF OwnMove
  <2>2. ASSUME NEW y \in Actor, pc'[y] \in Refreshing
        PROVE  lock'[target'[y]] = y
    <3>1. CASE y = x
      BY <1>4, <1>7, <2>1, <3>1
    <3>2. CASE y # x
      <4>1. pc[y] \in Refreshing /\ target'[y] = target[y] /\ target[y] \in Account
        BY <1>3, <2>2, <3>2 DEF OwnMove, BusyHasAccount
      <4>2. lock[target[y]] = y
        BY <4>1 DEF LockIsRefresh
      <4> QED BY <1>1, <1>4, <1>7, <4>1, <4>2
    <3> QED BY <3>1, <3>2
  <2>3. ASSUME NEW a \in Account, lock'[a] # Free
        PROVE  target'[lock'[a]] = a /\ pc'[lock'[a]] \in Refreshing
    <3>1. CASE a = target'[x]
      BY <1>4, <1>7, <3>1
    <3>2. CASE a # target'[x]
      <4>1. lock'[a] = lock[a] /\ lock[a] \in Actor
        BY <1>4, <1>7, <2>1, <2>3, <3>2
      <4>2. target[lock[a]] = a /\ pc[lock[a]] \in Refreshing
        BY <2>3, <4>1 DEF LockIsRefresh
      <4>3. lock[a] # x
        BY <1>7, <4>2
      <4> QED BY <4>1, <4>2, <4>3 DEF OwnMove
    <3> QED BY <3>1, <3>2
  <2> QED BY <1>2, <2>2, <2>3 DEF LockIsRefresh
<1>8. CASE /\ pc[x] \in Refreshing /\ pc'[x] \notin Refreshing
           /\ lock' = [lock EXCEPT ![target[x]] = Free]
  <2>1. target[x] \in Account /\ lock[target[x]] = x
    BY <1>3, <1>8 DEF BusyHasAccount, LockIsRefresh
  <2>2. ASSUME NEW y \in Actor, pc'[y] \in Refreshing
        PROVE  lock'[target'[y]] = y
    <3>1. y # x
      BY <1>8, <2>2
    <3>2. pc[y] \in Refreshing /\ target'[y] = target[y] /\ target[y] \in Account
      BY <1>3, <2>2, <3>1 DEF OwnMove, BusyHasAccount
    <3>3. lock[target[y]] = y
      BY <3>2 DEF LockIsRefresh
    <3> QED BY <1>4, <1>8, <2>1, <3>1, <3>2, <3>3
  <2>3. ASSUME NEW a \in Account, lock'[a] # Free
        PROVE  target'[lock'[a]] = a /\ pc'[lock'[a]] \in Refreshing
    <3>1. a # target[x] /\ lock'[a] = lock[a] /\ lock[a] \in Actor
      BY <1>4, <1>8, <2>1, <2>3
    <3>2. target[lock[a]] = a /\ pc[lock[a]] \in Refreshing
      BY <2>3, <3>1 DEF LockIsRefresh
    <3>3. lock[a] # x
      BY <3>1, <3>2
    <3> QED BY <3>1, <3>2, <3>3 DEF OwnMove
  <2> QED BY <1>2, <2>2, <2>3 DEF LockIsRefresh
<1> QED BY <1>5, <1>6, <1>7, <1>8 DEF LockMove

-----------------------------------------------------------------------------
(* How a step of x may treat the count of the account it leases. *)
CountMove(x) ==
  \/ inflight' = inflight /\ (x \in Request => target'[x] = target[x])
  \/ \E a \in Account :
       /\ x \in Request /\ target[x] = Absent
       /\ target'[x] = a /\ inflight' = [inflight EXCEPT ![a] = @ + 1]
  \/ /\ x \in Request /\ target[x] \in Account
     /\ target'[x] = Absent /\ inflight' = Released(target[x])

(* A step of x that moves no token: neither an exchange that is granted nor  *)
(* the end of one.  A lock is taken with a copy of the record as it is then, *)
(* an exchange is answered invalid_grant for a dead token, and a granted one *)
(* gets lost only in a step that says so.                                    *)
QuietStep(x) ==
  /\ OwnMove(x) /\ LockMove(x) /\ CountMove(x)
  /\ KeepsPool(acct', {a \in Account : pc[x] = "invalid" /\ a = target[x]})
  /\ UNCHANGED <<live, imports>>
  /\ lost' = 0 => lost = 0 /\ pc[x] # "granted"
  /\ pc'[x] # "granted"
  /\ pc'[x] = "locked" => copy'[x] = acct'[target'[x]]
  /\ pc'[x] = "invalid" =>
       /\ pc[x] = "locked" /\ target'[x] = target[x] /\ copy'[x] = copy[x]
       /\ copy[x].refresh \notin live[target[x]]

QuietAction(x) ==
  \/ x \in Request /\ ((\E a \in Account : Reserve(x, a)) \/ ReserveFails(x) \/ Cancel(x))
  \/ x \in Verifier /\ \E a \in Account : Verify(x, a)
  \/ FindsNoAccount(x) \/ FindsFresh(x) \/ StartRefresh(x)
  \/ ExchangeFails(x) \/ AnswerLost(x) \/ RefreshFails(x)
  \/ Replay(x) \/ \E k \in Answer : Respond(x, k)

(* The end of a call or a verification is such a step, if it does with the   *)
(* lock what it has to.                                                      *)
LEMMA EndIsQuiet ==
  ASSUME PoolInv, NEW x \in Actor, NEW k, NEW pool,
         KeepsPool(pool, {}), pc[x] \notin Idle, End(x, k, pool),
         k = "invalid" => pc[x] = "invalid",
         lock' \in [Account -> Actor \cup {Free}], lost' \in Nat,
         IF pc[x] \in Refreshing THEN lock' = [lock EXCEPT ![target[x]] = Free]
                                ELSE lock' = lock,
         lost' = 0 => lost = 0 /\ pc[x] # "granted"
  PROVE  TypeOK' /\ QuietStep(x)
<1> USE DEF PoolInv
<1>1. /\ KeepsPool(acct', Condemned(x, k))
      /\ \E s \in Idle : pc' = [pc EXCEPT ![x] = s]
      /\ target' = [target EXCEPT ![x] = Absent]
      /\ copy' = [copy EXCEPT ![x] = Absent]
      /\ inflight' = IF x \in Request THEN Released(target[x]) ELSE inflight
      /\ forced' \in [Actor -> BOOLEAN] /\ replayed' \in [Request -> BOOLEAN]
      /\ excluded' \in [Request -> SUBSET Account]
      /\ UNCHANGED <<now, issued, live, stale, edits, imports>>
  BY EndEffect
<1>2. PICK s \in Idle : pc' = [pc EXCEPT ![x] = s]
  BY <1>1
<1>3. pc'[x] \in Idle /\ pc'[x] \notin Refreshing /\ pc'[x] # "granted"
      /\ pc'[x] # "locked" /\ pc'[x] # "invalid"
  BY <1>2 DEF TypeOK, Idle, Refreshing
<1>4. target[x] \in Account
  BY DEF BusyHasAccount
<1>5. TypeOK'
  <2>1. acct' \in [Account -> Record \cup {Absent}]
    BY <1>1 DEF KeepsPool
  <2>2. inflight' \in [Account -> Nat]
    <3>1. Released(target[x]) \in [Account -> Nat]
      BY <1>4 DEF TypeOK, Released
    <3> QED BY <1>1, <3>1 DEF TypeOK
  <2>3. pc' \in [Actor -> {"start", "wait", "locked", "granted", "invalid", "refused",
                           "failed", "post", "done"}]
    BY <1>2 DEF TypeOK, Idle
  <2>4. target' \in [Actor -> Account \cup {Absent}] /\ copy' \in [Actor -> Record \cup {Absent}]
    BY <1>1 DEF TypeOK
  <2> QED BY <1>1, <2>1, <2>2, <2>3, <2>4 DEF TypeOK
<1>6. OwnMove(x)
  BY <1>1, <1>2, <1>3 DEF OwnMove, TypeOK
<1>7. LockMove(x)
  BY <1>3 DEF LockMove
<1>8. CountMove(x)
  BY <1>1, <1>4 DEF CountMove, TypeOK
<1>9. KeepsPool(acct', {a \in Account : pc[x] = "invalid" /\ a = target[x]})
  BY <1>1, <1>4 DEF KeepsPool, Condemned
<1> QED BY <1>1, <1>3, <1>5, <1>6, <1>7, <1>8, <1>9 DEF QuietStep

LEMMA QuietActions ==
  ASSUME PoolInv, NEW x \in Actor, QuietAction(x)
  PROVE  TypeOK' /\ QuietStep(x)
<1> USE DEF PoolInv
<1>1. /\ Recovered \in [Account -> Record \cup {Absent}]
      /\ KeepsPool(Recovered, {}) /\ KeepsPool(acct, {})
  BY RecoveredKeeps, RecoveredKeepsPool
<1>2. /\ KeepsPool(Recovered, {a \in Account : pc[x] = "invalid" /\ a = target[x]})
      /\ KeepsPool(acct, {a \in Account : pc[x] = "invalid" /\ a = target[x]})
  BY <1>1 DEF KeepsPool
<1>3. ASSUME NEW a \in Account, x \in Request, Reserve(x, a)
      PROVE  TypeOK' /\ QuietStep(x)
  <2>1. Recovered[a] \in Record
    BY <1>1, <1>3 DEF Reserve, Candidates, Available
  <2>2. pc[x] \in Idle /\ target[x] = Absent
    BY <1>3 DEF Reserve, BusyHasAccount, Idle
  <2>3. PICK s \in {"post", "wait"} : pc' = [pc EXCEPT ![x] = s]
    BY <1>3 DEF Reserve, Entry
  <2>4. TypeOK'
    BY <1>1, <1>3, <2>1, <2>3 DEF Reserve, TypeOK, upstreamVars, boundVars
  <2>5. OwnMove(x) /\ LockMove(x)
    BY <1>3, <2>1, <2>2, <2>3 DEF Reserve, TypeOK, OwnMove, LockMove, Idle, Refreshing
  <2>6. CountMove(x)
    BY <1>3, <2>2 DEF Reserve, TypeOK, CountMove
  <2> QED BY <1>2, <1>3, <2>3, <2>4, <2>5, <2>6
          DEF Reserve, TypeOK, QuietStep, upstreamVars, boundVars
<1>4. CASE x \in Request /\ ReserveFails(x)
  <2>1. target[x] = Absent
    BY <1>4 DEF ReserveFails, BusyHasAccount, Idle
  <2>2. TypeOK'
    BY <1>1, <1>4 DEF ReserveFails, TypeOK, upstreamVars, boundVars
  <2>3. OwnMove(x) /\ LockMove(x) /\ CountMove(x)
    BY <1>4, <2>1 DEF ReserveFails, TypeOK, OwnMove, LockMove, CountMove, Idle, Refreshing
  <2> QED BY <1>2, <1>4, <2>2, <2>3 DEF ReserveFails, TypeOK, QuietStep, upstreamVars, boundVars
<1>5. ASSUME NEW a \in Account, x \in Verifier, Verify(x, a)
      PROVE  TypeOK' /\ QuietStep(x)
  <2>1. Recovered[a] \in Record
    BY <1>1, <1>5, RecoveredKeeps DEF Verify
  <2>2. x \notin Request
    BY <1>5, ActorAssumption
  <2>3. PICK s \in {"post", "wait"} : pc' = [pc EXCEPT ![x] = s]
    BY <1>5 DEF Verify, Entry
  <2>4. TypeOK'
    <3>1. /\ acct' = Recovered /\ edits' = edits + 1
          /\ target' = [target EXCEPT ![x] = a] /\ copy' = [copy EXCEPT ![x] = Recovered[a]]
          /\ UNCHANGED <<now, inflight, lock, issued, live, stale, replayed, excluded,
                         imports, lost>>
      BY <1>5 DEF Verify, upstreamVars
    <3>2. forced' \in [Actor -> BOOLEAN]
      BY <1>5 DEF Verify, TypeOK
    <3>3. pc' \in [Actor -> {"start", "wait", "locked", "granted", "invalid", "refused",
                             "failed", "post", "done"}]
      BY <2>3 DEF TypeOK
    <3>4. /\ target' \in [Actor -> Account \cup {Absent}]
          /\ copy' \in [Actor -> Record \cup {Absent}]
      BY <2>1, <3>1 DEF TypeOK
    <3> QED BY <1>1, <3>1, <3>2, <3>3, <3>4 DEF TypeOK
  <2>5. OwnMove(x) /\ LockMove(x) /\ CountMove(x)
    BY <1>5, <2>1, <2>2, <2>3
       DEF Verify, TypeOK, OwnMove, LockMove, CountMove, Idle, Refreshing
  <2> QED BY <1>2, <1>5, <2>3, <2>4, <2>5 DEF Verify, TypeOK, QuietStep, upstreamVars
<1>6. CASE FindsNoAccount(x)
  <2>1. pc[x] = "wait" /\ UNCHANGED <<lock, lost>> /\ End(x, "rate_limited", Recovered)
    BY <1>6 DEF FindsNoAccount
  <2> QED BY <1>1, <2>1, EndIsQuiet DEF TypeOK, Idle, Refreshing
<1>7. CASE FindsFresh(x)
  <2> DEFINE a == target[x]
  <2>1. pc[x] = "wait" /\ a \in Account /\ acct[a] # Absent
    BY <1>7 DEF FindsFresh, BusyHasAccount, Idle
  <2>2. Recovered[a] \in Record
    BY <1>1, <2>1, RecoveredKeeps
  <2>3. TypeOK'
    BY <1>1, <1>7, <2>2 DEF FindsFresh, TypeOK, upstreamVars, boundVars
  <2>4. OwnMove(x) /\ LockMove(x) /\ CountMove(x)
    BY <1>7, <2>1, <2>2 DEF FindsFresh, TypeOK, OwnMove, LockMove, CountMove, Idle, Refreshing
  <2> QED BY <1>2, <1>7, <2>3, <2>4 DEF FindsFresh, TypeOK, QuietStep, upstreamVars, boundVars
<1>8. CASE StartRefresh(x)
  <2> DEFINE a == target[x]
  <2>1. pc[x] = "wait" /\ a \in Account /\ acct[a] # Absent /\ lock[a] = Free
    BY <1>8 DEF StartRefresh, MayLock, BusyHasAccount, Idle
  <2>2. Recovered[a] \in Record
    BY <1>1, <2>1, RecoveredKeeps
  <2>3. TypeOK'
    BY <1>1, <1>8, <2>2 DEF StartRefresh, Current, TypeOK, upstreamVars, boundVars
  <2>4. OwnMove(x) /\ LockMove(x) /\ CountMove(x)
    BY <1>8, <2>1, <2>2
       DEF StartRefresh, Current, TypeOK, OwnMove, LockMove, CountMove, Idle, Refreshing
  <2> QED BY <1>2, <1>8, <2>3, <2>4
          DEF StartRefresh, Current, TypeOK, QuietStep, upstreamVars, boundVars
<1>9. CASE ExchangeFails(x)
  <2>1. pc[x] = "locked" /\ target[x] \in Account /\ copy[x] \in Record
    BY <1>9 DEF ExchangeFails, BusyHasAccount, Idle
  <2>2. PICK s \in {"invalid", "refused", "failed"} :
          pc' = [pc EXCEPT ![x] = s] /\ (s = "invalid" => copy[x].refresh \notin live[target[x]])
    BY <1>9 DEF ExchangeFails
  <2>3. TypeOK'
    BY <1>9, <2>2 DEF ExchangeFails, TypeOK, upstreamVars, boundVars
  <2>4. OwnMove(x) /\ LockMove(x) /\ CountMove(x)
    BY <1>9, <2>1, <2>2
       DEF ExchangeFails, TypeOK, OwnMove, LockMove, CountMove, Idle, Refreshing
  <2> QED BY <1>2, <1>9, <2>1, <2>2, <2>3, <2>4
          DEF ExchangeFails, TypeOK, QuietStep, upstreamVars, boundVars
<1>10. CASE AnswerLost(x)
  <2>1. pc[x] = "granted" /\ target[x] \in Account /\ copy[x] \in Record
    BY <1>10 DEF AnswerLost, BusyHasAccount, Idle
  <2>2. TypeOK'
    BY <1>10 DEF AnswerLost, TypeOK, upstreamVars
  <2>3. OwnMove(x) /\ LockMove(x) /\ CountMove(x)
    BY <1>10, <2>1 DEF AnswerLost, TypeOK, OwnMove, LockMove, CountMove, Idle, Refreshing
  <2> QED BY <1>2, <1>10, <2>2, <2>3 DEF AnswerLost, TypeOK, QuietStep, upstreamVars
<1>11. CASE RefreshFails(x)
  <2>1. pc[x] \in {"invalid", "refused", "failed"} /\ lost' = lost
        /\ lock' = [lock EXCEPT ![target[x]] = Free]
    BY <1>11 DEF RefreshFails, LockAfterFailure
  <2>2. lock' \in [Account -> Actor \cup {Free}]
    BY <2>1 DEF TypeOK
  <2>3. PICK k \in {"invalid", "misread", "refused", "transient", "rate_limited"} :
          End(x, k, acct) /\ (k = "invalid" => pc[x] = "invalid")
    BY <1>11 DEF RefreshFails
  <2> QED BY <1>1, <2>1, <2>2, <2>3, EndIsQuiet DEF TypeOK, Idle, Refreshing
<1>12. CASE Replay(x)
  <2>1. pc[x] = "post" /\ x \in Request /\ target[x] \in Account /\ copy[x] \in Record
    BY <1>12 DEF Replay, Replays, BusyHasAccount, Idle
  <2>2. TypeOK'
    BY <1>12, <2>1 DEF Replay, TypeOK, upstreamVars, boundVars
  <2>3. OwnMove(x) /\ LockMove(x) /\ CountMove(x)
    BY <1>12, <2>1 DEF Replay, TypeOK, OwnMove, LockMove, CountMove, Idle, Refreshing
  <2> QED BY <1>2, <1>12, <2>2, <2>3 DEF Replay, TypeOK, QuietStep, upstreamVars, boundVars
<1>13. ASSUME NEW k \in Answer, Respond(x, k)
       PROVE  TypeOK' /\ QuietStep(x)
  <2>1. pc[x] = "post" /\ UNCHANGED <<lock, lost>>
    BY <1>13 DEF Respond
  <2>2. PICK verdict \in Verdicts(x, k) : End(x, verdict, acct)
    BY <1>13 DEF Respond
  <2>3. verdict # "invalid"
    BY AnswerAssumption DEF Verdicts, Verdict
  <2> QED BY <1>1, <2>1, <2>2, <2>3, EndIsQuiet DEF TypeOK, Idle, Refreshing
<1>14. CASE x \in Request /\ Cancel(x)
  <2>1. pc[x] \notin Idle /\ End(x, "other", acct) /\ target[x] \in Account
    BY <1>14 DEF Cancel, Idle, BusyHasAccount
  <2>2. lost' \in Nat /\ (lost' = 0 => lost = 0 /\ pc[x] # "granted")
    BY <1>14 DEF Cancel, TypeOK
  <2>3. lock' = [a \in Account |-> IF lock[a] = x THEN Free ELSE lock[a]]
    BY <1>14 DEF Cancel
  <2>4. ASSUME NEW a \in Account, lock[a] = x
        PROVE  a = target[x] /\ pc[x] \in Refreshing
    BY <2>4, ActorAssumption DEF LockIsRefresh, Actor
  <2>5. pc[x] \in Refreshing => lock' = [lock EXCEPT ![target[x]] = Free]
    <3>1. ASSUME pc[x] \in Refreshing, NEW a \in Account
          PROVE  lock'[a] = IF a = target[x] THEN Free ELSE lock[a]
      BY <2>3, <2>4, <3>1 DEF LockIsRefresh
    <3> QED BY <2>3, <3>1 DEF TypeOK
  <2>6. pc[x] \notin Refreshing => lock' = lock
    BY <2>3, <2>4 DEF TypeOK
  <2>7. lock' \in [Account -> Actor \cup {Free}]
    BY <2>3 DEF TypeOK
  <2> QED BY <1>1, <2>1, <2>2, <2>5, <2>6, <2>7, EndIsQuiet
<1> QED BY <1>3, <1>4, <1>5, <1>6, <1>7, <1>8, <1>9, <1>10, <1>11, <1>12, <1>13, <1>14
        DEF QuietAction

(* The two steps that do move tokens. *)
LEMMA ExchangeMoves ==
  ASSUME PoolInv, NEW x \in Actor, Exchange(x)
  PROVE  /\ TypeOK' /\ OwnMove(x) /\ LockMove(x) /\ CountMove(x)
         /\ target[x] \in Account /\ target' = target /\ pc' = [pc EXCEPT ![x] = "granted"]
         /\ copy'[x].reason = copy[x].reason
         /\ copy'[x].refresh \in live'[target[x]]
         /\ \A b \in Account \ {target[x]} : live'[b] = live[b]
<1> USE DEF PoolInv
<1> DEFINE a == target[x]
           n == issued[a] + 1
<1>1. pc[x] = "locked" /\ a \in Account /\ copy[x] \in Record
  BY DEF Exchange, BusyHasAccount, Idle
<1>2. n \in Nat \ {0}
  BY <1>1 DEF TypeOK
<1>3. PICK rotates \in BOOLEAN :
        /\ live' = IF rotates THEN [live EXCEPT ![a] = (@ \ {copy[x].refresh}) \cup {n}]
                              ELSE live
        /\ copy' = [copy EXCEPT ![x] = Granted(@, n, rotates)]
  BY DEF Exchange
<1> HIDE DEF n
<1>4. /\ Granted(copy[x], n, rotates) \in Record
      /\ Granted(copy[x], n, rotates).reason = copy[x].reason
      /\ Granted(copy[x], n, rotates).refresh = IF rotates THEN n ELSE copy[x].refresh
  BY <1>1, <1>2 DEF Granted, Record
<1>5. copy'[x] = Granted(copy[x], n, rotates) /\ copy' \in [Actor -> Record \cup {Absent}]
  BY <1>3, <1>4 DEF TypeOK
<1>6. live' \in [Account -> SUBSET Nat]
  BY <1>1, <1>2, <1>3 DEF TypeOK
<1>7. TypeOK'
  <2>1. issued' \in [Account -> Nat]
    BY <1>2 DEF Exchange, TypeOK, n
  <2> QED BY <1>1, <1>5, <1>6, <2>1 DEF Exchange, TypeOK, boundVars
<1>8. OwnMove(x) /\ LockMove(x) /\ CountMove(x)
  <2>1. \A y \in Actor \ {x} : copy'[y] = copy[y]
    BY <1>3 DEF TypeOK
  <2> QED BY <1>1, <1>4, <1>5, <2>1
          DEF Exchange, TypeOK, OwnMove, LockMove, CountMove, Idle, Refreshing
<1>9. copy[x].refresh \in live[a]
  BY DEF Exchange
<1>10. copy'[x].refresh \in live'[a]
  BY <1>1, <1>3, <1>4, <1>5, <1>9 DEF TypeOK
<1>11. \A b \in Account \ {a} : live'[b] = live[b]
  BY <1>3 DEF TypeOK
<1> QED BY <1>1, <1>4, <1>5, <1>7, <1>8, <1>10, <1>11 DEF Exchange

LEMMA StoreMoves ==
  ASSUME PoolInv, NEW x \in Actor, StoreTokens(x)
  PROVE  /\ TypeOK' /\ OwnMove(x) /\ LockMove(x) /\ CountMove(x)
         /\ pc[x] = "granted" /\ target[x] \in Account /\ target' = target /\ copy' = copy
         /\ pc'[x] \in {"post", "wait"}
         /\ acct' = [acct EXCEPT ![target[x]] = copy[x]]
         /\ UNCHANGED <<live, imports, lost>>
<1> USE DEF PoolInv
<1>1. pc[x] = "granted" /\ target[x] \in Account /\ copy[x] \in Record
  BY DEF StoreTokens, BusyHasAccount, Idle
<1>2. PICK s \in {"post", "wait"} : pc' = [pc EXCEPT ![x] = s]
  BY DEF StoreTokens, Entry
<1>3. pc'[x] = s /\ acct' = [acct EXCEPT ![target[x]] = copy[x]]
  BY <1>2 DEF TypeOK, StoreTokens
<1>4. /\ lock' = [lock EXCEPT ![target[x]] = Free] /\ forced' = [forced EXCEPT ![x] = FALSE]
      /\ UNCHANGED <<now, inflight, issued, live, stale, target, copy, replayed, excluded,
                     edits, imports, lost>>
  BY DEF StoreTokens, upstreamVars, boundVars
<1>5. TypeOK'
  <2>1. acct' \in [Account -> Record \cup {Absent}]
    BY <1>1, <1>3 DEF TypeOK
  <2>2. pc' \in [Actor -> {"start", "wait", "locked", "granted", "invalid", "refused",
                           "failed", "post", "done"}]
    BY <1>2 DEF TypeOK
  <2> QED BY <1>4, <2>1, <2>2 DEF TypeOK
<1>6. OwnMove(x) /\ LockMove(x) /\ CountMove(x)
  BY <1>1, <1>2, <1>3, <1>4 DEF TypeOK, OwnMove, LockMove, CountMove, Idle, Refreshing
<1> QED BY <1>1, <1>3, <1>4, <1>5, <1>6

(* The operator, the clock and the upstream move no actor. *)
Environment ==
  \/ \E a \in Account : Toggle(a) \/ Delete(a) \/ Import(a) \/ Expire(a)
  \/ Look \/ Tick \/ UNCHANGED vars

(* What they do to the pool: the tokens of an account stay, are deleted, or  *)
(* are imported fresh.                                                       *)
EnvironmentMove ==
  /\ UNCHANGED <<inflight, lock, lost, actorVars>>
  /\ \/ UNCHANGED <<live, imports>> /\ KeepsPool(acct', {})
     \/ \E a \in Account :
          UNCHANGED <<live, imports>> /\ acct' = [acct EXCEPT ![a] = Absent]
     \/ \E a \in Account :
          /\ imports' # 0
          /\ \A b \in Account : live[b] \subseteq live'[b]
          /\ acct'[a].refresh \in live'[a]
          /\ \A b \in Account \ {a} : acct'[b] = acct[b]

LEMMA EnvironmentMoves ==
  ASSUME PoolInv, Environment
  PROVE  PoolInv' /\ EnvironmentMove
<1> USE DEF PoolInv
<1>1. SUFFICES TypeOK' /\ EnvironmentMove
  <2>1. ASSUME EnvironmentMove
        PROVE  BusyHasAccount' /\ LockIsRefresh'
    BY <2>1 DEF EnvironmentMove, BusyHasAccount, LockIsRefresh, actorVars
  <2> QED BY <2>1
<1>2. /\ Recovered \in [Account -> Record \cup {Absent}]
      /\ KeepsPool(Recovered, {}) /\ KeepsPool(acct, {})
  BY RecoveredKeeps, RecoveredKeepsPool
<1>3. ASSUME NEW a \in Account, Toggle(a)
      PROVE  TypeOK' /\ EnvironmentMove
  <2>1. acct[a] \in Record
    BY <1>3 DEF Toggle, TypeOK
  <2>2. acct' = [acct EXCEPT ![a] = [acct[a] EXCEPT !.enabled = ~acct[a].enabled]]
    BY <1>3 DEF Toggle
  <2>3. ASSUME NEW rec, rec = [acct[a] EXCEPT !.enabled = ~acct[a].enabled]
        PROVE  rec \in Record /\ Keeps(rec, acct[a])
    BY <2>1, <2>3 DEF Record, Keeps
  <2>4. /\ acct' \in [Account -> Record \cup {Absent}]
        /\ acct'[a] \in Record /\ Keeps(acct'[a], acct[a])
        /\ \A b \in Account \ {a} : acct'[b] = acct[b]
    BY <2>2, <2>3 DEF TypeOK
  <2>5. KeepsPool(acct', {})
    BY <2>1, <2>4, AbsentAssumption DEF KeepsPool, Keeps
  <2> QED BY <1>3, <2>4, <2>5 DEF Toggle, TypeOK, EnvironmentMove, actorVars, upstreamVars
<1>4. ASSUME NEW a \in Account, Delete(a)
      PROVE  TypeOK' /\ EnvironmentMove
  <2>1. acct' = [acct EXCEPT ![a] = Absent] /\ edits' = edits + 1
        /\ UNCHANGED <<now, inflight, lock, issued, live, stale, pc, target, copy, forced,
                       replayed, excluded, imports, lost>>
    BY <1>4 DEF Delete, actorVars, upstreamVars
  <2>2. TypeOK'
    BY <2>1 DEF TypeOK
  <2>3. EnvironmentMove
    BY <2>1 DEF EnvironmentMove, actorVars
  <2> QED BY <2>2, <2>3
<1>5. ASSUME NEW a \in Account, Import(a)
      PROVE  TypeOK' /\ EnvironmentMove
  <2> DEFINE n == issued[a] + 1
             new == [enabled |-> IF acct[a] = Absent THEN TRUE ELSE acct[a].enabled,
                     status |-> "active", reason |-> "none", until |-> 0,
                     access |-> n, refresh |-> n]
  <2>1. n \in Nat \ {0}
    BY DEF TypeOK
  <2>2. issued' = [issued EXCEPT ![a] = n] /\ live' = [live EXCEPT ![a] = @ \cup {n}]
        /\ acct' = [acct EXCEPT ![a] = new] /\ imports' = imports + 1
        /\ UNCHANGED <<now, inflight, lock, stale, actorVars, edits, lost>>
    BY <1>5 DEF Import
  <2>3. new \in Record /\ new.refresh = n
    <3>1. acct[a] = Absent \/ acct[a].enabled \in BOOLEAN
      BY DEF TypeOK, Record
    <3> QED BY <2>1, <3>1 DEF Record, Reason
  <2> HIDE DEF n, new
  <2>4. TypeOK'
    BY <2>1, <2>2, <2>3 DEF TypeOK, actorVars
  <2>5. EnvironmentMove
    <3>1. /\ imports' # 0 /\ acct'[a].refresh \in live'[a]
          /\ \A b \in Account : live[b] \subseteq live'[b]
          /\ \A b \in Account \ {a} : acct'[b] = acct[b]
      BY <2>2, <2>3 DEF TypeOK
    <3> QED BY <2>2, <3>1 DEF EnvironmentMove, actorVars
  <2> QED BY <2>4, <2>5
<1>6. ASSUME NEW a \in Account, Expire(a)
      PROVE  TypeOK' /\ EnvironmentMove
  BY <1>2, <1>6 DEF Expire, TypeOK, EnvironmentMove, actorVars, boundVars
<1>7. CASE Look
  BY <1>2, <1>7 DEF Look, TypeOK, EnvironmentMove, actorVars, boundVars, upstreamVars
<1>8. CASE Tick
  BY <1>2, <1>8 DEF Tick, TypeOK, EnvironmentMove, actorVars, boundVars, upstreamVars
<1>9. CASE UNCHANGED vars
  BY <1>2, <1>9 DEF vars, TypeOK, EnvironmentMove, actorVars
<1> QED BY <1>3, <1>4, <1>5, <1>6, <1>7, <1>8, <1>9 DEF Environment

(* Every step is one of these. *)
LEMMA StepKinds ==
  ASSUME [Next]_vars
  PROVE  \/ \E x \in Actor : QuietAction(x) \/ Exchange(x) \/ StoreTokens(x)
         \/ Environment
  BY DEF Next, Step, Refresh, QuietAction, Environment, Actor

(* Type correctness, and the discipline of the refresh lock: whoever awaits  *)
(* the token endpoint holds its account's lock, and nobody else does.        *)
LEMMA PoolStep ==
  ASSUME PoolInv, [Next]_vars
  PROVE  PoolInv'
<1>1. ASSUME NEW x \in Actor, QuietAction(x) \/ Exchange(x) \/ StoreTokens(x)
      PROVE  PoolInv'
  <2>1. TypeOK' /\ OwnMove(x) /\ LockMove(x)
    BY <1>1, QuietActions, ExchangeMoves, StoreMoves DEF QuietStep
  <2> QED BY <2>1, ActorMoves
<1> QED BY <1>1, StepKinds, EnvironmentMoves

(* The types of the accounts, the requests, the verifications and the        *)
(* upstream's tokens, for any number of each.                                *)
THEOREM BuildTypeOK == Spec => []TypeOK
<1>1. PoolInv => TypeOK
  BY DEF PoolInv
<1> QED BY <1>1, InitPool, PoolStep, PTL DEF Spec

-----------------------------------------------------------------------------
(* The count of calls in flight. *)
Lessees(a) == {r \in Request : target[r] = a}

LEMMA LesseesFinite ==
  ASSUME NEW a
  PROVE  IsFiniteSet(Lessees(a)) /\ Cardinality(Lessees(a)) \in Nat
  BY ActorAssumption, FS_Subset, FS_CardinalityType DEF Lessees

(* The step of an actor that leaves the count alone, takes a lease, or gives *)
(* one back, keeps count and leases together.                                *)
LEMMA CountFollows ==
  ASSUME PoolInv, InflightIsLeases, NEW x \in Actor, OwnMove(x), CountMove(x)
  PROVE  InflightIsLeases'
<1> SUFFICES ASSUME NEW a \in Account
             PROVE  inflight'[a] = Cardinality(Lessees(a)')
  BY DEF InflightIsLeases, Lessees
<1>1. /\ inflight \in [Account -> Nat] /\ inflight[a] = Cardinality(Lessees(a))
      /\ target \in [Actor -> Account \cup {Absent}]
  BY DEF PoolInv, TypeOK, InflightIsLeases, Lessees
<1>2. \A r \in Request \ {x} : target'[r] = target[r]
  BY DEF OwnMove, Actor
<1>3. CASE inflight' = inflight /\ (x \in Request => target'[x] = target[x])
  <2>1. Lessees(a)' = Lessees(a)
    BY <1>2, <1>3 DEF Lessees
  <2> QED BY <1>1, <1>3, <2>1
<1>4. ASSUME NEW b \in Account, x \in Request, target[x] = Absent, target'[x] = b,
             inflight' = [inflight EXCEPT ![b] = @ + 1]
      PROVE  inflight'[a] = Cardinality(Lessees(a)')
  <2>1. CASE a = b
    <3>1. Lessees(a)' = Lessees(a) \cup {x} /\ x \notin Lessees(a)
      BY <1>2, <1>4, <2>1, ActorAssumption DEF Lessees
    <3>2. Cardinality(Lessees(a) \cup {x}) = Cardinality(Lessees(a)) + 1
      BY <3>1, LesseesFinite, FS_AddElement
    <3> QED BY <1>1, <1>4, <2>1, <3>1, <3>2
  <2>2. CASE a # b
    <3>1. Lessees(a)' = Lessees(a)
      BY <1>2, <1>4, <2>2, ActorAssumption DEF Lessees
    <3> QED BY <1>1, <1>4, <2>2, <3>1
  <2> QED BY <2>1, <2>2
<1>5. CASE /\ x \in Request /\ target[x] \in Account
           /\ target'[x] = Absent /\ inflight' = Released(target[x])
  <2>1. CASE a = target[x]
    <3>1. Lessees(a)' = Lessees(a) \ {x} /\ x \in Lessees(a)
      BY <1>2, <1>5, <2>1, ActorAssumption DEF Lessees
    <3>2. Cardinality(Lessees(a) \ {x}) = Cardinality(Lessees(a)) - 1
      BY <3>1, LesseesFinite, FS_RemoveElement
    <3>3. Cardinality(Lessees(a)) # 0
      BY <3>1, LesseesFinite, FS_EmptySet
    <3>4. inflight'[a] = inflight[a] - 1
      BY <1>1, <1>5, <2>1, <3>3 DEF Released
    <3> QED BY <1>1, <3>1, <3>2, <3>4
  <2>2. CASE a # target[x]
    <3>1. Lessees(a)' = Lessees(a)
      BY <1>2, <1>5, <2>2, ActorAssumption DEF Lessees
    <3>2. inflight'[a] = inflight[a]
      BY <1>1, <1>5, <2>2 DEF Released
    <3> QED BY <1>1, <3>1, <3>2
  <2> QED BY <2>1, <2>2
<1> QED BY <1>3, <1>4, <1>5 DEF CountMove

(* For every number of accounts, calls, verifications and edits: the count   *)
(* of calls in flight on an account (reserve, _release_locked) is the number *)
(* of requests that lease it, whatever happens to its record meanwhile.      *)
THEOREM BuildInflightCountsLeases == Spec => []InflightIsLeases
<1>1. Init => PoolInv /\ InflightIsLeases
  <2> SUFFICES ASSUME Init PROVE InflightIsLeases
    BY InitPool
  <2>1. ASSUME NEW a \in Account
        PROVE  inflight[a] = Cardinality(Lessees(a))
    <3>1. Lessees(a) = {}
      BY ActorAssumption DEF Init, Lessees, Actor
    <3> QED BY <3>1, FS_EmptySet DEF Init
  <2> QED BY <2>1 DEF InflightIsLeases, Lessees
<1>2. PoolInv /\ InflightIsLeases /\ [Next]_vars => (PoolInv /\ InflightIsLeases)'
  <2> SUFFICES ASSUME PoolInv, InflightIsLeases, [Next]_vars
               PROVE  InflightIsLeases'
    BY PoolStep
  <2>1. ASSUME NEW x \in Actor, QuietAction(x) \/ Exchange(x) \/ StoreTokens(x)
        PROVE  InflightIsLeases'
    <3>1. OwnMove(x) /\ CountMove(x)
      BY <2>1, QuietActions, ExchangeMoves, StoreMoves DEF QuietStep
    <3> QED BY <3>1, CountFollows
  <2>2. CASE Environment
    BY <2>2, EnvironmentMoves DEF EnvironmentMove, actorVars, InflightIsLeases
  <2> QED BY <2>1, <2>2, StepKinds
<1> QED BY <1>1, <1>2, PTL DEF Spec

-----------------------------------------------------------------------------
(* Credentials.  An actor inside a refresh shares its account with no other, *)
(* so that nobody else trades the account's tokens in.                       *)
LEMMA OneRefresh ==
  ASSUME PoolInv, NEW x \in Actor, NEW y \in Actor,
         pc[x] \in Refreshing, pc[y] \in Refreshing, target[x] = target[y]
  PROVE  x = y
  BY DEF PoolInv, LockIsRefresh

LEMMA ExchangeCredentials ==
  ASSUME CredentialsInv, NEW x \in Actor, Exchange(x)
  PROVE  GrantedLive' /\ CredentialsLive'
<1> USE DEF CredentialsInv
<1> DEFINE a == target[x]
<1>1. /\ PoolInv' /\ OwnMove(x) /\ a \in Account /\ target' = target
      /\ pc' = [pc EXCEPT ![x] = "granted"]
      /\ copy'[x].refresh \in live'[a]
      /\ \A b \in Account \ {a} : live'[b] = live[b]
  BY ExchangeMoves, ActorMoves
<1>2. pc[x] = "locked" /\ UNCHANGED <<acct, lock, lost>>
  BY DEF Exchange, boundVars
<1>3. pc'[x] = "granted" /\ lock[a] = x
  BY <1>1, <1>2 DEF PoolInv, TypeOK, LockIsRefresh, Refreshing
<1>4. ASSUME NEW y \in Actor, pc'[y] = "granted"
      PROVE  copy'[y].refresh \in live'[target'[y]]
  <2>1. CASE y = x
    BY <1>1, <2>1
  <2>2. CASE y # x
    <3>1. pc[y] = "granted" /\ copy'[y] = copy[y]
      BY <1>1, <1>4, <2>2 DEF OwnMove
    <3>2. target[y] \in Account /\ target[y] # a
      BY <1>2, <2>2, <3>1, OneRefresh DEF PoolInv, BusyHasAccount, Idle, Refreshing
    <3> QED BY <1>1, <3>1, <3>2 DEF GrantedLive
  <2> QED BY <2>1, <2>2
<1>5. ASSUME lost' = 0, NEW b \in Account, acct'[b] # Absent, acct'[b].refresh \notin live'[b]
      PROVE  lock'[b] # Free /\ pc'[lock'[b]] = "granted"
  <2>1. CASE b = a
    BY <1>2, <1>3, <2>1, ActorAssumption DEF Actor
  <2>2. CASE b # a
    <3>1. lock[b] # Free /\ pc[lock[b]] = "granted"
      BY <1>1, <1>2, <1>5, <2>2 DEF CredentialsLive
    <3>2. lock[b] \in Actor
      BY <3>1 DEF PoolInv, TypeOK
    <3> QED BY <1>1, <1>2, <1>3, <3>1, <3>2 DEF OwnMove
  <2> QED BY <2>1, <2>2
<1> QED BY <1>4, <1>5 DEF GrantedLive, CredentialsLive

LEMMA StoreCredentials ==
  ASSUME CredentialsInv, NEW x \in Actor, StoreTokens(x)
  PROVE  GrantedLive' /\ CredentialsLive'
<1> USE DEF CredentialsInv
<1> DEFINE a == target[x]
<1>1. /\ OwnMove(x) /\ pc[x] = "granted" /\ a \in Account /\ target' = target /\ copy' = copy
      /\ pc'[x] \in {"post", "wait"} /\ acct' = [acct EXCEPT ![a] = copy[x]]
      /\ UNCHANGED <<live, imports, lost>>
  BY StoreMoves
<1>2. lock' = [lock EXCEPT ![a] = Free]
  BY DEF StoreTokens
<1>3. GrantedLive'
  BY <1>1 DEF GrantedLive, OwnMove
<1>4. ASSUME lost' = 0, NEW b \in Account, acct'[b] # Absent, acct'[b].refresh \notin live'[b]
      PROVE  lock'[b] # Free /\ pc'[lock'[b]] = "granted"
  <2>1. b # a
    <3>1. copy[x].refresh \in live[a]
      BY <1>1 DEF GrantedLive
    <3> QED BY <1>1, <1>4, <3>1 DEF PoolInv, TypeOK
  <2>2. lock[b] # Free /\ pc[lock[b]] = "granted"
    BY <1>1, <1>4, <2>1 DEF CredentialsLive, PoolInv, TypeOK
  <2>3. lock[b] \in Actor /\ lock[b] # x
    BY <2>1, <2>2 DEF PoolInv, TypeOK, LockIsRefresh
  <2> QED BY <1>1, <1>2, <2>1, <2>2, <2>3 DEF OwnMove, PoolInv, TypeOK
<1> QED BY <1>3, <1>4 DEF CredentialsLive

LEMMA QuietCredentials ==
  ASSUME CredentialsInv, NEW x \in Actor, QuietAction(x)
  PROVE  GrantedLive' /\ CredentialsLive'
<1> USE DEF CredentialsInv
<1>1. QuietStep(x) /\ PoolInv'
  BY QuietActions, ActorMoves DEF QuietStep
<1>2. /\ live' = live /\ pc'[x] # "granted" /\ (lost' = 0 => lost = 0 /\ pc[x] # "granted")
      /\ \A y \in Actor \ {x} : pc'[y] = pc[y] /\ target'[y] = target[y] /\ copy'[y] = copy[y]
  BY <1>1 DEF QuietStep, OwnMove
<1>3. GrantedLive'
  BY <1>2 DEF GrantedLive
<1>4. ASSUME lost' = 0, NEW b \in Account, acct'[b] # Absent, acct'[b].refresh \notin live'[b]
      PROVE  lock'[b] # Free /\ pc'[lock'[b]] = "granted"
  <2>1. acct[b] # Absent /\ acct[b].refresh \notin live[b]
    BY <1>1, <1>2, <1>4 DEF QuietStep, KeepsPool
  <2>2. lock[b] # Free /\ pc[lock[b]] = "granted"
    BY <1>2, <1>4, <2>1 DEF CredentialsLive
  <2>3. lock[b] \in Actor /\ lock[b] # x /\ target[lock[b]] = b
    BY <1>2, <1>4, <2>2 DEF PoolInv, TypeOK, LockIsRefresh
  <2>4. pc'[lock[b]] = "granted" /\ target'[lock[b]] = b
    BY <1>2, <2>2, <2>3
  <2>5. lock'[b] = lock[b]
    BY <1>1, <2>3, <2>4 DEF PoolInv, LockIsRefresh, Refreshing
  <2> QED BY <2>2, <2>4, <2>5
<1> QED BY <1>3, <1>4 DEF CredentialsLive

LEMMA EnvironmentCredentials ==
  ASSUME CredentialsInv, Environment
  PROVE  GrantedLive' /\ CredentialsLive'
<1> USE DEF CredentialsInv
<1>1. EnvironmentMove /\ PoolInv
  BY EnvironmentMoves
<1>2. \A b \in Account : live[b] \subseteq live'[b]
  BY <1>1 DEF EnvironmentMove
<1>3. UNCHANGED <<lock, lost, pc, target, copy>>
  BY <1>1 DEF EnvironmentMove, actorVars
<1>4. GrantedLive'
  BY <1>2, <1>3 DEF GrantedLive, PoolInv, BusyHasAccount, Idle
<1>5. ASSUME NEW b \in Account, acct'[b] # Absent, acct'[b].refresh \notin live'[b]
      PROVE  acct[b] # Absent /\ acct[b].refresh \notin live[b]
  <2>1. acct \in [Account -> Record \cup {Absent}]
    BY DEF PoolInv, TypeOK
  <2> QED BY <1>1, <1>2, <1>5, <2>1 DEF EnvironmentMove, KeepsPool
<1> QED BY <1>3, <1>4, <1>5 DEF CredentialsLive

(* For every number of accounts, calls, verifications and edits: as long as  *)
(* no answer of the token endpoint has been lost, the refresh token kept of  *)
(* an account (refresh_account, update) is one the upstream honours, or its  *)
(* successor is on its way into the store.                                   *)
THEOREM BuildCredentialsLive == Spec => []CredentialsLive
<1>1. Init => CredentialsInv
  <2> SUFFICES ASSUME Init PROVE GrantedLive /\ CredentialsLive
    BY InitPool DEF CredentialsInv
  <2> QED BY DEF Init, GrantedLive, CredentialsLive
<1>2. CredentialsInv /\ [Next]_vars => CredentialsInv'
  BY StepKinds, PoolStep, QuietCredentials, ExchangeCredentials, StoreCredentials,
     EnvironmentCredentials DEF CredentialsInv
<1>3. CredentialsInv => CredentialsLive
  BY DEF CredentialsInv
<1> QED BY <1>1, <1>2, <1>3, PTL DEF Spec

-----------------------------------------------------------------------------
(* Condemned accounts.  What the three parts of DeadInv say of one actor. *)
CopyFits(x) ==
  /\ (pc[x] \in {"locked", "invalid"} /\ acct[target[x]] # Absent) =>
       copy[x].refresh = acct[target[x]].refresh
  /\ (pc[x] = "invalid" \/ (pc[x] = "locked" /\ copy[x].reason = "invalid")) =>
       copy[x].refresh \notin live[target[x]]
  /\ pc[x] = "granted" => copy[x].reason # "invalid"

(* An actor that a step does not move keeps its copy fitting, if the step    *)
(* leaves the tokens of its account alone.                                   *)
LEMMA OthersFit ==
  ASSUME NEW x \in Actor, CopyFits(x),
         pc'[x] = pc[x], target'[x] = target[x], copy'[x] = copy[x],
         pc[x] \in {"locked", "invalid"} => live'[target[x]] = live[target[x]],
         (pc[x] \in {"locked", "invalid"} /\ acct'[target[x]] # Absent) =>
           acct[target[x]] # Absent /\ acct'[target[x]].refresh = acct[target[x]].refresh
  PROVE  CopyFits(x)'
  BY DEF CopyFits

LEMMA ExchangeCondemns ==
  ASSUME DeadInv, NEW x \in Actor, Exchange(x), imports' = 0
  PROVE  CopyUnderRefresh' /\ DisabledMeansDead'
<1> USE DEF DeadInv
<1> DEFINE a == target[x]
<1>1. /\ OwnMove(x) /\ a \in Account /\ target' = target
      /\ pc' = [pc EXCEPT ![x] = "granted"]
      /\ copy'[x].reason = copy[x].reason
      /\ \A b \in Account \ {a} : live'[b] = live[b]
  BY ExchangeMoves
<1>2. pc[x] = "locked" /\ imports = 0 /\ acct' = acct /\ copy[x].refresh \in live[a]
  BY DEF Exchange, boundVars
<1>3. pc'[x] = "granted"
  BY <1>1 DEF PoolInv, TypeOK
<1>4. \A y \in Actor : CopyFits(y)
  BY <1>2 DEF CopyUnderRefresh, CopyFits
<1>5. copy[x].reason # "invalid"
  BY <1>2, <1>4 DEF CopyFits
<1>6. CopyFits(x)'
  BY <1>1, <1>3, <1>5 DEF CopyFits
<1>7. ASSUME NEW y \in Actor, y # x
      PROVE  CopyFits(y)'
  <2>1. pc'[y] = pc[y] /\ target'[y] = target[y] /\ copy'[y] = copy[y]
    BY <1>1, <1>7 DEF OwnMove
  <2>2. pc[y] \in {"locked", "invalid"} => live'[target[y]] = live[target[y]]
    BY <1>1, <1>2, <1>7, OneRefresh DEF PoolInv, BusyHasAccount, Idle, Refreshing
  <2> QED BY <1>2, <1>4, <2>1, <2>2, OthersFit
<1>8. ASSUME NEW b \in Account, acct'[b] # Absent, acct'[b].reason = "invalid"
      PROVE  acct'[b].refresh \notin live'[b]
  <2>1. acct[b].refresh \notin live[b]
    BY <1>2, <1>8 DEF DisabledMeansDead
  <2>2. b # a
    BY <1>2, <1>4, <1>8, <2>1 DEF CopyFits
  <2> QED BY <1>1, <1>2, <2>1, <2>2
<1> QED BY <1>6, <1>7, <1>8 DEF CopyUnderRefresh, CopyFits, DisabledMeansDead

LEMMA StoreCondemns ==
  ASSUME DeadInv, NEW x \in Actor, StoreTokens(x), imports' = 0
  PROVE  CopyUnderRefresh' /\ DisabledMeansDead'
<1> USE DEF DeadInv
<1> DEFINE a == target[x]
<1>1. /\ OwnMove(x) /\ pc[x] = "granted" /\ a \in Account /\ target' = target /\ copy' = copy
      /\ pc'[x] \in {"post", "wait"} /\ acct' = [acct EXCEPT ![a] = copy[x]]
      /\ UNCHANGED <<live, imports, lost>>
  BY StoreMoves
<1>2. \A y \in Actor : CopyFits(y)
  BY <1>1 DEF CopyUnderRefresh, CopyFits
<1>3. \A b \in Account : acct'[b] = IF b = a THEN copy[x] ELSE acct[b]
  BY <1>1 DEF PoolInv, TypeOK
<1>4. CopyFits(x)'
  BY <1>1 DEF CopyFits
<1>5. ASSUME NEW y \in Actor, y # x
      PROVE  CopyFits(y)'
  <2>1. pc'[y] = pc[y] /\ target'[y] = target[y] /\ copy'[y] = copy[y]
    BY <1>1, <1>5 DEF OwnMove
  <2>2. pc[y] \in {"locked", "invalid"} => target[y] \in Account /\ target[y] # a
    BY <1>1, <1>5, OneRefresh DEF PoolInv, BusyHasAccount, Idle, Refreshing
  <2> QED BY <1>1, <1>2, <1>3, <2>1, <2>2, OthersFit
<1>6. ASSUME NEW b \in Account, acct'[b] # Absent, acct'[b].reason = "invalid"
      PROVE  acct'[b].refresh \notin live'[b]
  <2>1. b # a
    BY <1>1, <1>2, <1>3, <1>6 DEF CopyFits
  <2> QED BY <1>1, <1>3, <1>6, <2>1 DEF DisabledMeansDead
<1> QED BY <1>4, <1>5, <1>6 DEF CopyUnderRefresh, CopyFits, DisabledMeansDead

LEMMA QuietCondemns ==
  ASSUME DeadInv, NEW x \in Actor, QuietAction(x), imports' = 0
  PROVE  CopyUnderRefresh' /\ DisabledMeansDead'
<1> USE DEF DeadInv
<1>1. QuietStep(x) /\ TypeOK'
  BY QuietActions
<1>2. /\ live' = live /\ imports = 0 /\ pc'[x] # "granted"
      /\ \A y \in Actor \ {x} : pc'[y] = pc[y] /\ target'[y] = target[y] /\ copy'[y] = copy[y]
      /\ KeepsPool(acct', {a \in Account : pc[x] = "invalid" /\ a = target[x]})
      /\ pc'[x] = "locked" => copy'[x] = acct'[target'[x]]
      /\ pc'[x] = "invalid" =>
           /\ pc[x] = "locked" /\ target'[x] = target[x] /\ copy'[x] = copy[x]
           /\ copy[x].refresh \notin live[target[x]]
      /\ pc'[x] \notin Idle => target'[x] \in Account /\ copy'[x] \in Record
  BY <1>1 DEF QuietStep, OwnMove
<1>3. \A y \in Actor : CopyFits(y)
  BY <1>2 DEF CopyUnderRefresh, CopyFits
<1>4. ASSUME NEW b \in Account, acct'[b] # Absent
      PROVE  acct[b] # Absent /\ acct'[b].refresh = acct[b].refresh
  BY <1>2, <1>4 DEF KeepsPool
<1>5. ASSUME NEW b \in Account, acct'[b] # Absent, acct'[b].reason = "invalid"
      PROVE  acct'[b].refresh \notin live'[b]
  <2>1. CASE acct[b].reason = "invalid"
    BY <1>2, <1>4, <1>5, <2>1 DEF DisabledMeansDead
  <2>2. CASE acct[b].reason # "invalid"
    <3>1. pc[x] = "invalid" /\ b = target[x]
      BY <1>2, <1>4, <1>5, <2>2 DEF KeepsPool
    <3> QED BY <1>2, <1>3, <1>4, <1>5, <3>1 DEF CopyFits
  <2> QED BY <2>1, <2>2
<1>6. ASSUME NEW y \in Actor, y # x
      PROVE  CopyFits(y)'
  <2>1. pc[y] \in {"locked", "invalid"} => target[y] \in Account
    BY DEF PoolInv, BusyHasAccount, Idle
  <2> QED BY <1>2, <1>3, <1>4, <1>6, <2>1, OthersFit
<1>7. CopyFits(x)'
  <2>1. CASE pc'[x] = "locked"
    <3>1. target'[x] \in Account /\ copy'[x] = acct'[target'[x]] /\ copy'[x] \in Record
      BY <1>2, <2>1 DEF Idle
    <3>2. acct'[target'[x]] # Absent
      BY <3>1, AbsentAssumption
    <3> QED BY <1>5, <2>1, <3>1, <3>2 DEF CopyFits
  <2>2. CASE pc'[x] = "invalid"
    <3>1. target[x] \in Account
      BY <1>2, <2>2 DEF PoolInv, BusyHasAccount, Idle
    <3> QED BY <1>2, <1>3, <1>4, <2>2, <3>1 DEF CopyFits
  <2>3. CASE pc'[x] \notin {"locked", "invalid"}
    BY <1>2, <2>3 DEF CopyFits
  <2> QED BY <2>1, <2>2, <2>3
<1> QED BY <1>5, <1>6, <1>7 DEF CopyUnderRefresh, CopyFits, DisabledMeansDead

LEMMA EnvironmentCondemns ==
  ASSUME DeadInv, Environment, imports' = 0
  PROVE  CopyUnderRefresh' /\ DisabledMeansDead'
<1> USE DEF DeadInv
<1>1. EnvironmentMove
  BY EnvironmentMoves
<1>2. UNCHANGED <<pc, target, copy, live, imports>>
  BY <1>1 DEF EnvironmentMove, actorVars
<1>3. ASSUME NEW b \in Account, acct'[b] # Absent
      PROVE  /\ acct[b] # Absent /\ acct'[b].refresh = acct[b].refresh
             /\ acct'[b].reason = "invalid" => acct[b].reason = "invalid"
  <2>1. acct \in [Account -> Record \cup {Absent}]
    BY DEF PoolInv, TypeOK
  <2> QED BY <1>1, <1>3, <2>1 DEF EnvironmentMove, KeepsPool
<1>4. ASSUME NEW y \in Actor
      PROVE  CopyFits(y)'
  <2>1. pc[y] \in {"locked", "invalid"} => target[y] \in Account
    BY DEF PoolInv, BusyHasAccount, Idle
  <2>2. CopyFits(y)
    BY <1>2 DEF CopyUnderRefresh, CopyFits
  <2> QED BY <1>2, <1>3, <2>1, <2>2, OthersFit
<1> QED BY <1>2, <1>3, <1>4 DEF CopyUnderRefresh, CopyFits, DisabledMeansDead

(* For every number of accounts, calls, verifications and edits: until an    *)
(* import, an account condemned by invalid_grant (_apply_failure_locked) has *)
(* a refresh token that the upstream no longer honours - a late store of a   *)
(* copy, or another actor's refresh, never makes that verdict wrong.         *)
THEOREM BuildDisabledMeansDead == Spec => []DisabledMeansDead
<1>1. Init => DeadInv
  <2> SUFFICES ASSUME Init PROVE CopyUnderRefresh /\ DisabledMeansDead
    BY InitPool DEF DeadInv
  <2> QED BY DEF Init, CopyUnderRefresh, DisabledMeansDead
<1>2. DeadInv /\ [Next]_vars => DeadInv'
  <2> SUFFICES ASSUME DeadInv, [Next]_vars PROVE CopyUnderRefresh' /\ DisabledMeansDead'
    BY PoolStep DEF DeadInv
  <2>1. CASE imports' = 0
    BY <2>1, StepKinds, QuietCondemns, ExchangeCondemns, StoreCondemns, EnvironmentCondemns
  <2>2. CASE imports' # 0
    BY <2>2 DEF CopyUnderRefresh, DisabledMeansDead
  <2> QED BY <2>1, <2>2
<1>3. DeadInv => DisabledMeansDead
  BY DEF DeadInv
<1> QED BY <1>1, <1>2, <1>3, PTL DEF Spec

=============================================================================
