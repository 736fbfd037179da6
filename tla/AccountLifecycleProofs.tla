----------------------- MODULE AccountLifecycleProofs -----------------------
(***************************************************************************)
(* Proofs about AccountLifecycle for every quota, cooldown, lag and bound,  *)
(* and any number of concurrent calls: only the operator brings an account  *)
(* back once every worker knows that it is out of service; the local console *)
(* quota counts every success of a window in which no write was lost; and   *)
(* repeated 429s expire the account unless a write was lost.                *)
(***************************************************************************)
EXTENDS AccountLifecycle, TLAPS

(* Actors, and the columns the proofs follow. *)
Shape ==
  /\ pc \in [Actor -> {"idle", "calling", "write"}]
  /\ DOMAIN patch = Actor
  /\ {"status", "reason", "remaining", "reset", "uses", "until", "expiredAt", "count",
      "last429"} = DOMAIN row

DisablePending ==
  /\ pc[Operator] # "calling"
  /\ pc[Operator] = "write" => /\ "status" \in DOMAIN patch[Operator]
                               /\ patch[Operator].status = "disabled"

(* What a pending call's patch writes are columns of the row. *)
PatchShape ==
  \A a \in Actor : pc[a] = "write" => DOMAIN patch[a] \subseteq DOMAIN row

ReviveInv == Shape /\ DisablePending /\ PatchShape

-----------------------------------------------------------------------------
LEMMA OverShape ==
  ASSUME NEW p, NEW r
  PROVE  /\ DOMAIN Over(p, r) = DOMAIN p \cup DOMAIN r
         /\ \A f \in DOMAIN p : Over(p, r)[f] = p[f]
         /\ \A f \in DOMAIN r \ DOMAIN p : Over(p, r)[f] = r[f]
  BY DEF Over

LEMMA ExtShape ==
  ASSUME NEW r PROVE DOMAIN Ext(r) \subseteq ExtKey
  BY DEF Ext

LEMMA OverExtShape ==
  ASSUME Shape, NEW p, DOMAIN p \subseteq DOMAIN row
  PROVE  DOMAIN Over(p, Ext(row)) \subseteq DOMAIN row
<1>1. DOMAIN Over(p, Ext(row)) = DOMAIN p \cup DOMAIN Ext(row)
  BY OverShape
<1>2. DOMAIN Ext(row) \subseteq DOMAIN row
  BY ExtShape DEF Shape, ExtKey
<1> QED BY <1>1, <1>2

LEMMA PatchShapes ==
  ASSUME Shape
  PROVE  /\ \A k \in Outcome : DOMAIN PatchOf(k, row) \subseteq DOMAIN row
         /\ DOMAIN DisablePatch(row) \subseteq DOMAIN row
         /\ "status" \in DOMAIN DisablePatch(row)
         /\ DisablePatch(row).status = "disabled"
<1>1. DOMAIN SuccessPatch(row) \subseteq DOMAIN row
  BY DEF SuccessPatch, Shape
<1>2. DOMAIN RateLimitedPatch(row) \subseteq DOMAIN row
  <2> DEFINE n == NewCount(row)
             common == [remaining |-> 0,
                        reset     |-> IF row.reset = 0 THEN now + Window ELSE row.reset,
                        until     |-> now + RateCooling, count |-> n, last429 |-> now]
             fate == IF n >= Limit
                     THEN [status |-> "expired", reason |-> "threshold", expiredAt |-> now]
                     ELSE [status |-> "cooling", reason |-> "rate_limited"]
  <2>1. DOMAIN common \subseteq DOMAIN row
    BY DEF Shape
  <2>2. DOMAIN fate \subseteq DOMAIN row
    BY DEF Shape
  <2>3. DOMAIN Over(common, Ext(row)) \subseteq DOMAIN row
    <3> HIDE DEF common
    <3> QED BY <2>1, OverExtShape
  <2>4. DOMAIN Over(fate, Over(common, Ext(row))) \subseteq DOMAIN row
    <3> HIDE DEF common, fate
    <3> QED BY <2>2, <2>3, OverShape
  <2> QED BY <2>4 DEF RateLimitedPatch
<1>3. DOMAIN ForbiddenPatch(row) \subseteq DOMAIN row
  <2> DEFINE p == [status |-> "cooling", reason |-> "forbidden",
                   until |-> now + ForbiddenCooling]
  <2>1. DOMAIN p \subseteq DOMAIN row
    BY DEF Shape
  <2> HIDE DEF p
  <2>2. DOMAIN Over(p, Ext(row)) \subseteq DOMAIN row
    BY <2>1, OverExtShape
  <2> QED BY <2>2 DEF ForbiddenPatch, p
<1>4. DOMAIN UnauthorizedPatch(row) \subseteq DOMAIN row
  <2> DEFINE p == [status |-> "expired", reason |-> "invalid", expiredAt |-> now]
  <2>1. DOMAIN p \subseteq DOMAIN row
    BY DEF Shape
  <2> HIDE DEF p
  <2>2. DOMAIN Over(p, Ext(row)) \subseteq DOMAIN row
    BY <2>1, OverExtShape
  <2> QED BY <2>2 DEF UnauthorizedPatch, p
<1>5. /\ DOMAIN DisablePatch(row) \subseteq DOMAIN row
      /\ "status" \in DOMAIN DisablePatch(row)
      /\ DisablePatch(row).status = "disabled"
  <2> DEFINE p == [status |-> "disabled", reason |-> "operator"]
  <2>1. DOMAIN p \subseteq DOMAIN row /\ "status" \in DOMAIN p /\ p.status = "disabled"
    BY DEF Shape
  <2> HIDE DEF p
  <2>2. DOMAIN Over(p, Ext(row)) \subseteq DOMAIN row
    BY <2>1, OverExtShape
  <2>3. "status" \in DOMAIN Over(p, Ext(row)) /\ Over(p, Ext(row)).status = "disabled"
    BY <2>1, OverShape
  <2> QED BY <2>2, <2>3 DEF DisablePatch, p
<1>6. ASSUME NEW k \in Outcome PROVE DOMAIN PatchOf(k, row) \subseteq DOMAIN row
  BY <1>1, <1>2, <1>3, <1>4, <1>6 DEF PatchOf, Outcome
<1> QED BY <1>5, <1>6

(* The row after a patch was applied. *)
LEMMA Written ==
  ASSUME ReviveInv, NEW a \in Actor, Write(a)
  PROVE  /\ DOMAIN row' = DOMAIN row
         /\ \A f \in DOMAIN row \ {"uses"} :
              row'[f] = IF f \in DOMAIN patch[a] THEN patch[a][f] ELSE row[f]
<1>1. DOMAIN Over(patch[a], row) = DOMAIN row
  <2>1. DOMAIN patch[a] \subseteq DOMAIN row
    BY DEF ReviveInv, PatchShape, Write
  <2>2. DOMAIN Over(patch[a], row) = DOMAIN patch[a] \cup DOMAIN row
    BY OverShape
  <2> QED BY <2>1, <2>2
<1>2. \A f \in DOMAIN row : Over(patch[a], row)[f] =
         IF f \in DOMAIN patch[a] THEN patch[a][f] ELSE row[f]
  BY DEF Over
<1>3. row' = [Over(patch[a], row) EXCEPT !.uses =
                IF IsUse(patch[a]) THEN Min2(@ + 1, MinUses + 1) ELSE @]
  BY DEF Write
<1> QED BY <1>1, <1>2, <1>3

LEMMA WrittenStatus ==
  ASSUME ReviveInv, NEW a \in Actor, Write(a)
  PROVE  /\ row'.status = IF "status" \in DOMAIN patch[a] THEN patch[a].status
                          ELSE row.status
         /\ row'.reason = IF "reason" \in DOMAIN patch[a] THEN patch[a].reason
                          ELSE row.reason
  BY Written DEF ReviveInv, Shape

(* A worker's table after a sync does not list an account out of service. *)
LEMMA ShownOut ==
  ASSUME OutOfService(row) PROVE ~Shown(row).listed
  BY DEF OutOfService, Shown

(* Each step keeps the invariant, and only Restore revives an account that   *)
(* every worker knows to be out of service.                                  *)
LEMMA ReviveStep ==
  ASSUME ReviveInv, [Next]_vars, DOMAIN view = Call
  PROVE  ReviveInv' /\ (SettledOut => SettledOut' \/ Restore)
<1> DEFINE Kept == SettledOut => SettledOut' \/ Restore
<1> USE DEF ReviveInv
<1>1. ASSUME NEW c \in Call, Start(c)
      PROVE  ReviveInv' /\ Kept
  <2>1. ~SettledOut
    BY <1>1 DEF Start, Ready, SettledOut
  <2>2. pc' = [pc EXCEPT ![c] = "calling"] /\ UNCHANGED <<row, patch>> /\ c # Operator
    BY <1>1, TaskAssumption DEF Start
  <2> QED BY <2>1, <2>2 DEF Shape, DisablePending, PatchShape, Actor
<1>2. ASSUME NEW c \in Call, Sync(c)
      PROVE  ReviveInv' /\ Kept
  <2>1. view' = [view EXCEPT ![c] = Shown(row)] /\ UNCHANGED <<row, pc, patch>>
    BY <1>2 DEF Sync
  <2>2. Kept
    BY <2>1, ShownOut DEF SettledOut, OutOfService
  <2> QED BY <2>1, <2>2 DEF Shape, DisablePending, PatchShape
<1>3. ASSUME NEW c \in Call, NEW k \in Outcome, Read(c, k)
      PROVE  ReviveInv' /\ Kept
  <2>1. /\ pc[c] = "calling" /\ c # Operator /\ c \in Actor
        /\ pc' = [pc EXCEPT ![c] = "write"]
        /\ patch' = [patch EXCEPT ![c] = PatchOf(k, row)]
        /\ row' = row
    BY <1>3, TaskAssumption DEF Read, Actor
  <2>2. Shape' /\ DisablePending'
    BY <2>1 DEF Shape, DisablePending, Actor
  <2>3. ~SettledOut
    BY <2>1 DEF SettledOut
  <2>4. PatchShape'
    BY <2>1, PatchShapes DEF PatchShape, Shape
  <2> QED BY <2>2, <2>3, <2>4
<1>4. ASSUME NEW c \in Call, CallFails(c) \/ WriteFails(c)
      PROVE  ReviveInv' /\ Kept
  <2>1. /\ pc' = [pc EXCEPT ![c] = "idle"] /\ c \in Actor /\ c # Operator
        /\ patch' = patch \/ patch' = [patch EXCEPT ![c] = NoPatch]
        /\ UNCHANGED row /\ pc[c] # "idle"
    BY <1>4, TaskAssumption DEF CallFails, WriteFails, Actor
  <2>2. ~SettledOut
    BY <2>1 DEF SettledOut
  <2>3. /\ DOMAIN patch' = Actor /\ pc'[c] = "idle"
        /\ \A b \in Actor : b # c => pc'[b] = pc[b] /\ patch'[b] = patch[b]
    BY <2>1 DEF Shape
  <2>4. Shape'
    BY <2>1, <2>3 DEF Shape
  <2>5. DisablePending'
    BY <2>1, <2>3 DEF DisablePending, Actor
  <2>6. PatchShape'
    BY <2>1, <2>3 DEF PatchShape
  <2> QED BY <2>2, <2>4, <2>5, <2>6
<1>5. ASSUME ReadForDisable
      PROVE  ReviveInv' /\ Kept
  <2>1. /\ UNCHANGED <<row, view>>
        /\ pc' = [pc EXCEPT ![Operator] = "write"]
        /\ patch' = [patch EXCEPT ![Operator] = DisablePatch(row)]
    BY <1>5 DEF ReadForDisable, tables
  <2>2. Shape'
    BY <2>1 DEF Shape, Actor
  <2>3. Kept
    BY <2>1, TaskAssumption DEF SettledOut, Actor, Shape, OutOfService
  <2>4. DisablePending' /\ PatchShape'
    BY <2>1, PatchShapes DEF DisablePending, PatchShape, Actor, Shape
  <2> QED BY <2>2, <2>3, <2>4
<1>6. ASSUME NEW a \in Actor, Write(a)
      PROVE  ReviveInv' /\ Kept
  <2>1. /\ pc[a] = "write" /\ view' = view
        /\ pc' = [pc EXCEPT ![a] = "idle"]
        /\ patch' = [patch EXCEPT ![a] = NoPatch]
    BY <1>6 DEF Write
  <2>2. DOMAIN row' = DOMAIN row
    BY <1>6, Written
  <2>3. Shape' /\ DisablePending' /\ PatchShape'
    BY <2>1, <2>2 DEF Shape, DisablePending, PatchShape, Actor
  <2>4. Kept
    <3>1. CASE a = Operator
      <4>1. OutOfService(row')
        BY <1>6, <2>1, <3>1, WrittenStatus DEF DisablePending, OutOfService
      <4>2. \A c \in Call : pc'[c] = pc[c]
        BY <2>1, <3>1, TaskAssumption DEF Shape, Actor
      <4> QED BY <2>1, <4>1, <4>2 DEF SettledOut
    <3>2. CASE a # Operator
      BY <2>1, <3>2 DEF SettledOut, Actor
    <3> QED BY <3>1, <3>2
  <2> QED BY <2>3, <2>4
<1>7. ASSUME Restore
      PROVE  ReviveInv' /\ Kept
  <2>1. /\ row' = [row EXCEPT !.status = "active", !.reason = "none",
                              !.until = 0, !.expiredAt = 0, !.count = 0]
        /\ UNCHANGED <<pc, patch>>
    BY <1>7 DEF Restore
  <2>2. DOMAIN row' = DOMAIN row
    BY <2>1 DEF Shape
  <2> QED BY <1>7, <2>1, <2>2 DEF Shape, DisablePending, PatchShape
<1>8. ASSUME ResetConsole \/ Recover
      PROVE  ReviveInv' /\ Kept
  <2>1. ~SettledOut /\ UNCHANGED <<pc, patch>>
    BY <1>8 DEF ResetConsole, ConsoleDue, Recover, Recoverable, OutOfService, SettledOut
  <2>2. DOMAIN row' = DOMAIN row
    BY <1>8 DEF ResetConsole, Recover, Shape
  <2> QED BY <2>1, <2>2 DEF Shape, DisablePending, PatchShape
<1>9. ASSUME Tick \/ UNCHANGED vars
      PROVE  ReviveInv' /\ Kept
  <2>1. UNCHANGED <<row, view, pc, patch>>
    BY <1>9 DEF Tick, vars, tables
  <2> QED BY <2>1 DEF Shape, DisablePending, PatchShape, OutOfService, SettledOut
<1> QED BY <1>1, <1>2, <1>3, <1>4, <1>5, <1>6, <1>7, <1>8, <1>9 DEF Next, CallStep

LEMMA ReviveInit == Init => ReviveInv /\ DOMAIN view = Call
<1> SUFFICES ASSUME Init PROVE ReviveInv /\ DOMAIN view = Call
  OBVIOUS
<1>1. /\ pc = [a \in Actor |-> "idle"] /\ DOMAIN patch = Actor /\ DOMAIN view = Call
      /\ {"status", "reason", "remaining", "reset", "uses", "until", "expiredAt", "count",
          "last429"} = DOMAIN row
  BY DEF Init
<1> QED BY <1>1 DEF ReviveInv, Shape, DisablePending, PatchShape, Actor

LEMMA ViewDomain ==
  ASSUME DOMAIN view = Call, [Next]_vars PROVE DOMAIN view' = Call
  BY DEF Next, CallStep, Start, Sync, Read, CallFails, WriteFails, ReadForDisable, Write,
         Restore, ResetConsole, Recover, Tick, vars, tables

(* Only the operator's restore brings back an account that was disabled, or  *)
(* whose credentials the upstream refused, once every worker has synced and  *)
(* the calls leased before have ended.                                       *)
THEOREM OperatorAloneRevives == Spec => OnlyOperatorRevives
<1> DEFINE I == ReviveInv /\ DOMAIN view = Call
<1>1. I /\ [Next]_vars => I'
  BY ReviveStep, ViewDomain
<1>2. I /\ [Next]_vars => [SettledOut => SettledOut' \/ Restore]_vars
  BY ReviveStep
<1>3. Init => I
  BY ReviveInit
<1> QED BY <1>1, <1>2, <1>3, PTL DEF Spec, OnlyOperatorRevives

-----------------------------------------------------------------------------
(* The quota columns and the history of the successes. *)
QuotaShape ==
  /\ now \in Nat /\ row.remaining \in 0..Total /\ row.reset \in Nat /\ spent \in Nat
  /\ usesLost \in BOOLEAN

(* What the patch of a success that was built from this row says of it ...   *)
UseFits(p) ==
  \/ p.remaining = 0
  \/ WindowOver(row) /\ p.remaining = Total - 1
  \/ ~WindowOver(row) /\ row.remaining > 0 /\ p.remaining = row.remaining - 1

(* ... and any patch that is about to be applied, of the quota's columns.    *)
UseShape(p) ==
  /\ {"remaining", "reset"} \subseteq DOMAIN p
  /\ p.remaining \in 0..Total /\ p.reset \in Nat

HitFits(p) ==
  /\ {"remaining", "reset"} \subseteq DOMAIN p
  /\ p.remaining = 0 /\ p.reset \in Nat

PatchFits(p) ==
  \/ IsUse(p) /\ UseShape(p)
  \/ ~IsUse(p) /\ HitFits(p)
  \/ ~IsUse(p) /\ "remaining" \notin DOMAIN p /\ "reset" \notin DOMAIN p

PatchesFit == \A a \in Actor : pc[a] = "write" => PatchFits(patch[a])

QuotaInv == ReviveInv /\ QuotaShape /\ PatchesFit /\ QuotaAccounted

LEMMA ExtQuota ==
  ASSUME NEW r PROVE "remaining" \notin DOMAIN Ext(r) /\ "reset" \notin DOMAIN Ext(r)
  BY DEF Ext, ExtKey

LEMMA OverKeepsOut ==
  ASSUME NEW p, "remaining" \notin DOMAIN p, "reset" \notin DOMAIN p, "status" \in DOMAIN p
  PROVE  PatchFits(Over(p, Ext(row)))
<1>1. DOMAIN Over(p, Ext(row)) = DOMAIN p \cup DOMAIN Ext(row)
  BY OverShape
<1> QED BY <1>1, ExtQuota DEF PatchFits, IsUse

LEMMA NewPatchFits ==
  ASSUME Shape, QuotaShape
  PROVE  /\ \A k \in Outcome : PatchFits(PatchOf(k, row))
         /\ PatchFits(DisablePatch(row))
         /\ UseFits(SuccessPatch(row))
<1>1. PatchFits(SuccessPatch(row)) /\ UseFits(SuccessPatch(row))
  <2> DEFINE p == SuccessPatch(row)
  <2>1. "status" \notin DOMAIN p /\ {"remaining", "reset"} \subseteq DOMAIN p
    BY DEF SuccessPatch
  <2>2. CASE WindowOver(row)
    <3>1. p.remaining = Total - 1 /\ p.reset = 0
      BY <2>2 DEF SuccessPatch
    <3> QED BY <2>1, <2>2, <3>1, NumberAssumption DEF PatchFits, UseShape, UseFits, IsUse, QuotaShape
  <2>3. CASE ~WindowOver(row)
    <3>1. /\ p.remaining = IF row.remaining = 0 THEN 0 ELSE row.remaining - 1
          /\ p.reset = now + Window \/ p.reset = row.reset
      BY <2>3 DEF SuccessPatch
    <3>2. /\ p.remaining \in 0..Total /\ p.reset \in Nat
          /\ p.remaining = 0 \/ (row.remaining > 0 /\ p.remaining = row.remaining - 1)
      BY <3>1, NumberAssumption DEF QuotaShape
    <3> QED BY <2>1, <2>3, <3>2 DEF PatchFits, UseShape, UseFits, IsUse
  <2> QED BY <2>2, <2>3
<1>2. PatchFits(RateLimitedPatch(row))
  <2> DEFINE n == NewCount(row)
             later == IF row.reset = 0 THEN now + Window ELSE row.reset
             common == [remaining |-> 0, reset |-> later,
                        until     |-> now + RateCooling, count |-> n, last429 |-> now]
             fate == IF n >= Limit
                     THEN [status |-> "expired", reason |-> "threshold", expiredAt |-> now]
                     ELSE [status |-> "cooling", reason |-> "rate_limited"]
             rest == Over(common, Ext(row))
  <2>1. later \in Nat
    BY NumberAssumption DEF QuotaShape
  <2> HIDE DEF later
  <2>2. {"remaining", "reset"} \subseteq DOMAIN common
        /\ common.remaining = 0 /\ common.reset = later
    OBVIOUS
  <2>3. "status" \in DOMAIN fate /\ "remaining" \notin DOMAIN fate /\ "reset" \notin DOMAIN fate
    OBVIOUS
  <2> HIDE DEF common, fate
  <2>4. {"remaining", "reset"} \subseteq DOMAIN rest
        /\ rest.remaining = 0 /\ rest.reset = later
    BY <2>2 DEF Over
  <2> HIDE DEF rest
  <2>5. /\ {"remaining", "reset", "status"} \subseteq DOMAIN Over(fate, rest)
        /\ Over(fate, rest).remaining = 0 /\ Over(fate, rest).reset = later
    BY <2>3, <2>4 DEF Over
  <2>6. PatchFits(Over(fate, rest))
    BY <2>1, <2>5 DEF PatchFits, HitFits, IsUse
  <2> QED BY <2>6 DEF RateLimitedPatch, fate, rest, common, later
<1>3. PatchFits(ForbiddenPatch(row))
  BY OverKeepsOut DEF ForbiddenPatch
<1>4. PatchFits(UnauthorizedPatch(row))
  BY OverKeepsOut DEF UnauthorizedPatch
<1>5. PatchFits(DisablePatch(row))
  BY OverKeepsOut DEF DisablePatch
<1>6. ASSUME NEW k \in Outcome PROVE PatchFits(PatchOf(k, row))
  BY <1>1, <1>2, <1>3, <1>4, <1>6 DEF PatchOf, Outcome
<1> QED BY <1>1, <1>5, <1>6

(* What the patch of a 429 says. *)
LEMMA HitPatchIs ==
  LET p == RateLimitedPatch(row)
  IN  /\ {"remaining", "count", "last429", "status"} \subseteq DOMAIN p
      /\ p.count = NewCount(row) /\ p.last429 = now
      /\ NewCount(row) >= Limit => p.status = "expired"
<1> DEFINE n == NewCount(row)
           later == IF row.reset = 0 THEN now + Window ELSE row.reset
           common == [remaining |-> 0, reset |-> later,
                      until     |-> now + RateCooling, count |-> n, last429 |-> now]
           fate == IF n >= Limit
                   THEN [status |-> "expired", reason |-> "threshold", expiredAt |-> now]
                   ELSE [status |-> "cooling", reason |-> "rate_limited"]
           rest == Over(common, Ext(row))
<1> HIDE DEF n, later
<1>1. /\ {"remaining", "count", "last429"} \subseteq DOMAIN common
      /\ common.count = n /\ common.last429 = now
  OBVIOUS
<1>2. /\ "status" \in DOMAIN fate /\ DOMAIN fate \cap {"remaining", "count", "last429"} = {}
      /\ n >= Limit => fate.status = "expired"
  OBVIOUS
<1> HIDE DEF common, fate
<1>3. {"remaining", "count", "last429"} \subseteq DOMAIN rest /\ rest.count = n /\ rest.last429 = now
  BY <1>1 DEF Over
<1> HIDE DEF rest
<1>4. /\ {"remaining", "count", "last429", "status"} \subseteq DOMAIN Over(fate, rest)
      /\ Over(fate, rest).count = n /\ Over(fate, rest).last429 = now
      /\ n >= Limit => Over(fate, rest).status = "expired"
  BY <1>2, <1>3 DEF Over
<1>5. RateLimitedPatch(row) = Over(fate, rest)
  BY DEF RateLimitedPatch, fate, rest, common, later, n
<1> QED BY <1>4, <1>5 DEF n

(* Every patch but a success's names a status. *)
LEMMA NamesStatus ==
  ASSUME NEW p, p \in {PatchOf(k, row) : k \in Outcome} \cup {DisablePatch(row)}, IsUse(p)
  PROVE  p = SuccessPatch(row)
<1>1. \A q : DOMAIN Over(q, Ext(row)) = DOMAIN q \cup DOMAIN Ext(row)
  BY OverShape
<1>2. "status" \in DOMAIN ForbiddenPatch(row)
  <2> DEFINE q == [status |-> "cooling", reason |-> "forbidden",
                   until |-> now + ForbiddenCooling]
  <2>1. "status" \in DOMAIN q
    OBVIOUS
  <2> HIDE DEF q
  <2> QED BY <1>1, <2>1 DEF ForbiddenPatch, q
<1>3. "status" \in DOMAIN UnauthorizedPatch(row)
  <2> DEFINE q == [status |-> "expired", reason |-> "invalid", expiredAt |-> now]
  <2>1. "status" \in DOMAIN q
    OBVIOUS
  <2> HIDE DEF q
  <2> QED BY <1>1, <2>1 DEF UnauthorizedPatch, q
<1>4. "status" \in DOMAIN DisablePatch(row)
  <2> DEFINE q == [status |-> "disabled", reason |-> "operator"]
  <2>1. "status" \in DOMAIN q
    OBVIOUS
  <2> HIDE DEF q
  <2> QED BY <1>1, <2>1 DEF DisablePatch, q
<1>5. "status" \in DOMAIN RateLimitedPatch(row)
  BY HitPatchIs
<1>6. CASE p = DisablePatch(row)
  BY <1>4, <1>6 DEF IsUse
<1>7. CASE \E k \in Outcome : p = PatchOf(k, row)
  <2>1. PICK k \in Outcome : p = PatchOf(k, row)
    BY <1>7
  <2> QED BY <1>2, <1>3, <1>5, <2>1 DEF PatchOf, Outcome, IsUse
<1> QED BY <1>6, <1>7

(* The history follows the column when a patch is applied. *)
LEMMA QuotaWritten ==
  ASSUME QuotaInv, NEW a \in Actor, Write(a)
  PROVE  QuotaShape' /\ QuotaAccounted'
<1> DEFINE p == patch[a]
<1>1. PatchFits(p)
  BY DEF QuotaInv, PatchesFit, Write
<1>2. /\ row'.remaining = IF "remaining" \in DOMAIN p THEN p.remaining ELSE row.remaining
      /\ row'.reset = IF "reset" \in DOMAIN p THEN p.reset ELSE row.reset
  BY Written DEF QuotaInv, ReviveInv, Shape
<1>3. /\ now' = now
      /\ spent' = IF ~IsUse(p) THEN spent
                  ELSE IF WindowOver(row) THEN 1
                  ELSE IF row.remaining > 0 THEN spent + 1 ELSE spent
      /\ usesLost' = IF ~IsUse(p) THEN usesLost
                     ELSE Outdated(p) \/ (usesLost /\ ~WindowOver(row))
  BY DEF Write
<1>4. /\ now \in Nat /\ row.remaining \in 0..Total /\ row.reset \in Nat /\ spent \in Nat
      /\ usesLost \in BOOLEAN
      /\ (row.remaining > 0 /\ ~usesLost) => row.remaining + spent = Total
  BY DEF QuotaInv, QuotaShape, QuotaAccounted
<1>5. IsUse(p) /\ ~Outdated(p) => UseFits(p)
  BY NamesStatus, NewPatchFits DEF Outdated, QuotaInv, ReviveInv
<1>6. Outdated(p) \in BOOLEAN /\ WindowOver(row) \in BOOLEAN
  BY DEF Outdated, WindowOver
<1> DEFINE o == Outdated(p)
           w == WindowOver(row)
<1> HIDE DEF p
<1>7. CASE IsUse(p) /\ UseShape(p)
  <2>1. /\ row'.remaining = p.remaining /\ row'.reset = p.reset
        /\ p.remaining \in 0..Total /\ p.reset \in Nat
        /\ spent' = IF w THEN 1 ELSE IF row.remaining > 0 THEN spent + 1 ELSE spent
        /\ usesLost' = (o \/ (usesLost /\ ~w))
        /\ o \in BOOLEAN /\ w \in BOOLEAN
    BY <1>2, <1>3, <1>6, <1>7 DEF UseShape
  <2>2. ~o => \/ p.remaining = 0
              \/ w /\ p.remaining = Total - 1
              \/ ~w /\ row.remaining > 0 /\ p.remaining = row.remaining - 1
    BY <1>5, <1>7 DEF UseFits
  <2> HIDE DEF o, w
  <2>3. QuotaShape'
    BY <1>3, <1>4, <2>1 DEF QuotaShape
  <2>4. QuotaAccounted'
    BY <1>4, <2>1, <2>2, NumberAssumption DEF QuotaAccounted
  <2> QED BY <2>3, <2>4
<1>8. CASE ~IsUse(p) /\ HitFits(p)
  BY <1>2, <1>3, <1>4, <1>8, NumberAssumption DEF HitFits, QuotaShape, QuotaAccounted
<1>9. CASE ~IsUse(p) /\ "remaining" \notin DOMAIN p /\ "reset" \notin DOMAIN p
  BY <1>2, <1>3, <1>4, <1>9 DEF QuotaShape, QuotaAccounted
<1> QED BY <1>1, <1>7, <1>8, <1>9 DEF PatchFits

LEMMA QuotaStep ==
  ASSUME QuotaInv, DOMAIN view = Call, [Next]_vars
  PROVE  QuotaInv'
<1>1. ReviveInv'
  BY ReviveStep DEF QuotaInv
<1> SUFFICES QuotaShape' /\ PatchesFit' /\ QuotaAccounted'
  BY <1>1 DEF QuotaInv
<1> USE DEF QuotaInv
<1>2. ASSUME UNCHANGED <<now, row, spent, usesLost>>,
             \A a \in Actor : pc'[a] = "write" => PatchFits(patch'[a])
      PROVE  QuotaShape' /\ PatchesFit' /\ QuotaAccounted'
  BY <1>2 DEF QuotaShape, PatchesFit, PatchFits, UseShape, HitFits, IsUse, QuotaAccounted
<1>3. ASSUME NEW c \in Call, Start(c) \/ CallFails(c) \/ Sync(c)
      PROVE  QuotaShape' /\ PatchesFit' /\ QuotaAccounted'
  <2>1. /\ UNCHANGED <<now, row, patch, spent, usesLost>>
        /\ \A a \in Actor : pc'[a] = "write" => pc[a] = "write"
    BY <1>3 DEF Start, CallFails, Sync, history, ReviveInv, Shape, Actor
  <2> QED BY <1>2, <2>1 DEF PatchesFit
<1>4. ASSUME NEW a \in Actor, NEW q, PatchFits(q), UNCHANGED <<now, row, spent, usesLost>>,
             pc' = [pc EXCEPT ![a] = "write"], patch' = [patch EXCEPT ![a] = q]
      PROVE  QuotaShape' /\ PatchesFit' /\ QuotaAccounted'
  <2>1. \A b \in Actor : pc'[b] = "write" => PatchFits(patch'[b])
    BY <1>4 DEF PatchesFit, ReviveInv, Shape
  <2> QED BY <1>2, <1>4, <2>1
<1>5. ASSUME NEW c \in Call, NEW k \in Outcome, Read(c, k)
      PROVE  QuotaShape' /\ PatchesFit' /\ QuotaAccounted'
  <2>1. PatchFits(PatchOf(k, row))
    BY NewPatchFits DEF ReviveInv
  <2> QED BY <1>4, <1>5, <2>1 DEF Read, history, Actor
<1>6. ASSUME ReadForDisable
      PROVE  QuotaShape' /\ PatchesFit' /\ QuotaAccounted'
  <2>1. PatchFits(DisablePatch(row))
    BY NewPatchFits DEF ReviveInv
  <2> QED BY <1>4, <1>6, <2>1 DEF ReadForDisable, history, Actor
<1>7. ASSUME NEW a \in Actor, Write(a)
      PROVE  QuotaShape' /\ PatchesFit' /\ QuotaAccounted'
  <2>1. \A b \in Actor : pc'[b] = "write" => pc[b] = "write" /\ patch'[b] = patch[b]
    BY <1>7 DEF Write, ReviveInv, Shape
  <2>2. PatchesFit'
    BY <2>1 DEF PatchesFit, PatchFits, UseShape, HitFits, IsUse
  <2> QED BY <1>7, <2>2, QuotaWritten
<1>8. ASSUME NEW c \in Call, WriteFails(c)
      PROVE  QuotaShape' /\ PatchesFit' /\ QuotaAccounted'
  <2>1. /\ UNCHANGED <<now, row, spent>>
        /\ usesLost' \in BOOLEAN /\ (usesLost => usesLost')
        /\ \A b \in Actor : pc'[b] = "write" => pc[b] = "write" /\ patch'[b] = patch[b]
    BY <1>8 DEF WriteFails, ReviveInv, Shape, QuotaShape, IsUse, Actor
  <2>2. PatchesFit'
    BY <2>1 DEF PatchesFit, PatchFits, UseShape, HitFits, IsUse
  <2> QED BY <2>1, <2>2 DEF QuotaShape, QuotaAccounted
<1>9. ASSUME Restore \/ Recover
      PROVE  QuotaShape' /\ PatchesFit' /\ QuotaAccounted'
  <2>1. row'.remaining = row.remaining /\ row'.reset = row.reset
    BY <1>9 DEF Restore, Recover, ReviveInv, Shape
  <2>2. UNCHANGED <<now, pc, patch, spent, usesLost>>
    BY <1>9 DEF Restore, Recover
  <2>3. PatchesFit'
    BY <2>2 DEF PatchesFit, PatchFits, UseShape, HitFits, IsUse
  <2> QED BY <2>1, <2>2, <2>3 DEF QuotaShape, QuotaAccounted
<1>10. ASSUME ResetConsole
       PROVE  QuotaShape' /\ PatchesFit' /\ QuotaAccounted'
  <2>1. /\ row'.remaining = Total /\ row'.reset = 0 /\ spent' = 0 /\ usesLost' = FALSE
        /\ UNCHANGED <<now, pc, patch>>
    BY <1>10 DEF ResetConsole, ReviveInv, Shape
  <2>2. PatchesFit'
    BY <2>1 DEF PatchesFit, PatchFits, UseShape, HitFits, IsUse
  <2>3. usesLost' \in BOOLEAN
    BY <2>1
  <2> QED BY <2>1, <2>2, <2>3, NumberAssumption DEF QuotaShape, QuotaAccounted
<1>11. ASSUME Tick \/ UNCHANGED vars
       PROVE  QuotaShape' /\ PatchesFit' /\ QuotaAccounted'
  <2>1. now' \in Nat /\ UNCHANGED <<row, pc, patch, spent, usesLost>>
    BY <1>11 DEF Tick, vars, history, QuotaShape
  <2>2. PatchesFit'
    BY <2>1 DEF PatchesFit, PatchFits, UseShape, HitFits, IsUse
  <2> QED BY <2>1, <2>2 DEF QuotaShape, QuotaAccounted
<1> QED BY <1>3, <1>5, <1>6, <1>7, <1>8, <1>9, <1>10, <1>11 DEF Next, CallStep

(* The console window counts every success, through concurrent calls,        *)
(* patrols, cooldowns, recoveries and edits; what overlapping tasks or the   *)
(* store lost is not missed beyond the window in which they lost it.         *)
THEOREM ConsoleQuotaAccounted == Spec => []QuotaAccounted
<1> DEFINE I == QuotaInv /\ DOMAIN view = Call
<1>1. Init => I
  <2> SUFFICES ASSUME Init PROVE I
    OBVIOUS
  <2>1. usesLost \in BOOLEAN /\ PatchesFit
    BY DEF Init, PatchesFit
  <2>2. now = 1 /\ row.remaining = Total /\ row.reset = 0 /\ spent = 0
    BY DEF Init
  <2>3. QuotaShape /\ QuotaAccounted
    BY <2>1, <2>2, NumberAssumption DEF QuotaShape, QuotaAccounted
  <2> QED BY <2>1, <2>3, ReviveInit DEF QuotaInv
<1>2. I /\ [Next]_vars => I'
  BY QuotaStep, ViewDomain
<1>3. I => QuotaAccounted
  BY DEF QuotaInv
<1> QED BY <1>1, <1>2, <1>3, PTL DEF Spec

-----------------------------------------------------------------------------
(* Repeated 429s *)

(* The 429s remembered, oldest first. *)
HitsShape ==
  /\ now \in Nat /\ hits \in Seq(Nat) /\ Len(hits) <= Limit
  /\ row.count \in Nat /\ row.last429 \in Nat /\ hitsLost \in BOOLEAN
  /\ \A i \in 1..Len(hits) : hits[i] <= now
  /\ \A i \in 1..Len(hits), j \in 1..Len(hits) : i <= j => hits[i] <= hits[j]

(* The row knows the last of them and counts at least those that lie within  *)
(* the sliding window of the last, while nothing was lost.                   *)
RowCounts ==
  hits # <<>> =>
    /\ row.last429 = hits[Len(hits)]
    /\ \A i \in 1..Len(hits) : hits[Len(hits)] - hits[i] <= Sliding => row.count >= Len(hits) - i + 1

(* The patch of a 429 that was built from this row counts them and itself ... *)
HitCounts(p) ==
  /\ {"count", "last429", "status"} \subseteq DOMAIN p
  /\ p.count \in Nat /\ p.count >= 1 /\ p.last429 = now
  /\ p.count >= Limit => p.status = "expired"
  /\ \A i \in 1..Len(hits) : now - hits[i] <= Sliding => p.count >= Len(hits) - i + 2

(* ... and any other such patch repeats what the row says.                   *)
OtherCounts(p) ==
  /\ "count" \in DOMAIN p => p.count \in Nat /\ (hits # <<>> => p.count = row.count)
  /\ "last429" \in DOMAIN p => p.last429 \in Nat /\ (hits # <<>> => p.last429 = row.last429)

PatchCounts(p) == IF IsHit(p) THEN HitCounts(p) ELSE OtherCounts(p)

(* What any patch that is about to be applied may say of the counter.        *)
CountShape(p) ==
  /\ "count" \in DOMAIN p => p.count \in Nat
  /\ "last429" \in DOMAIN p => p.last429 \in Nat
  /\ IsUse(p) => {"count", "last429"} \cap DOMAIN p = {}
  /\ IsHit(p) => {"count", "last429"} \subseteq DOMAIN p /\ p.last429 = now

PatchesCount == \A a \in Actor : pc[a] = "write" => CountShape(patch[a])

LimitInv == ReviveInv /\ HitsShape /\ (~hitsLost => RowCounts) /\ PatchesCount

(* The patches of the other outcomes and of the operator repeat the counter. *)
LEMMA ExtCounts ==
  ASSUME HitsShape, NEW p, {"count", "last429", "remaining"} \cap DOMAIN p = {},
         "status" \in DOMAIN p
  PROVE  /\ OtherCounts(Over(p, Ext(row))) /\ ~IsHit(Over(p, Ext(row)))
         /\ CountShape(Over(p, Ext(row)))
<1>1. /\ DOMAIN Over(p, Ext(row)) = DOMAIN p \cup DOMAIN Ext(row)
      /\ \A f \in DOMAIN Ext(row) \ DOMAIN p : Over(p, Ext(row))[f] = Ext(row)[f]
  BY OverShape
<1>2. \A f \in DOMAIN Ext(row) : Ext(row)[f] = row[f]
  BY DEF Ext
<1>3. OtherCounts(Over(p, Ext(row)))
  BY <1>1, <1>2 DEF OtherCounts, HitsShape
<1>4. "remaining" \notin DOMAIN Over(p, Ext(row))
  BY <1>1, ExtQuota
<1>5. "status" \in DOMAIN Over(p, Ext(row))
  BY <1>1
<1> QED BY <1>3, <1>4, <1>5 DEF IsHit, IsUse, CountShape, OtherCounts

(* A new patch has the shape, whatever was lost ... *)
LEMMA NewCountShape ==
  ASSUME HitsShape
  PROVE  /\ \A k \in Outcome : CountShape(PatchOf(k, row))
         /\ CountShape(DisablePatch(row))
<1>1. CountShape(SuccessPatch(row))
  <2>1. DOMAIN SuccessPatch(row) = {"remaining", "reset"}
    BY DEF SuccessPatch
  <2> QED BY <2>1 DEF CountShape, IsHit, IsUse
<1>2. CountShape(RateLimitedPatch(row))
  <2> DEFINE p == RateLimitedPatch(row)
  <2>1. /\ {"remaining", "count", "last429", "status"} \subseteq DOMAIN p
        /\ p.count = NewCount(row) /\ p.last429 = now
    BY HitPatchIs
  <2>2. NewCount(row) \in Nat /\ now \in Nat
    BY DEF NewCount, HitsShape
  <2> HIDE DEF p
  <2>3. CountShape(p)
    BY <2>1, <2>2 DEF CountShape, IsUse
  <2> QED BY <2>3 DEF p
<1>3. CountShape(ForbiddenPatch(row))
  BY ExtCounts DEF ForbiddenPatch
<1>4. CountShape(UnauthorizedPatch(row))
  BY ExtCounts DEF UnauthorizedPatch
<1>5. CountShape(DisablePatch(row))
  BY ExtCounts DEF DisablePatch
<1>6. ASSUME NEW k \in Outcome PROVE CountShape(PatchOf(k, row))
  BY <1>1, <1>2, <1>3, <1>4, <1>6 DEF PatchOf, Outcome
<1> QED BY <1>5, <1>6

(* ... and counts right, when nothing was. *)
LEMMA NewPatchCounts ==
  ASSUME HitsShape, RowCounts
  PROVE  /\ \A k \in Outcome : PatchCounts(PatchOf(k, row))
         /\ PatchCounts(DisablePatch(row))
<1>1. PatchCounts(SuccessPatch(row))
  <2>1. DOMAIN SuccessPatch(row) = {"remaining", "reset"}
    BY DEF SuccessPatch
  <2> QED BY <2>1 DEF PatchCounts, OtherCounts, IsHit, IsUse
<1>2. PatchCounts(RateLimitedPatch(row))
  <2> DEFINE p == RateLimitedPatch(row)
             n == NewCount(row)
  <2>1. /\ {"remaining", "count", "last429", "status"} \subseteq DOMAIN p
        /\ p.count = n /\ p.last429 = now /\ (n >= Limit => p.status = "expired")
    BY HitPatchIs
  <2>2. n \in Nat /\ n >= 1
    BY DEF NewCount, HitsShape
  <2>3. ASSUME NEW i \in 1..Len(hits), now - hits[i] <= Sliding
        PROVE  n >= Len(hits) - i + 2
    <3> DEFINE L == Len(hits)
    <3>1. /\ L \in Nat /\ i \in 1..L /\ L \in 1..L /\ hits # <<>>
          /\ now \in Nat /\ Sliding \in Nat /\ row.count \in Nat
      BY NumberAssumption DEF HitsShape
    <3>2. /\ hits[i] \in Nat /\ hits[L] \in Nat /\ hits[i] <= hits[L] /\ hits[L] <= now
      BY <3>1 DEF HitsShape
    <3>3. row.last429 = hits[L] /\ (hits[L] - hits[i] <= Sliding => row.count >= L - i + 1)
      BY <3>1 DEF RowCounts
    <3> HIDE DEF L
    <3>4. now - row.last429 <= Sliding /\ row.count >= L - i + 1
      BY <2>3, <3>1, <3>2, <3>3, NumberAssumption
    <3>5. n = row.count + 1
      BY <3>1, <3>2, <3>3, <3>4, NumberAssumption DEF NewCount
    <3>6. n >= L - i + 2
      BY <3>1, <3>4, <3>5
    <3> QED BY <3>6 DEF L
  <2> HIDE DEF p, n
  <2>4. HitCounts(p) /\ IsHit(p)
    BY <2>1, <2>2, <2>3 DEF HitCounts, IsHit, IsUse
  <2> QED BY <2>4 DEF PatchCounts, p
<1>3. PatchCounts(ForbiddenPatch(row))
  BY ExtCounts DEF ForbiddenPatch, PatchCounts
<1>4. PatchCounts(UnauthorizedPatch(row))
  BY ExtCounts DEF UnauthorizedPatch, PatchCounts
<1>5. PatchCounts(DisablePatch(row))
  BY ExtCounts DEF DisablePatch, PatchCounts
<1>6. ASSUME NEW k \in Outcome PROVE PatchCounts(PatchOf(k, row))
  BY <1>1, <1>2, <1>3, <1>4, <1>6 DEF PatchOf, Outcome
<1> QED BY <1>5, <1>6

(* One 429 more, and perhaps the oldest forgotten. *)
LEMMA LastHitsIs ==
  ASSUME HitsShape
  PROVE  \E d \in {0, 1} :
           LET s == LastHits(Append(hits, now))
           IN  /\ s \in Seq(Nat) /\ Len(s) = Len(hits) + 1 - d /\ Len(s) <= Limit
               /\ \A i \in 1..Len(s) : s[i] = IF i + d = Len(hits) + 1 THEN now ELSE hits[i + d]
<1> DEFINE u == Append(hits, now)
           L == Len(hits)
           s == LastHits(u)
           Is(d) == /\ s \in Seq(Nat) /\ Len(s) = L + 1 - d /\ Len(s) <= Limit
                    /\ \A i \in 1..Len(s) : s[i] = IF i + d = L + 1 THEN now ELSE hits[i + d]
<1>1. /\ hits \in Seq(Nat) /\ now \in Nat /\ L \in Nat /\ L <= Limit /\ Limit \in Nat
      /\ Limit >= 1
  BY NumberAssumption DEF HitsShape
<1>2. /\ u \in Seq(Nat) /\ Len(u) = L + 1
      /\ \A i \in 1..L : u[i] = hits[i]
      /\ u[L + 1] = now
  BY <1>1
<1> HIDE DEF u, L
<1>3. CASE Len(u) > Limit
  <2>1. s = Tail(u)
    BY <1>3 DEF LastHits
  <2>2. u # <<>>
    BY <1>1, <1>2
  <2>3. s \in Seq(Nat) /\ Len(s) = L /\ \A i \in 1..L : s[i] = u[i + 1]
    BY <1>1, <1>2, <2>1, <2>2
  <2>4. ASSUME NEW i \in 1..L PROVE s[i] = IF i + 1 = L + 1 THEN now ELSE hits[i + 1]
    <3>1. s[i] = u[i + 1] /\ i + 1 \in 1..(L + 1)
      BY <1>1, <2>3
    <3>2. CASE i + 1 = L + 1
      BY <1>2, <3>1, <3>2
    <3>3. CASE i + 1 # L + 1
      <4>1. i + 1 \in 1..L
        BY <1>1, <3>1, <3>3
      <4> QED BY <1>2, <3>1, <3>3, <4>1
    <3> QED BY <3>2, <3>3
  <2>5. Is(1)
    <3> HIDE DEF s
    <3>1. L + 1 - 1 = L
      BY <1>1
    <3> QED BY <1>1, <2>3, <2>4, <3>1
  <2> QED BY <2>5 DEF u, L
<1>4. CASE Len(u) <= Limit
  <2>1. s = u
    BY <1>1, <1>2, <1>4 DEF LastHits
  <2>2. Is(0)
    <3> HIDE DEF s
    <3>1. \A i \in 1..(L + 1) : i + 0 = i /\ (i # L + 1 => i \in 1..L)
      BY <1>1
    <3>2. L + 1 - 0 = L + 1
      BY <1>1
    <3> QED BY <1>1, <1>2, <1>4, <2>1, <3>1, <3>2
  <2> QED BY <2>2 DEF u, L
<1> QED BY <1>1, <1>2, <1>3, <1>4

LimitObeyed ==
  Len(hits') = Limit /\ hits'[Limit] - hits'[1] <= Sliding => row'.status = "expired"

(* A patch is applied: the row follows its counter, the history its time. *)
LEMMA LimitWritten ==
  ASSUME LimitInv, NEW a \in Actor, Write(a)
  PROVE  HitsShape' /\ (~hitsLost' => RowCounts' /\ (IsHit(patch[a]) => LimitObeyed))
<1> DEFINE p == patch[a]
<1>1. CountShape(p) /\ ReviveInv /\ HitsShape /\ (~hitsLost => RowCounts)
  BY DEF LimitInv, PatchesCount, Write
<1>2. /\ row'.count = IF "count" \in DOMAIN p THEN p.count ELSE row.count
      /\ row'.last429 = IF "last429" \in DOMAIN p THEN p.last429 ELSE row.last429
      /\ row'.status = IF "status" \in DOMAIN p THEN p.status ELSE row.status
  BY <1>1, Written DEF ReviveInv, Shape
<1>3. now' = now /\ hits' = IF IsHit(p) THEN LastHits(Append(hits, now)) ELSE hits
  BY DEF Write
<1>4. /\ hitsLost' \in BOOLEAN
      /\ ~hitsLost' => ~hitsLost /\ (IsUse(p) \/ ~Outdated(p))
  BY <1>1 DEF Write, HitsShape, IsUse, Outdated
<1>5. ~hitsLost' => RowCounts /\ PatchCounts(p)
  <2>1. SUFFICES ASSUME ~hitsLost' PROVE RowCounts /\ PatchCounts(p)
    OBVIOUS
  <2>2. RowCounts
    BY <1>1, <1>4, <2>1
  <2>3. CASE IsUse(p)
    <3> HIDE DEF p
    <3>1. "count" \notin DOMAIN p /\ "last429" \notin DOMAIN p
      BY <1>1, <2>3 DEF CountShape
    <3> QED BY <2>2, <2>3, <3>1, Zenon DEF PatchCounts, OtherCounts, IsHit
  <2>4. CASE ~Outdated(p)
    BY <1>1, <2>2, <2>4, NewPatchCounts DEF Outdated
  <2> QED BY <1>4, <2>1, <2>2, <2>3, <2>4
<1> HIDE DEF p
<1>6. CASE ~IsHit(p)
  <2>1. /\ hits' = hits /\ row'.count \in Nat /\ row'.last429 \in Nat
        /\ ~hitsLost' /\ hits # <<>> => row'.count = row.count /\ row'.last429 = row.last429
    BY <1>1, <1>2, <1>3, <1>5, <1>6 DEF CountShape, PatchCounts, OtherCounts, HitsShape
  <2>2. HitsShape'
    BY <1>1, <1>3, <1>4, <2>1 DEF HitsShape
  <2>3. ~hitsLost' => RowCounts'
    BY <1>5, <2>1 DEF RowCounts
  <2> QED BY <1>6, <2>2, <2>3 DEF p
<1>7. CASE IsHit(p)
  <2> DEFINE s == LastHits(Append(hits, now))
             L == Len(hits)
  <2>1. PICK d \in {0, 1} :
          /\ s \in Seq(Nat) /\ Len(s) = L + 1 - d /\ Len(s) <= Limit
          /\ \A i \in 1..Len(s) : s[i] = IF i + d = L + 1 THEN now ELSE hits[i + d]
    BY <1>1, LastHitsIs
  <2>2. hits' = s
    BY <1>3, <1>7
  <2> HIDE DEF s
  <2>3. /\ row'.count = p.count /\ row'.last429 = now /\ p.count \in Nat
        /\ ~hitsLost' => /\ HitCounts(p) /\ p.count >= 1
                        /\ (p.count >= Limit => row'.status = "expired")
    BY <1>1, <1>2, <1>5, <1>7 DEF CountShape, PatchCounts, HitCounts
  <2>4. /\ now \in Nat /\ L \in Nat /\ Limit \in Nat /\ Limit >= 1 /\ Sliding \in Nat
        /\ \A i \in 1..L : hits[i] \in Nat /\ hits[i] <= now
        /\ \A i \in 1..L, j \in 1..L : i <= j => hits[i] <= hits[j]
        /\ ~hitsLost' => \A i \in 1..L : now - hits[i] <= Sliding => p.count >= L - i + 2
    BY <1>1, <2>3, NumberAssumption DEF HitsShape, HitCounts
  <2> HIDE DEF L
  <2>5. /\ Len(s) \in Nat /\ Len(s) = L + 1 - d /\ d \in 0..1
        /\ \A i \in 1..Len(s) : i + d \in 1..(L + 1) /\ (i + d # L + 1 => i + d \in 1..L)
        /\ \A i \in 1..Len(s) : i + d = L + 1 <=> i = Len(s)
    BY <2>1, <2>4
  <2>13. ASSUME NEW i \in 1..Len(s)
         PROVE  /\ i = Len(s) => s[i] = now
                /\ i # Len(s) => i + d \in 1..L /\ s[i] = hits[i + d]
    <3>1. /\ i + d = L + 1 <=> i = Len(s)
          /\ i + d # L + 1 => i + d \in 1..L
          /\ s[i] = IF i + d = L + 1 THEN now ELSE hits[i + d]
      BY <2>1, <2>5
    <3> QED BY <3>1
  <2>6. ASSUME NEW i \in 1..Len(s) PROVE s[i] \in Nat /\ s[i] <= now
    <3>1. CASE i = Len(s)
      BY <2>4, <2>13, <3>1
    <3>2. CASE i # Len(s)
      BY <2>4, <2>13, <3>2
    <3> QED BY <3>1, <3>2
  <2>7. ASSUME NEW i \in 1..Len(s), NEW j \in 1..Len(s), i <= j PROVE s[i] <= s[j]
    <3>1. CASE j = Len(s)
      BY <2>1, <2>5, <2>6, <3>1
    <3>2. CASE j # Len(s)
      <4>1. i + d \in 1..L /\ j + d \in 1..L /\ i + d <= j + d
        BY <2>4, <2>5, <2>7, <3>2
      <4>2. s[i] = hits[i + d] /\ s[j] = hits[j + d]
        BY <2>5, <2>7, <2>13, <3>2
      <4> QED BY <2>4, <4>1, <4>2
    <3> QED BY <3>1, <3>2
  <2>14. row'.count \in Nat /\ row'.last429 \in Nat /\ now' \in Nat
    BY <1>3, <2>3, <2>4
  <2>8. HitsShape'
    <3>1. /\ now' = now /\ hits' = s /\ s \in Seq(Nat) /\ Len(s) <= Limit
          /\ hitsLost' \in BOOLEAN
      BY <1>3, <1>4, <2>1, <2>2
    <3>2. \A i \in 1..Len(s) : s[i] <= now
      BY <2>6
    <3>3. \A i \in 1..Len(s), j \in 1..Len(s) : i <= j => s[i] <= s[j]
      BY <2>7
    <3>4. /\ hits' \in Seq(Nat) /\ Len(hits') <= Limit
          /\ \A i \in 1..Len(hits') : hits'[i] <= now'
          /\ \A i \in 1..Len(hits'), j \in 1..Len(hits') : i <= j => hits'[i] <= hits'[j]
      BY <3>1, <3>2, <3>3
    <3> QED BY <2>14, <3>1, <3>4 DEF HitsShape
  <2>9. ASSUME ~hitsLost', NEW i \in 1..Len(s), now - s[i] <= Sliding PROVE p.count >= Len(s) - i + 1
    <3>1. CASE i = Len(s)
      BY <2>3, <2>5, <2>9, <3>1
    <3>2. CASE i # Len(s)
      <4>1. i + d \in 1..L /\ s[i] = hits[i + d]
        BY <2>1, <2>5, <3>2
      <4>2. p.count >= L - (i + d) + 2
        BY <2>4, <2>9, <4>1
      <4> QED BY <2>3, <2>4, <2>5, <4>2
    <3> QED BY <3>1, <3>2
  <2>10. s # <<>> => s[Len(s)] = now
    BY <2>1, <2>4, <2>5
  <2>11. ~hitsLost' => RowCounts'
    BY <2>2, <2>3, <2>9, <2>10 DEF RowCounts
  <2>12. ~hitsLost' => LimitObeyed
    <3>1. SUFFICES ASSUME ~hitsLost', Len(s) = Limit, s[Limit] - s[1] <= Sliding
                   PROVE  row'.status = "expired"
      BY <2>2 DEF LimitObeyed
    <3>2. 1 \in 1..Len(s) /\ s[Limit] = now
      BY <2>1, <2>4, <2>5, <3>1
    <3>3. p.count >= Len(s) - 1 + 1
      BY <2>9, <3>1, <3>2
    <3> QED BY <2>3, <2>4, <3>1, <3>3
  <2> QED BY <2>8, <2>11, <2>12
<1> QED BY <1>6, <1>7

LEMMA LimitStep ==
  ASSUME LimitInv, DOMAIN view = Call, [Next]_vars
  PROVE  LimitInv'
<1>1. ReviveInv'
  BY ReviveStep DEF LimitInv
<1> DEFINE Kept == HitsShape' /\ (~hitsLost' => RowCounts') /\ PatchesCount'
<1> SUFFICES Kept
  BY <1>1 DEF LimitInv
<1> USE DEF LimitInv
<1>2. ASSUME UNCHANGED <<now, row, hits>>, hitsLost' \in BOOLEAN, hitsLost => hitsLost',
             \A a \in Actor : pc'[a] = "write" => CountShape(patch'[a])
      PROVE  Kept
  BY <1>2 DEF HitsShape, RowCounts, PatchesCount, CountShape, IsHit, IsUse
<1>3. ASSUME NEW c \in Call, Start(c) \/ CallFails(c) \/ Sync(c)
      PROVE  Kept
  <2>1. /\ UNCHANGED <<now, row, patch, hits, hitsLost>>
        /\ \A a \in Actor : pc'[a] = "write" => pc[a] = "write"
    BY <1>3 DEF Start, CallFails, Sync, history, ReviveInv, Shape, Actor
  <2>2. hitsLost' \in BOOLEAN /\ (hitsLost => hitsLost')
    BY <2>1 DEF HitsShape
  <2> QED BY <1>2, <2>1, <2>2 DEF PatchesCount
<1>4. ASSUME NEW a \in Actor, NEW q, CountShape(q), UNCHANGED <<now, row, hits, hitsLost>>,
             pc' = [pc EXCEPT ![a] = "write"], patch' = [patch EXCEPT ![a] = q]
      PROVE  Kept
  <2>1. \A b \in Actor : pc'[b] = "write" => CountShape(patch'[b])
    BY <1>4 DEF PatchesCount, ReviveInv, Shape
  <2>2. hitsLost' \in BOOLEAN /\ (hitsLost => hitsLost')
    BY <1>4 DEF HitsShape
  <2> QED BY <1>2, <1>4, <2>1, <2>2
<1>5. ASSUME NEW c \in Call, NEW k \in Outcome, Read(c, k)
      PROVE  Kept
  <2>1. CountShape(PatchOf(k, row))
    BY NewCountShape
  <2> QED BY <1>4, <1>5, <2>1 DEF Read, history, Actor
<1>6. ASSUME ReadForDisable
      PROVE  Kept
  <2>1. CountShape(DisablePatch(row))
    BY NewCountShape
  <2> QED BY <1>4, <1>6, <2>1 DEF ReadForDisable, history, Actor
<1>7. ASSUME NEW a \in Actor, Write(a)
      PROVE  Kept
  <2>1. /\ now' = now
        /\ \A b \in Actor : pc'[b] = "write" => pc[b] = "write" /\ patch'[b] = patch[b]
    BY <1>7 DEF Write, ReviveInv, Shape
  <2>2. PatchesCount'
    BY <2>1 DEF PatchesCount, CountShape, IsHit, IsUse
  <2> QED BY <1>7, <2>2, LimitWritten
<1>8. ASSUME NEW c \in Call, WriteFails(c)
      PROVE  Kept
  <2>1. /\ UNCHANGED <<now, row, hits>>
        /\ hitsLost' = (hitsLost \/ IsHit(patch[c]))
        /\ \A b \in Actor : pc'[b] = "write" => pc[b] = "write" /\ patch'[b] = patch[b]
    BY <1>8 DEF WriteFails, ReviveInv, Shape, Actor
  <2>2. hitsLost' \in BOOLEAN /\ (hitsLost => hitsLost')
    BY <2>1 DEF HitsShape, IsHit, IsUse
  <2> QED BY <1>2, <2>1, <2>2 DEF PatchesCount
<1>9. ASSUME Restore \/ Recover
      PROVE  Kept
  <2>1. /\ row'.count = 0 /\ row'.last429 \in {0, row.last429}
        /\ hits' = <<>> /\ hitsLost' = FALSE /\ UNCHANGED <<now, pc, patch>>
    BY <1>9 DEF Restore, Recover, ReviveInv, Shape
  <2>4. hitsLost' \in BOOLEAN
    BY <2>1
  <2>2. HitsShape' /\ RowCounts'
    BY <2>1, <2>4, NumberAssumption DEF HitsShape, RowCounts
  <2>3. PatchesCount'
    BY <2>1 DEF PatchesCount, CountShape, IsHit, IsUse
  <2> QED BY <2>2, <2>3
<1>10. ASSUME ResetConsole
       PROVE  Kept
  <2>1. /\ row'.count = row.count /\ row'.last429 = row.last429
        /\ UNCHANGED <<now, pc, patch, hits, hitsLost>>
    BY <1>10 DEF ResetConsole, ReviveInv, Shape
  <2>2. HitsShape' /\ (~hitsLost' => RowCounts')
    BY <2>1 DEF HitsShape, RowCounts
  <2>3. PatchesCount'
    BY <2>1 DEF PatchesCount, CountShape, IsHit, IsUse
  <2> QED BY <2>2, <2>3
<1>11. ASSUME Tick \/ UNCHANGED vars
       PROVE  Kept
  <2>1. CASE Tick
    <3>1. /\ \A a \in Actor : pc'[a] # "write"
          /\ now' = now + 1 /\ UNCHANGED <<row, pc, hits, hitsLost>>
      BY <2>1 DEF Tick, NoWrite, history
    <3>2. \A i \in 1..Len(hits) : hits[i] <= now'
      BY <3>1 DEF HitsShape
    <3>3. HitsShape'
      BY <3>1, <3>2 DEF HitsShape
    <3> QED BY <3>1, <3>3 DEF RowCounts, PatchesCount
  <2>2. CASE UNCHANGED vars
    BY <2>2 DEF vars, history, HitsShape, RowCounts, PatchesCount, CountShape, IsHit, IsUse
  <2> QED BY <1>11, <2>1, <2>2
<1> QED BY <1>3, <1>5, <1>6, <1>7, <1>8, <1>9, <1>10, <1>11 DEF Next, CallStep

(* The write of the last of Limit 429s within the sliding window expires the  *)
(* account (record_failure_async, refresh.py: "3 429s within 12 hours mark   *)
(* the account EXPIRED"), whatever other calls, patrols and edits came in    *)
(* between, unless one of their writes was overwritten or lost.              *)
THEOREM LimitsExpireAccount == Spec => RepeatedLimitsExpire
<1> DEFINE I == LimitInv /\ DOMAIN view = Call
<1>1. Init => I
  <2> SUFFICES ASSUME Init PROVE I
    OBVIOUS
  <2>1. /\ row.count = 0 /\ row.last429 = 0 /\ hits = <<>> /\ now = 1 /\ hitsLost = FALSE
        /\ \A a \in Actor : pc[a] = "idle"
    BY DEF Init
  <2>3. hitsLost \in BOOLEAN
    BY <2>1
  <2>2. HitsShape /\ RowCounts /\ PatchesCount
    BY <2>1, <2>3, NumberAssumption DEF HitsShape, RowCounts, PatchesCount
  <2> QED BY <2>2, ReviveInit DEF LimitInv
<1>2. I /\ [Next]_vars => I'
  BY LimitStep, ViewDomain
<1>3. I /\ [Next]_vars =>
        [(/\ \E a \in Actor : Write(a) /\ IsHit(patch[a])
          /\ Len(hits') = Limit /\ hits'[Limit] - hits'[1] <= Sliding
          /\ ~hitsLost')
         => row'.status = "expired"]_vars
  BY LimitWritten DEF LimitObeyed
<1> QED BY <1>1, <1>2, <1>3, PTL DEF Spec, RepeatedLimitsExpire

=============================================================================
