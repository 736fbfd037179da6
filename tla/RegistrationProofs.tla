------------------------- MODULE RegistrationProofs -------------------------
(***************************************************************************)
(* Proofs about RegistrationManager and the children it supervises, for     *)
(* every number of runs, rounds, attempts, addresses and credentials, every *)
(* way of reading mail and every target: one child at a time, no mailbox    *)
(* left reserved, no code entered twice, no registered address handed out   *)
(* again, no account lost at a regular end, no run over the target.         *)
(***************************************************************************)
EXTENDS RegistrationManager, TLAPS, FiniteSetTheorems

Attempting == {"open", "submit", "code", "register", "profile", "sso"}
Place == Attempting \cup {"preflight", "acquire", "drain", "import", "end"}
Mail  == Task \X Nat \X Nat
Worker ==
  [pc : Place, left : SUBSET Credential, usable : BOOLEAN, rounds : Nat, round : Nat,
   attempt : Nat, addr : Address \cup {Nothing}, base : SUBSET (Way \X Mail),
   snap : Way \cup {"request", Nothing}, via : Way \cup {Nothing}, mail : Mail \cup {Nothing}, collected : Nat, imported : Nat]
Manifest == {"none", "running", "final"}
Shown == [state : {"idle", "running", "polling", "completed", "failed", "cancelled",
                   "mailbox_exhausted"}, code : {0, 1, Exhausted, Killed, Nothing}]
Mails == [Credential -> SUBSET Mail]

Shape ==
  /\ TypeOK /\ taken \subseteq Address
  /\ coming \in Mails /\ inbox \in Mails /\ entered \in Mails
  /\ worker \in [Task -> Worker] /\ manifest \in [Task -> Manifest] /\ runtime \in Shown
  /\ \A t \in Task : worker[t].pc \in Attempting => worker[t].addr \in Address

(* A child that is alive is the process the manager knows, unless its        *)
(* watcher was cancelled by the stop that is still ending it; while one is   *)
(* created none is alive.                                                    *)
Ending(t) == lock = "stop" /\ term = t
Supervised ==
  /\ \A t \in Task : life[t] = "live" => Ending(t) \/ (process = t /\ watcher[t] = "reading")
  /\ lock = "stop" => term \in Task /\ process \in {term, Nothing} /\ monitor = "none"
  /\ lock \in {"start", "monitor"} <=> launching # Nothing
  /\ launching # Nothing =>
       /\ life[launching] = "none"
       /\ \A t \in Task : life[t] # "live"

(* Whoever may have left a reservation is alive, watched or being stopped. *)
ReservedForReason ==
  Reserved # {} => \/ lock = "stop"
                   \/ \E t \in Task : life[t] = "live" \/ watcher[t] \in {"reading", "cancelled"}

SupervisionInv == Shape /\ Supervised /\ ReservedForReason

(* A child collects at most one account in each of its rounds, and waits for *)
(* their exports before it imports them.                                     *)
RoundsFit(w) ==
  /\ w.round <= w.rounds /\ w.collected <= w.round
  /\ w.pc \notin {"drain", "import", "end"} => w.collected < w.round
CountFits(t) ==
  /\ life[t] # "exited" => RoundsFit(worker[t])
  /\ life[t] = "none" => /\ worker[t].pc = "preflight" /\ worker[t].collected = 0
                         /\ queued[t] = 0
  /\ life[t] = "live" /\ worker[t].pc = "import" => queued[t] = 0
  /\ life[t] = "exited" /\ code[t] \in {0, Exhausted} =>
       worker[t].imported = worker[t].collected /\ queued[t] = 0
CountInv == \A t \in Task : CountFits(t)

(* From its snapshot to its code, an attempt knows every mail of its inbox   *)
(* whose code was entered.                                                   *)
Sure == {"graph", "rest"}
CodeFits(t) ==
  life[t] = "live" /\ worker[t].pc \in {"submit", "code"} /\ worker[t].snap \in Sure =>
    \A m \in entered[Inbox(t)] : <<worker[t].snap, m>> \in worker[t].base
CodeInv == /\ \A c \in Credential : entered[c] \subseteq inbox[c]
           /\ \A t \in Task : CodeFits(t)

(* An address that has registered an account is marked so, or its credential *)
(* is out; no attempt has it.                                                *)
TakenInv ==
  \A a \in taken : /\ mark[a] \in {"used", "token_invalid"}
                   /\ \A t \in Task : life[t] = "live" /\ worker[t].pc \in Attempting =>
                        worker[t].addr # a

(* The monitor has at most the one child it waits for.  While it wants a     *)
(* normal account, a child has one round, and the pool lacks one but for     *)
(* those that came from elsewhere.                                           *)
Short == normal < Target[config] + gained
MonitorInv ==
  /\ monitor = "spawn" <=> lock = "monitor"
  /\ lock = "start" => monitor = "none"
  /\ monitor \in {"none", "poll", "count", "wait"} /\ lock # "stop" => need = "none"
  /\ monitor \in {"launch", "spawn"} /\ need = "normal" => Short
  /\ monitor = "spawn" => worker[launching].rounds = 1
  /\ monitor \in {"poll", "count", "launch", "wait"} => \A t \in Task : life[t] # "live"
  /\ monitor = "await" =>
       awaited \in Task /\ \A t \in Task : life[t] = "live" => t = awaited
  /\ need = "normal" => \A t \in Task : life[t] = "live" => worker[t].rounds = 1 /\ Short

-----------------------------------------------------------------------------
(* What a step of a child does, n being what its record becomes. *)
Kept(n, o) == n.rounds = o.rounds /\ n.collected = o.collected
CodeSet(t) == \/ code' = code
              \/ \E k \in {0, 1, Exhausted} : code' = [code EXCEPT ![t] = k]
NextRound(n, o) ==
  \/ n.pc = "acquire" /\ n.round = o.round + 1 /\ o.round < o.rounds
  \/ n.pc = "drain" /\ n.round = o.round

StartMove(t, n, o) ==
  /\ o.pc \in {"preflight", "acquire"} /\ n.pc \in {"preflight", "acquire", "drain"}
  /\ Kept(n, o) /\ n.round = o.round /\ CodeSet(t)
  /\ mark' = mark \/ \E c \in Credential : mark' = Quarantine(c)
  /\ UNCHANGED <<life, queued, manifest, normal, taken, entered>>

AcquireMove(t, n, o) ==
  /\ o.pc = "acquire" /\ n.pc = "open" /\ n.addr \in Address
  /\ Kept(n, o) /\ n.round = o.round
  /\ mark[n.addr] \in {"available", "in_use"} /\ mark' = Reservation(n.addr)
  /\ UNCHANGED <<life, code, queued, manifest, normal, taken, entered>>

Enters(n, o) ==
  /\ o.pc = "code" /\ n.pc = "register" /\ n.via \in Way
  /\ n.mail \in inbox[Owner[o.addr]] /\ <<n.via, n.mail>> \notin o.base
  /\ entered' = [entered EXCEPT ![Owner[o.addr]] = @ \cup {n.mail}]

AdvanceMove(t, n, o) ==
  /\ o.pc \in Attempting /\ n.pc \in Attempting
  /\ Kept(n, o) /\ n.round = o.round /\ n.attempt = o.attempt /\ n.addr = o.addr
  /\ \/ /\ o.pc = "open" /\ n.pc = "submit" /\ entered' = entered
        /\ n.snap \in Sure => n.base = {n.snap} \X inbox[Owner[o.addr]]
     \/ /\ o.pc = "submit" /\ n.pc = "code" /\ entered' = entered
        /\ n.base = o.base /\ n.snap = o.snap
     \/ Enters(n, o)
     \/ n.pc \in {"profile", "sso"} /\ entered' = entered
  /\ UNCHANGED <<mark, life, code, queued, manifest, normal, taken>>

(* The attempt is over, and perhaps the round. *)
OverMove(t, n, o) ==
  /\ o.pc \in Attempting /\ n.pc \in {"acquire", "drain"}
  /\ Kept(n, o) /\ CodeSet(t)
  /\ n.round = o.round \/ NextRound(n, o)
  /\ mark' = mark \/ \E fault \in BOOLEAN : mark' = Result(o.addr, FALSE, fault)
  /\ UNCHANGED <<life, queued, manifest, normal, taken, entered>>

CollectMove(t, n, o) ==
  /\ o.pc = "sso" /\ n.pc \in {"acquire", "drain"}
  /\ n.rounds = o.rounds /\ n.collected = o.collected + 1
  /\ NextRound(n, o) /\ CodeSet(t)
  /\ mark' = Result(o.addr, TRUE, FALSE) /\ taken' = taken \cup {o.addr}
  /\ \E export \in {0, 1} : queued' = [queued EXCEPT ![t] = @ + export]
  /\ UNCHANGED <<life, manifest, normal, entered>>

ExportMove(t, n, o) ==
  /\ n = o /\ queued[t] > 0
  /\ queued' = [queued EXCEPT ![t] = @ - 1]
  /\ UNCHANGED <<mark, life, code, manifest, normal, taken, entered>>

DrainMove(t, n, o) ==
  /\ o.pc = "drain" /\ n.pc = "import" /\ queued[t] = 0
  /\ Kept(n, o) /\ n.round = o.round
  /\ UNCHANGED <<mark, life, code, queued, manifest, normal, taken, entered>>

ExitMove(t, n, o) ==
  /\ o.pc = "import" /\ n.pc = "end" /\ n.collected = o.collected
  /\ life' = [life EXCEPT ![t] = "exited"]
  /\ \/ n.imported = o.collected /\ code' = code /\ normal' = normal + o.collected
     \/ code' = [code EXCEPT ![t] = 1] /\ normal' \in {normal, normal + o.collected}
  /\ UNCHANGED <<mark, queued, manifest, taken, entered>>

ChildMove(t, n) ==
  /\ life[t] = "live" /\ n \in Worker /\ worker' = [worker EXCEPT ![t] = n]
  /\ dead' = dead /\ inbox' = inbox /\ coming' \in Mails
  /\ n.pc \in Attempting => n.addr \in Address
  /\ \/ StartMove(t, n, worker[t]) \/ AcquireMove(t, n, worker[t])
     \/ AdvanceMove(t, n, worker[t]) \/ OverMove(t, n, worker[t])
     \/ CollectMove(t, n, worker[t]) \/ ExportMove(t, n, worker[t])
     \/ DrainMove(t, n, worker[t]) \/ ExitMove(t, n, worker[t])

Moves(t) == \E n \in Worker : ChildMove(t, n)

-----------------------------------------------------------------------------
LEMMA PreflightMoves ==
  ASSUME Shape, NEW t \in Task, NEW c \in Credential, Preflight(t, c)
  PROVE  Moves(t)
<1>1. PICK out \in {"skipped"} \cup ListMessages(c) :
        /\ mark' = IF out = "definitive" THEN Quarantine(c) ELSE mark
        /\ worker' = [worker EXCEPT ![t] = [worker[t] EXCEPT !.left = @ \ {c},
                     !.usable = @ \/ out \in Way \cup {"request", "transient"}]]
  BY DEF Preflight, Goto
<1> DEFINE n == [worker[t] EXCEPT !.left = @ \ {c},
                     !.usable = @ \/ out \in Way \cup {"request", "transient"}]
<1>2. worker[t] \in Worker /\ worker[t].pc = "preflight" /\ life[t] = "live"
  BY DEF Shape, Preflight, At
<1>3. n \in Worker /\ n.pc = "preflight" /\ Kept(n, worker[t]) /\ n.round = worker[t].round
  BY <1>2 DEF Worker, Kept
<1>4. worker' = [worker EXCEPT ![t] = n]
  BY <1>1
<1> HIDE DEF n
<1>5. StartMove(t, n, worker[t])
  BY <1>1, <1>2, <1>3 DEF StartMove, CodeSet, Preflight
<1>6. ChildMove(t, n)
  BY <1>2, <1>3, <1>4, <1>5 DEF ChildMove, Preflight, Attempting, Shape
<1> QED BY <1>3, <1>6 DEF Moves

LEMMA PreflightEndsMoves ==
  ASSUME Shape, NEW t \in Task, PreflightEnds(t)
  PROVE  Moves(t)
<1>1. PICK started \in BOOLEAN :
        /\ worker' = [worker EXCEPT ![t] = [worker[t] EXCEPT !.pc = IF started THEN "acquire" ELSE "drain"]]
        /\ code' = [code EXCEPT ![t] = IF started THEN 0
                        ELSE IF worker[t].usable \/ Unchecked(t) THEN 1 ELSE Exhausted]
  BY DEF PreflightEnds, Goto
<1> DEFINE p == IF started THEN "acquire" ELSE "drain"
           n == [worker[t] EXCEPT !.pc = p]
<1>2. worker[t] \in Worker /\ worker[t].pc = "preflight" /\ life[t] = "live"
  BY DEF Shape, PreflightEnds, At
<1>3. n \in Worker /\ n.pc = p /\ Kept(n, worker[t]) /\ n.round = worker[t].round
  BY <1>2 DEF Worker, Kept, Place
<1>4. worker' = [worker EXCEPT ![t] = n] /\ CodeSet(t)
  BY <1>1 DEF CodeSet
<1> HIDE DEF n
<1>5. StartMove(t, n, worker[t])
  BY <1>2, <1>3, <1>4 DEF StartMove, PreflightEnds, poolVars
<1>6. ChildMove(t, n)
  BY <1>2, <1>3, <1>4, <1>5 DEF ChildMove, PreflightEnds, poolVars, Attempting, Shape
<1> QED BY <1>3, <1>6 DEF Moves

LEMMA AcquireMoves ==
  ASSUME Shape, NEW t \in Task, Acquire(t)
  PROVE  Moves(t)
<1>1. /\ worker[t] \in Worker /\ worker[t].pc = "acquire" /\ life[t] = "live"
      /\ UNCHANGED <<dead, coming, inbox, life, queued, manifest, normal, taken, entered>>
  BY DEF Shape, Acquire, At
<1>2. ASSUME NEW a \in Address, NEW old \in SUBSET Reserved, Available(a, old),
             mark' = Reservation(a), UNCHANGED code,
             Goto(t, [worker[t] EXCEPT !.pc = "open", !.addr = a])
      PROVE  Moves(t)
  <2> DEFINE n == [worker[t] EXCEPT !.pc = "open", !.addr = a]
  <2>1. /\ n \in Worker /\ n.pc = "open" /\ n.addr = a /\ Kept(n, worker[t])
        /\ n.round = worker[t].round
    BY <1>1 DEF Worker, Kept, Place, Attempting
  <2>2. worker' = [worker EXCEPT ![t] = n]
    BY <1>2 DEF Goto
  <2> HIDE DEF n
  <2>3. AcquireMove(t, n, worker[t])
    BY <1>1, <1>2, <2>1 DEF AcquireMove, Available
  <2>4. ChildMove(t, n)
    BY <1>1, <2>1, <2>2, <2>3 DEF ChildMove, Shape
  <2> QED BY <2>1, <2>4 DEF Moves
<1>3. ASSUME Goto(t, [worker[t] EXCEPT !.pc = "drain"]), UNCHANGED mark,
             code' = [code EXCEPT ![t] = Exhausted]
      PROVE  Moves(t)
  <2> DEFINE n == [worker[t] EXCEPT !.pc = "drain"]
  <2>1. n \in Worker /\ n.pc = "drain" /\ Kept(n, worker[t]) /\ n.round = worker[t].round
    BY <1>1 DEF Worker, Kept, Place
  <2>2. worker' = [worker EXCEPT ![t] = n] /\ CodeSet(t)
    BY <1>3 DEF Goto, CodeSet
  <2> HIDE DEF n
  <2>3. StartMove(t, n, worker[t])
    BY <1>1, <1>3, <2>1, <2>2 DEF StartMove
  <2>4. ChildMove(t, n)
    BY <1>1, <2>1, <2>2, <2>3 DEF ChildMove, Attempting, Shape
  <2> QED BY <2>1, <2>4 DEF Moves
<1> QED BY <1>2, <1>3 DEF Acquire

LEMMA ForgetIs ==
  ASSUME NEW w \in Worker
  PROVE  /\ Forget(w) \in Worker /\ Forget(w).rounds = w.rounds /\ Forget(w).round = w.round
         /\ Forget(w).collected = w.collected /\ Forget(w).attempt = w.attempt
         /\ Forget(w).addr = w.addr
  BY DEF Forget, Worker

(* The end of a round, and of an attempt. *)
LEMMA RoundOverIs ==
  ASSUME Shape, NEW t \in Task, NEW w \in Worker, RoundOver(t, w)
  PROVE  \E n \in Worker : /\ worker' = [worker EXCEPT ![t] = n]
                           /\ n.pc \in {"acquire", "drain"}
                           /\ Kept(n, w) /\ NextRound(n, w) /\ CodeSet(t)
<1>1. PICK next \in {"acquire", "drain"} :
        /\ next = "acquire" => w.round < w.rounds
        /\ worker' = [worker EXCEPT ![t] =
             [Forget(w) EXCEPT !.pc = next, !.addr = Nothing, !.attempt = 1,
                               !.round = IF next = "acquire" THEN @ + 1 ELSE @]]
        /\ code' = [code EXCEPT ![t] = IF next = "drain" /\ w.round < w.rounds THEN 1 ELSE @]
  BY DEF RoundOver, Goto
<1> DEFINE k == IF next = "acquire" THEN w.round + 1 ELSE w.round
           n == [Forget(w) EXCEPT !.pc = next, !.addr = Nothing, !.attempt = 1, !.round = k]
<1>2. worker' = [worker EXCEPT ![t] = n]
  BY <1>1, ForgetIs
<1>3. k \in Nat /\ next \in Place
  BY DEF Worker, Place
<1> HIDE DEF k
<1>4. n \in Worker /\ n.pc = next /\ n.round = k /\ n.rounds = w.rounds /\ n.collected = w.collected
  BY <1>3, ForgetIs DEF Worker
<1> HIDE DEF n
<1>5. NextRound(n, w)
  BY <1>1, <1>4 DEF NextRound, k
<1>6. CodeSet(t)
  <2>1. code' = [code EXCEPT ![t] = 1] \/ code' = [code EXCEPT ![t] = code[t]]
    BY <1>1
  <2>2. code = [code EXCEPT ![t] = code[t]]
    BY DEF Shape, TypeOK
  <2> QED BY <2>1, <2>2 DEF CodeSet
<1> QED BY <1>1, <1>2, <1>4, <1>5, <1>6 DEF Kept

LEMMA OverMoves ==
  ASSUME Shape, NEW t \in Task, life[t] = "live", worker[t].pc \in Attempting,
         UNCHANGED <<dead, inbox, life, queued, manifest, normal, taken, entered>>,
         coming' \in Mails,
         RoundFails(t) \/ \E fault \in BOOLEAN : AttemptFails(t, fault)
  PROVE  Moves(t)
<1>1. worker[t] \in Worker
  BY DEF Shape
<1>2. ASSUME RoundOver(t, worker[t]),
             mark' = mark \/ \E fault \in BOOLEAN : mark' = Result(worker[t].addr, FALSE, fault)
      PROVE  Moves(t)
  <2>1. PICK n \in Worker : /\ worker' = [worker EXCEPT ![t] = n]
                            /\ n.pc \in {"acquire", "drain"}
                            /\ Kept(n, worker[t]) /\ NextRound(n, worker[t]) /\ CodeSet(t)
    BY <1>1, <1>2, RoundOverIs
  <2>2. OverMove(t, n, worker[t])
    BY <1>2, <2>1 DEF OverMove
  <2>3. ChildMove(t, n)
    BY <2>1, <2>2 DEF ChildMove, Attempting
  <2> QED BY <2>3 DEF Moves
<1>3. ASSUME NEW fault \in BOOLEAN, mark' = Result(worker[t].addr, FALSE, fault), UNCHANGED code,
             Goto(t, [Forget(worker[t]) EXCEPT !.pc = "acquire", !.addr = Nothing,
                                               !.attempt = @ + 1])
      PROVE  Moves(t)
  <2> DEFINE k == worker[t].attempt + 1
             n == [Forget(worker[t]) EXCEPT !.pc = "acquire", !.addr = Nothing, !.attempt = k]
  <2>1. worker' = [worker EXCEPT ![t] = n]
    BY <1>1, <1>3, ForgetIs DEF Goto
  <2>2. k \in Nat
    BY <1>1 DEF Worker
  <2> HIDE DEF k
  <2>3. n \in Worker /\ n.pc = "acquire" /\ Kept(n, worker[t]) /\ n.round = worker[t].round
    BY <1>1, <2>2, ForgetIs DEF Worker, Place, Kept
  <2> HIDE DEF n
  <2>4. OverMove(t, n, worker[t])
    BY <1>3, <2>3 DEF OverMove, CodeSet
  <2>5. ChildMove(t, n)
    BY <2>1, <2>3, <2>4 DEF ChildMove, Attempting
  <2> QED BY <2>3, <2>5 DEF Moves
<1> QED BY <1>2, <1>3 DEF RoundFails, AttemptFails

(* A page that has gone through. *)
LEMMA AdvanceMoves ==
  ASSUME Shape, NEW t \in Task, life[t] = "live", worker[t].pc \in Attempting,
         UNCHANGED <<dead, inbox, mark, life, code, queued, manifest, normal, taken>>,
         coming' \in Mails,
         NEW n \in Worker, worker' = [worker EXCEPT ![t] = n], AdvanceMove(t, n, worker[t])
  PROVE  Moves(t)
<1>1. n.addr \in Address
  BY DEF AdvanceMove, Shape
<1>2. ChildMove(t, n)
  BY <1>1 DEF ChildMove
<1> QED BY <1>2 DEF Moves

(* What list_messages comes to, and what a snapshot by Graph or REST holds.   *)
LEMMA Listing ==
  ASSUME NEW c \in Credential
  PROVE  /\ ListMessages(c) \subseteq Way \cup {"request"} \cup TokenError
         /\ \A out \in Sure : Listed(out, c) = {inbox[c]}
         /\ \A out : \A l \in Listed(out, c) : l \subseteq inbox[c]
<1>1. \A way \in Way : Read(way, c) \subseteq Way \cup {"request"} \cup TokenError
  BY DEF Read, Refresh, TokenError
<1>2. \A tried : Combined(tried) \in Way \cup {"request"} \cup TokenError
  BY DEF Combined, Way, TokenError
<1>3. ListMessages(c) \subseteq Way \cup {"request"} \cup TokenError
  <2>1. CASE ReadMode = "graph"
    BY <1>1, <2>1 DEF ListMessages, Way
  <2>2. CASE ReadMode = "imap"
    <3>1. ListMessages(c) = {Combined({i}) : i \in Read("imap", c)}
      BY <2>2 DEF ListMessages
    <3> QED BY <1>2, <3>1
  <2>3. CASE ReadMode = "auto"
    <3> DEFINE many == {{g, r, i} : g \in Read("graph", c), r \in Read("rest", c),
                                    i \in Read("imap", c)}
    <3>1. ListMessages(c) = {Combined(tried) : tried \in many}
      BY <2>3 DEF ListMessages
    <3> HIDE DEF many
    <3> QED BY <1>2, <3>1
  <2> QED BY <2>1, <2>2, <2>3, ReadModeAssumption
<1>4. \A out \in Sure : Listed(out, c) = {inbox[c]}
  BY DEF Listed, Sure
<1>5. \A out : \A l \in Listed(out, c) : l \subseteq inbox[c]
  BY DEF Listed
<1> QED BY <1>3, <1>4, <1>5

LEMMA OpenMoves ==
  ASSUME Shape, NEW t \in Task, Open(t)
  PROVE  Moves(t)
<1>1. /\ worker[t] \in Worker /\ worker[t].pc = "open" /\ life[t] = "live"
      /\ UNCHANGED <<dead, coming, inbox, life, queued, manifest, normal, taken, entered>>
  BY DEF Shape, Open, At
<1>2. Inbox(t) = Owner[worker[t].addr] /\ Inbox(t) \in Credential /\ coming' \in Mails
  BY <1>1 DEF Shape, Attempting, Credential, Inbox
<1>3. ASSUME NEW out \in ListMessages(Inbox(t)) \ TokenError, NEW listed \in Listed(out, Inbox(t)),
             UNCHANGED <<mark, code>>,
             Goto(t, [worker[t] EXCEPT !.pc = "submit", !.snap = out, !.base = Known(out, listed)])
      PROVE  Moves(t)
  <2>1. PICK b : b = {out} \X listed
    OBVIOUS
  <2> DEFINE n == [worker[t] EXCEPT !.pc = "submit", !.snap = out, !.base = b]
  <2>2. worker' = [worker EXCEPT ![t] = n]
    BY <1>3, <2>1 DEF Goto, Known
  <2>3. out \in Way \cup {"request"} /\ listed \subseteq inbox[Inbox(t)]
    BY <1>2, Listing
  <2>4. listed \subseteq Mail /\ (out \notin Way => listed = {})
    BY <1>2, <2>3 DEF Shape, Mails, Listed, Way
  <2>5. b \in SUBSET (Way \X Mail) /\ (out \in Sure => b = {out} \X inbox[Inbox(t)])
    BY <1>2, <2>1, <2>3, <2>4, Listing
  <2>6. /\ n \in Worker /\ n.pc = "submit" /\ n.snap = out /\ n.base = b
        /\ Kept(n, worker[t]) /\ n.round = worker[t].round
        /\ n.attempt = worker[t].attempt /\ n.addr = worker[t].addr
    BY <1>1, <2>3, <2>5 DEF Worker, Place, Attempting, Kept
  <2> HIDE DEF n
  <2>7. AdvanceMove(t, n, worker[t])
    BY <1>1, <1>2, <1>3, <2>5, <2>6 DEF AdvanceMove, Attempting
  <2>8. worker[t].pc \in Attempting
    BY <1>1 DEF Attempting
  <2> QED BY <1>1, <1>2, <1>3, <2>2, <2>6, <2>7, <2>8, AdvanceMoves
<1>4. CASE RoundFails(t)
  BY <1>1, <1>2, <1>4, OverMoves DEF Attempting
<1> QED BY <1>3, <1>4 DEF Open

LEMMA PageMoves ==
  ASSUME Shape, NEW t \in Task, Submit(t) \/ SubmitCode(t) \/ SubmitProfile(t)
  PROVE  Moves(t)
<1>1. worker[t] \in Worker /\ Forget(worker[t]) \in Worker
  BY ForgetIs DEF Shape
<1>2. ASSUME NEW here, NEW through \in Worker, Page(t, here, through), coming' \in Mails,
             <<here, through.pc>> \in {<<"submit", "code">>, <<"register", "profile">>, <<"profile", "sso">>},
             Kept(through, worker[t]), through.round = worker[t].round,
             through.attempt = worker[t].attempt, through.addr = worker[t].addr,
             here = "submit" => through.base = worker[t].base /\ through.snap = worker[t].snap
      PROVE  Moves(t)
  <2>1. /\ worker[t].pc = here /\ life[t] = "live" /\ worker[t].pc \in Attempting
        /\ UNCHANGED <<dead, inbox, life, queued, manifest, normal, taken, entered>>
    BY <1>2 DEF Page, At, Attempting
  <2>2. CASE Goto(t, through) /\ UNCHANGED <<mark, code>>
    <3>1. AdvanceMove(t, through, worker[t])
      BY <1>2, <2>1, <2>2 DEF AdvanceMove, Attempting
    <3>2. worker' = [worker EXCEPT ![t] = through]
      BY <2>2 DEF Goto
    <3> QED BY <1>2, <2>1, <2>2, <3>1, <3>2, AdvanceMoves
  <2>3. CASE AttemptFails(t, FALSE) \/ RoundFails(t)
    BY <1>2, <2>1, <2>3, OverMoves
  <2> QED BY <1>2, <2>2, <2>3 DEF Page
<1>3. CASE Submit(t)
  <2> DEFINE n == [worker[t] EXCEPT !.pc = "code"]
  <2>1. /\ n \in Worker /\ n.pc = "code" /\ Kept(n, worker[t]) /\ n.round = worker[t].round
        /\ n.attempt = worker[t].attempt /\ n.addr = worker[t].addr
        /\ n.base = worker[t].base /\ n.snap = worker[t].snap
    BY <1>1 DEF Worker, Place, Attempting, Kept
  <2>2. Page(t, "submit", n)
    BY <1>3 DEF Submit
  <2>3. MailOf(t) \in Mail
    BY <1>1 DEF MailOf, Mail, Worker
  <2>4. coming' \in Mails
    BY <1>3, <2>3 DEF Submit, Shape, Mails
  <2> HIDE DEF n
  <2> QED BY <1>2, <2>1, <2>2, <2>4
<1>4. CASE SubmitCode(t)
  <2> DEFINE n == [Forget(worker[t]) EXCEPT !.pc = "profile"]
  <2>1. /\ n \in Worker /\ n.pc = "profile" /\ Kept(n, worker[t]) /\ n.round = worker[t].round
        /\ n.attempt = worker[t].attempt /\ n.addr = worker[t].addr
    BY <1>1, ForgetIs DEF Worker, Place, Attempting, Kept
  <2>2. Page(t, "register", n) /\ coming' \in Mails
    BY <1>4 DEF SubmitCode, Shape
  <2> HIDE DEF n
  <2> QED BY <1>2, <2>1, <2>2
<1>5. CASE SubmitProfile(t)
  <2> DEFINE n == [worker[t] EXCEPT !.pc = "sso"]
  <2>1. /\ n \in Worker /\ n.pc = "sso" /\ Kept(n, worker[t]) /\ n.round = worker[t].round
        /\ n.attempt = worker[t].attempt /\ n.addr = worker[t].addr
    BY <1>1 DEF Worker, Place, Attempting, Kept
  <2>2. Page(t, "profile", n) /\ coming' \in Mails
    BY <1>5 DEF SubmitProfile, Shape
  <2> HIDE DEF n
  <2> QED BY <1>2, <2>1, <2>2
<1> QED BY <1>3, <1>4, <1>5

LEMMA WaitMoves ==
  ASSUME Shape, NEW t \in Task, WaitForCode(t)
  PROVE  Moves(t)
<1>1. /\ worker[t] \in Worker /\ worker[t].pc = "code" /\ life[t] = "live"
      /\ UNCHANGED <<dead, coming, inbox, life, queued, manifest, normal, taken>>
      /\ worker[t].pc \in Attempting
  BY DEF Shape, WaitForCode, At, Attempting
<1>2. Inbox(t) = Owner[worker[t].addr] /\ Inbox(t) \in Credential /\ coming' \in Mails
  BY <1>1 DEF Shape, Attempting, Credential, Inbox
<1>3. ASSUME NEW way \in Way, NEW m \in Unseen(t, way), UNCHANGED <<mark, code>>,
             entered' = [entered EXCEPT ![Inbox(t)] = @ \cup {m}],
             Goto(t, [Forget(worker[t]) EXCEPT !.pc = "register", !.mail = m, !.via = way])
      PROVE  Moves(t)
  <2> DEFINE n == [Forget(worker[t]) EXCEPT !.pc = "register", !.mail = m, !.via = way]
  <2>1. worker' = [worker EXCEPT ![t] = n]
    BY <1>3 DEF Goto
  <2>2. m \in inbox[Inbox(t)] /\ <<way, m>> \notin worker[t].base /\ m \in Mail
    BY <1>2 DEF Unseen, Shape, Mails
  <2>3. /\ n \in Worker /\ n.pc = "register" /\ n.mail = m /\ n.via = way
        /\ Kept(n, worker[t]) /\ n.round = worker[t].round
        /\ n.attempt = worker[t].attempt /\ n.addr = worker[t].addr
    BY <1>1, <2>2, ForgetIs DEF Worker, Place, Attempting, Kept
  <2> HIDE DEF n
  <2>4. Enters(n, worker[t])
    BY <1>1, <1>2, <1>3, <2>2, <2>3 DEF Enters
  <2>5. AdvanceMove(t, n, worker[t])
    BY <1>1, <1>3, <2>3, <2>4 DEF AdvanceMove, Attempting
  <2> QED BY <1>1, <1>2, <1>3, <2>1, <2>3, <2>5, AdvanceMoves
<1>4. ASSUME AttemptFails(t, FALSE) \/ AttemptFails(t, TRUE), entered' = entered PROVE Moves(t)
  BY <1>1, <1>2, <1>4, OverMoves
<1> QED BY <1>3, <1>4 DEF WaitForCode

LEMMA RegisterMoves ==
  ASSUME Shape, NEW t \in Task, Register(t)
  PROVE  Moves(t)
<1>1. /\ worker[t] \in Worker /\ worker[t].pc = "sso" /\ life[t] = "live"
      /\ UNCHANGED <<dead, coming, inbox, life, manifest, normal, entered>>
      /\ worker[t].pc \in Attempting /\ coming' \in Mails
  BY DEF Shape, Register, At, Attempting
<1>2. CASE /\ mark' = Result(worker[t].addr, TRUE, FALSE)
           /\ taken' = taken \cup {worker[t].addr}
           /\ \E export \in {0, 1} : queued' = [queued EXCEPT ![t] = @ + export]
           /\ RoundOver(t, [worker[t] EXCEPT !.collected = @ + 1])
  <2> DEFINE k == worker[t].collected + 1
             w == [worker[t] EXCEPT !.collected = k]
  <2>1. RoundOver(t, w)
    BY <1>2
  <2>2. k \in Nat
    BY <1>1 DEF Worker
  <2> HIDE DEF k
  <2>3. w \in Worker /\ w.collected = k /\ w.rounds = worker[t].rounds /\ w.round = worker[t].round
    BY <1>1, <2>2 DEF Worker
  <2> HIDE DEF w
  <2>4. PICK n \in Worker : /\ worker' = [worker EXCEPT ![t] = n]
                            /\ n.pc \in {"acquire", "drain"}
                            /\ Kept(n, w) /\ NextRound(n, w) /\ CodeSet(t)
    BY <2>1, <2>3, RoundOverIs
  <2>5. CollectMove(t, n, worker[t])
    BY <1>1, <1>2, <2>3, <2>4 DEF CollectMove, Kept, NextRound, k
  <2>6. ChildMove(t, n)
    BY <1>1, <2>4, <2>5 DEF ChildMove, Attempting
  <2> QED BY <2>6 DEF Moves
<1>3. CASE (AttemptFails(t, FALSE) \/ RoundFails(t)) /\ UNCHANGED <<taken, queued>>
  BY <1>1, <1>3, OverMoves
<1> QED BY <1>2, <1>3 DEF Register

LEMMA ExportMoves ==
  ASSUME Shape, NEW t \in Task, Export(t)
  PROVE  Moves(t)
<1>1. /\ worker[t] \in Worker /\ life[t] = "live" /\ worker' = [worker EXCEPT ![t] = worker[t]]
      /\ worker[t].pc \in Attempting => worker[t].addr \in Address
  BY DEF Shape, Export
<1>2. ExportMove(t, worker[t], worker[t])
  BY DEF Export, ExportMove, poolVars
<1>3. ChildMove(t, worker[t])
  BY <1>1, <1>2 DEF ChildMove, Export, poolVars, Shape
<1> QED BY <1>1, <1>3 DEF Moves

LEMMA DrainMoves ==
  ASSUME Shape, NEW t \in Task, Drain(t)
  PROVE  Moves(t)
<1> DEFINE n == [worker[t] EXCEPT !.pc = "import"]
<1>1. worker[t] \in Worker /\ worker[t].pc = "drain" /\ life[t] = "live" /\ queued[t] = 0
  BY DEF Shape, Drain, At
<1>2. n \in Worker /\ n.pc = "import" /\ Kept(n, worker[t]) /\ n.round = worker[t].round
  BY <1>1 DEF Worker, Kept, Place
<1>3. worker' = [worker EXCEPT ![t] = n]
  BY DEF Drain, Goto
<1> HIDE DEF n
<1>4. DrainMove(t, n, worker[t])
  BY <1>1, <1>2 DEF Drain, DrainMove, poolVars
<1>5. ChildMove(t, n)
  BY <1>1, <1>2, <1>3, <1>4 DEF ChildMove, Drain, poolVars, Attempting, Shape
<1> QED BY <1>2, <1>5 DEF Moves

LEMMA EndedIs ==
  ASSUME NEW w \in Worker, NEW k \in Nat
  PROVE  /\ Ended(w, k) \in Worker /\ Ended(w, k).pc = "end"
         /\ Ended(w, k).collected = w.collected /\ Ended(w, k).imported = k
<1> DEFINE f == [pc |-> "preflight", left |-> Credential, usable |-> FALSE, rounds |-> 1,
                 round |-> 1, attempt |-> 1, addr |-> Nothing, base |-> {}, snap |-> Nothing,
                 via |-> Nothing, mail |-> Nothing, collected |-> 0, imported |-> 0]
<1>1. Ended(w, k) = [f EXCEPT !.pc = "end", !.collected = w.collected, !.imported = k]
  BY DEF Ended, Fresh
<1>2. f \in Worker /\ w.collected \in Nat
  BY DEF Worker, Place
<1> HIDE DEF f
<1> QED BY <1>1, <1>2 DEF Worker, Place

LEMMA ImportMoves ==
  ASSUME Shape, NEW t \in Task, ImportAndExit(t)
  PROVE  Moves(t)
<1>1. /\ worker[t] \in Worker /\ worker[t].pc = "import" /\ life[t] = "live"
      /\ worker[t].collected \in Nat
      /\ life' = [life EXCEPT ![t] = "exited"]
      /\ UNCHANGED <<mark, dead, coming, inbox, queued, manifest, taken, entered>>
  BY DEF Shape, ImportAndExit, At, poolVars, Worker
<1>2. ASSUME NEW k \in Nat, Goto(t, Ended(worker[t], k)),
             \/ k = worker[t].collected /\ code' = code /\ normal' = normal + worker[t].collected
             \/ /\ code' = [code EXCEPT ![t] = 1]
                /\ normal' \in {normal, normal + worker[t].collected}
      PROVE  Moves(t)
  <2> DEFINE n == Ended(worker[t], k)
  <2>1. /\ n \in Worker /\ n.pc = "end" /\ n.collected = worker[t].collected /\ n.imported = k
    BY <1>1, EndedIs
  <2>2. worker' = [worker EXCEPT ![t] = n]
    BY <1>2 DEF Goto
  <2> HIDE DEF n
  <2>3. ExitMove(t, n, worker[t])
    BY <1>1, <1>2, <2>1 DEF ExitMove
  <2>4. ChildMove(t, n)
    BY <1>1, <2>1, <2>2, <2>3 DEF ChildMove, Attempting, Shape
  <2> QED BY <2>1, <2>4 DEF Moves
<1>3. 0 \in Nat
  OBVIOUS
<1> QED BY <1>1, <1>2, <1>3 DEF ImportAndExit

LEMMA ChildrenMove ==
  ASSUME Shape, NEW t \in Task, WorkerSteps(t)
  PROVE  Moves(t)
  BY PreflightMoves, PreflightEndsMoves, AcquireMoves, OpenMoves, PageMoves, WaitMoves,
     RegisterMoves, ExportMoves, DrainMoves, ImportMoves DEF WorkerSteps

-----------------------------------------------------------------------------
(* The types *)
LEMMA Marks ==
  ASSUME mark \in [Address -> Mark], taken \subseteq Address
  PROVE  /\ \A c \in Credential : Quarantine(c) \in [Address -> Mark]
         /\ \A a \in Address : Reservation(a) \in [Address -> Mark]
         /\ \A a \in Address, success, fault \in BOOLEAN : Result(a, success, fault) \in [Address -> Mark]
         /\ \A scope : ResetPool(scope) \in [Address -> Mark]
         /\ BusyReleased \in [Address -> Mark]
<1>1. \A c : Quarantine(c) \in [Address -> Mark]
  BY DEF Quarantine, Mark
<1>2. \A a \in Address : Reservation(a) \in [Address -> Mark]
  BY DEF Reservation, Mark
<1>3. \A a \in Address, success, fault \in BOOLEAN : Result(a, success, fault) \in [Address -> Mark]
  BY <1>1 DEF Result, Mark
<1>4. \A scope : ResetPool(scope) \in [Address -> Mark]
  BY DEF ResetPool, Mark
<1> QED BY <1>1, <1>2, <1>3, <1>4 DEF BusyReleased

LEMMA CodeTyped ==
  ASSUME Shape, NEW t \in Task, CodeSet(t)
  PROVE  code' \in [Task -> {0, 1, Exhausted, Killed}]
  BY DEF Shape, TypeOK, CodeSet

LEMMA ChildShape ==
  ASSUME Shape, NEW t \in Task, NEW n \in Worker, ChildMove(t, n), UNCHANGED managerVars
  PROVE  Shape'
<1>1. /\ mark \in [Address -> Mark] /\ taken \subseteq Address /\ dead \subseteq Credential
      /\ life \in [Task -> {"none", "live", "exited"}] /\ normal \in Nat
      /\ queued \in [Task -> Nat] /\ code \in [Task -> {0, 1, Exhausted, Killed}]
      /\ manifest \in [Task -> Manifest] /\ worker[t] \in Worker /\ worker \in [Task -> Worker]
      /\ worker[t].pc \in Attempting => worker[t].addr \in Address
      /\ entered \in Mails /\ inbox \in Mails
  BY DEF Shape, TypeOK
<1>2. worker' \in [Task -> Worker] /\ worker'[t] = n /\ \A u \in Task : u # t => worker'[u] = worker[u]
  BY <1>1 DEF ChildMove
<1>3. /\ mark' \in [Address -> Mark] /\ taken' \subseteq Address
      /\ life' \in [Task -> {"none", "live", "exited"}] /\ normal' \in Nat
      /\ queued' \in [Task -> Nat] /\ code' \in [Task -> {0, 1, Exhausted, Killed}]
      /\ manifest' \in [Task -> Manifest] /\ entered' \in Mails
  <2>1. CASE StartMove(t, n, worker[t])
    BY <1>1, <2>1, Marks, CodeTyped DEF StartMove
  <2>2. CASE AcquireMove(t, n, worker[t])
    BY <1>1, <2>2, Marks DEF AcquireMove
  <2>3. CASE AdvanceMove(t, n, worker[t])
    <3>1. CASE Enters(n, worker[t])
      <4>1. Owner[worker[t].addr] \in Credential
        BY <1>1, <3>1 DEF Enters, Attempting, Credential
      <4>2. n.mail \in Mail
        BY <1>1, <3>1, <4>1 DEF Enters, Mails
      <4>3. entered' \in Mails
        BY <1>1, <3>1, <4>1, <4>2 DEF Enters, Mails
      <4> QED BY <1>1, <2>3, <4>3 DEF AdvanceMove
    <3>2. CASE entered' = entered
      BY <1>1, <2>3, <3>2 DEF AdvanceMove
    <3> QED BY <2>3, <3>1, <3>2 DEF AdvanceMove
  <2>4. CASE OverMove(t, n, worker[t])
    BY <1>1, <2>4, Marks, CodeTyped DEF OverMove
  <2>5. CASE CollectMove(t, n, worker[t])
    <3>1. worker[t].addr \in Address
      BY <1>1, <2>5 DEF CollectMove, Attempting
    <3>2. queued' \in [Task -> Nat]
      BY <1>1, <2>5 DEF CollectMove
    <3> QED BY <1>1, <2>5, <3>1, <3>2, Marks, CodeTyped DEF CollectMove
  <2>6. CASE ExportMove(t, n, worker[t])
    <3>1. queued' \in [Task -> Nat]
      BY <1>1, <2>6 DEF ExportMove
    <3> QED BY <1>1, <2>6, <3>1 DEF ExportMove
  <2>7. CASE DrainMove(t, n, worker[t])
    BY <1>1, <2>7 DEF DrainMove
  <2>8. CASE ExitMove(t, n, worker[t])
    <3>1. worker[t].collected \in Nat
      BY <1>1 DEF Worker
    <3> QED BY <1>1, <2>8, <3>1 DEF ExitMove
  <2> QED BY <2>1, <2>2, <2>3, <2>4, <2>5, <2>6, <2>7, <2>8 DEF ChildMove
<1>4. \A u \in Task : worker'[u].pc \in Attempting => worker'[u].addr \in Address
  BY <1>2 DEF Shape, ChildMove
<1>5. TypeOK'
  BY <1>1, <1>3 DEF Shape, TypeOK, ChildMove, managerVars, turnVars
<1> QED BY <1>2, <1>3, <1>4, <1>5 DEF Shape, ChildMove, managerVars

LEMMA FreshIs ==
  ASSUME NEW k \in Nat
  PROVE  /\ Fresh(k) \in Worker /\ Fresh(k).pc = "preflight" /\ Fresh(k).rounds = k
         /\ Fresh(k).round = 1 /\ Fresh(k).collected = 0
  BY DEF Fresh, Worker, Place

LEMMA Launched ==
  ASSUME Shape, NEW t \in Task, NEW k \in Nat, BeginLaunch(t, k)
  PROVE  /\ launching' = t /\ life[t] = "none"
         /\ worker' = [worker EXCEPT ![t] = Fresh(k)] /\ worker' \in [Task -> Worker]
         /\ manifest' \in [Task -> Manifest] /\ runtime' \in Shown
         /\ \A u \in Task : worker'[u].pc \in Attempting => worker'[u].addr \in Address
<1>1. /\ launching' = t /\ t \in Unused /\ worker' = [worker EXCEPT ![t] = Fresh(k)]
      /\ manifest' = [manifest EXCEPT ![t] = "running"]
      /\ runtime' = [state |-> "running", code |-> Nothing]
  BY DEF BeginLaunch
<1>2. worker \in [Task -> Worker] /\ manifest \in [Task -> Manifest]
  BY DEF Shape
<1>3. manifest' \in [Task -> Manifest]
  BY <1>1, <1>2 DEF Manifest
<1>4. runtime' \in Shown
  BY <1>1 DEF Shown
<1>5. \A u \in Task : worker'[u].pc \in Attempting => worker'[u].addr \in Address
  BY <1>1, <1>2, FreshIs DEF Shape, Attempting
<1> QED BY <1>1, <1>2, <1>3, <1>4, <1>5, FreshIs DEF Unused

ShownStates == {"idle", "running", "polling", "completed", "failed", "cancelled",
                "mailbox_exhausted"}

LEMMA RuntimeChanges ==
  ASSUME Shape, NEW s \in ShownStates, NEW k \in {0, 1, Exhausted, Killed, Nothing}
  PROVE  /\ [runtime EXCEPT !.state = s] \in Shown
         /\ [runtime EXCEPT !.state = s, !.code = k] \in Shown
         /\ runtime.state \in ShownStates
  BY DEF Shape, Shown, ShownStates

(* The steps that leave the children's records, marks and inboxes alone. *)
Steady == UNCHANGED <<poolVars, workerVars>>

LEMMA SteadyShape ==
  ASSUME Shape, Steady, runtime' \in Shown,
         settings' \in Setting /\ process' \in Task \cup {Nothing} /\ launching' \in Task \cup {Nothing},
         awaited' \in Task \cup {Nothing} /\ term' \in Task \cup {Nothing},
         lock' \in {"free", "start", "monitor", "stop"},
         watcher' \in [Task -> {"none", "reading", "cancelled", "done"}],
         monitor' \in {"none", "poll", "count", "launch", "spawn", "await", "wait"},
         config' \in Setting /\ need' \in {"none", "normal", "build"} /\ gained' \in Nat
  PROVE  Shape'
  BY DEF Shape, Steady, TypeOK, poolVars, workerVars

LEMMA LaunchShape ==
  ASSUME Shape, NEW t \in Task, StartManual(t) \/ MonitorLaunches(t)
  PROVE  Shape'
<1>1. PICK k \in Nat : BeginLaunch(t, k)
  BY NumberAssumption DEF StartManual, MonitorLaunches
<1>2. /\ UNCHANGED <<poolVars, life, code, queued, normal, taken, entered, settings, process, watcher,
                     awaited, term, turnVars>>
      /\ lock' \in {"start", "monitor"} /\ monitor' \in {monitor, "spawn"}
  BY DEF StartManual, MonitorLaunches
<1>3. TypeOK'
  BY <1>1, <1>2, Launched DEF Shape, TypeOK, poolVars, turnVars
<1> QED BY <1>1, <1>2, <1>3, Launched DEF Shape, poolVars

LEMMA SpawnShape ==
  ASSUME Shape, Spawned \/ SpawnFails
  PROVE  Shape'
<1>1. launching \in Task
  BY DEF Shape, TypeOK, Spawned, SpawnFails
<1>2. CASE Spawned
  <2>1. /\ life' \in [Task -> {"none", "live", "exited"}] /\ process' \in Task
        /\ watcher' \in [Task -> {"none", "reading", "cancelled", "done"}]
        /\ monitor' \in {monitor, "await"} /\ awaited' \in {awaited, launching}
    BY <1>1, <1>2 DEF Spawned, Shape, TypeOK
  <2>2. TypeOK'
    BY <1>1, <1>2, <2>1 DEF Spawned, Shape, TypeOK, poolVars, turnVars
  <2> QED BY <1>2, <2>2 DEF Spawned, Shape, poolVars
<1>3. CASE SpawnFails
  <2>1. runtime' \in Shown
    BY <1>3, RuntimeChanges DEF SpawnFails, Show, Shape, ShownStates
  <2>2. config' \in Setting /\ need' \in {"none", "normal", "build"} /\ gained' \in Nat
    BY <1>3 DEF SpawnFails, EndTurn, Setting
  <2> QED BY <1>3, <2>1, <2>2, SteadyShape DEF SpawnFails, Steady, Shape, TypeOK
<1> QED BY <1>2, <1>3

LEMMA MonitorShape ==
  ASSUME Shape,
         StartMonitor \/ MonitorPolls \/ MonitorCounts \/ MonitorRefused \/ MonitorAwaited \/ MonitorWakes
           \/ \E s \in Setting : SaveSettings(s)
  PROVE  Shape'
<1>1. Steady /\ UNCHANGED <<process, launching, lock, watcher, term>>
  BY DEF StartMonitor, MonitorPolls, MonitorCounts, MonitorRefused, MonitorAwaited, MonitorWakes, SaveSettings, Steady
<1>2. runtime' \in Shown
  <2>1. CASE StartMonitor
    BY <2>1 DEF StartMonitor, Shown
  <2>2. CASE MonitorPolls
    BY <2>2, RuntimeChanges DEF MonitorPolls, Show, ShownStates, Shape
  <2>5. CASE MonitorCounts
    BY <2>5, RuntimeChanges DEF MonitorCounts, Show, ShownStates
  <2>3. CASE MonitorRefused \/ MonitorAwaited
    BY <2>3, RuntimeChanges DEF MonitorRefused, MonitorAwaited, Show, ShownStates
  <2>4. CASE MonitorWakes \/ \E s \in Setting : SaveSettings(s)
    BY <2>4 DEF MonitorWakes, SaveSettings, Shape
  <2> QED BY <2>1, <2>2, <2>3, <2>4, <2>5
<1>4. config' \in Setting /\ need' \in {"none", "normal", "build"} /\ gained' \in Nat
  <2>1. config \in Setting /\ need \in {"none", "normal", "build"} /\ gained \in Nat /\ settings \in Setting
    BY DEF Shape, TypeOK
  <2>2. "off" \in Setting
    BY DEF Setting
  <2>3. CASE MonitorPolls \/ MonitorRefused \/ MonitorAwaited
    BY <2>1, <2>2, <2>3 DEF MonitorPolls, MonitorRefused, MonitorAwaited, EndTurn
  <2>4. CASE MonitorCounts
    <3>1. \/ EndTurn
          \/ need' \in {"none", "normal", "build"} /\ UNCHANGED <<config, gained>>
      BY <2>4 DEF MonitorCounts
    <3> QED BY <2>1, <2>2, <3>1 DEF EndTurn
  <2>5. CASE StartMonitor \/ MonitorWakes \/ \E s \in Setting : SaveSettings(s)
    BY <2>1, <2>5 DEF StartMonitor, MonitorWakes, SaveSettings, turnVars
  <2> QED BY <2>3, <2>4, <2>5
<1>3. /\ settings' \in Setting /\ awaited' \in Task \cup {Nothing}
      /\ monitor' \in {"none", "poll", "count", "launch", "spawn", "await", "wait"}
  BY DEF StartMonitor, MonitorPolls, MonitorCounts, MonitorRefused, MonitorAwaited, MonitorWakes, SaveSettings,
         Shape, TypeOK
<1> QED BY <1>1, <1>2, <1>3, <1>4, SteadyShape DEF Shape, TypeOK

LEMMA WatcherShape ==
  ASSUME Shape, NEW t \in Task, WatcherEnds(t) \/ WatcherCancelled(t)
  PROVE  Shape'
<1>1. FinallyOfWatcher(t) /\ runtime' \in Shown
  <2>1. CASE WatcherEnds(t)
    <3>1. code[t] \in {0, 1, Exhausted, Killed, Nothing}
      BY DEF Shape, TypeOK
    <3> QED BY <2>1, <3>1, RuntimeChanges DEF WatcherEnds, ShownStates, Shape
  <2>2. CASE WatcherCancelled(t)
    BY <2>2 DEF WatcherCancelled, Shape
  <2> QED BY <2>1, <2>2
<1>2. /\ UNCHANGED <<dead, coming, inbox, life, code, worker, queued, normal, taken, entered, settings,
                     launching, lock, monitor, awaited, term, config, need, gained>>
  BY DEF WatcherEnds, WatcherCancelled, turnVars
<1>3. /\ manifest' \in [Task -> Manifest] /\ mark' \in [Address -> Mark]
      /\ process' \in Task \cup {Nothing}
      /\ watcher' \in [Task -> {"none", "reading", "cancelled", "done"}]
  BY <1>1, Marks DEF FinallyOfWatcher, Shape, TypeOK, Manifest
<1>4. TypeOK'
  BY <1>2, <1>3 DEF Shape, TypeOK
<1> QED BY <1>1, <1>2, <1>3, <1>4 DEF Shape

LEMMA StopShape ==
  ASSUME Shape, Stop \/ StopEnds
  PROVE  Shape'
<1>1. ASSUME NEW u \in Task \cup {Nothing} PROVE Cancelled(u) \in Shown
  <2>1. (IF u = Nothing THEN Nothing ELSE code[u]) \in {0, 1, Exhausted, Killed, Nothing}
    BY DEF Shape, TypeOK
  <2> DEFINE k == IF u = Nothing THEN Nothing ELSE code[u]
  <2>2. k \in {0, 1, Exhausted, Killed, Nothing} /\ Cancelled(u) = [runtime EXCEPT !.state = "cancelled", !.code = k]
    BY <2>1 DEF Cancelled
  <2> HIDE DEF k
  <2> QED BY <2>2, RuntimeChanges DEF ShownStates
<1>2. /\ UNCHANGED <<dead, coming, inbox, workerVars, settings, process, launching>>
      /\ mark' \in {mark, BusyReleased} /\ runtime' \in Shown
  BY <1>1 DEF Stop, StopEnds, Shape, TypeOK
<1>3. /\ lock' \in {"free", "start", "monitor", "stop"} /\ term' \in Task \cup {Nothing}
      /\ awaited' \in Task \cup {Nothing}
      /\ monitor' \in {"none", "poll", "count", "launch", "spawn", "await", "wait"}
      /\ watcher' \in [Task -> {"none", "reading", "cancelled", "done"}]
  BY DEF Stop, StopEnds, Shape, TypeOK
<1>4. mark' \in [Address -> Mark]
  BY <1>2, Marks DEF Shape, TypeOK
<1>6. config' \in Setting /\ need' \in {"none", "normal", "build"} /\ gained' \in Nat
  BY DEF Stop, StopEnds, EndTurn, Setting, Shape, TypeOK, turnVars
<1>5. TypeOK'
  BY <1>2, <1>3, <1>4, <1>6 DEF Shape, TypeOK, workerVars
<1> QED BY <1>2, <1>5 DEF Shape, workerVars

LEMMA DiesShape ==
  ASSUME Shape, Dies
  PROVE  /\ Shape' /\ worker' = [worker EXCEPT ![term] = Ended(worker[term], 0)]
         /\ term \in Task /\ UNCHANGED <<poolVars, manifest, normal, taken, entered, managerVars>>
<1>1. term \in Task /\ worker[term] \in Worker
  BY DEF Dies, Live, Shape, TypeOK
<1>2. worker' = [worker EXCEPT ![term] = Ended(worker[term], 0)]
  BY DEF Dies, Goto
<1>3. Ended(worker[term], 0) \in Worker /\ Ended(worker[term], 0).pc = "end"
  BY <1>1, EndedIs
<1>4. /\ worker' \in [Task -> Worker]
      /\ \A u \in Task : worker'[u].pc \in Attempting => worker'[u].addr \in Address
  BY <1>1, <1>2, <1>3 DEF Shape, Attempting
<1>5. /\ life' \in [Task -> {"none", "live", "exited"}] /\ queued' \in [Task -> Nat]
      /\ code' \in [Task -> {0, 1, Exhausted, Killed}]
      /\ UNCHANGED <<poolVars, manifest, normal, taken, entered, managerVars>>
  BY <1>1 DEF Dies, Shape, TypeOK
<1>6. TypeOK'
  BY <1>5 DEF Shape, TypeOK, poolVars, managerVars, turnVars
<1> QED BY <1>1, <1>2, <1>4, <1>5, <1>6 DEF Shape, poolVars, managerVars

LEMMA OutsideShape ==
  ASSUME Shape, Environment \/ \E s \in Scope : ResetByOperator(s)
  PROVE  Shape'
<1>1. ASSUME NEW c \in Credential, MailArrives(c), UNCHANGED managerVars PROVE Shape'
  <2>1. PICK m \in coming[c] : /\ coming' = [coming EXCEPT ![c] = @ \ {m}]
                               /\ inbox' = [inbox EXCEPT ![c] = @ \cup {m}]
    BY <1>1 DEF MailArrives
  <2>2. UNCHANGED <<mark, dead, workerVars>>
    BY <1>1 DEF MailArrives
  <2>3. coming' \in Mails /\ inbox' \in Mails
    BY <2>1 DEF Shape, Mails
  <2>4. TypeOK'
    BY <1>1, <2>2 DEF Shape, TypeOK, workerVars, managerVars, turnVars
  <2> QED BY <1>1, <2>2, <2>3, <2>4 DEF Shape, workerVars, managerVars
<1>2. ASSUME NEW c \in Credential, TokenDies(c), UNCHANGED managerVars PROVE Shape'
  BY <1>2 DEF TokenDies, Shape, TypeOK, workerVars, managerVars, turnVars
<1>3. ASSUME AccountLost PROVE Shape'
  BY <1>3 DEF AccountLost, Shape, TypeOK, poolVars, managerVars, turnVars
<1>5. ASSUME AccountGained PROVE Shape'
  BY <1>5 DEF AccountGained, Shape, TypeOK, poolVars
<1>4. ASSUME NEW s \in Scope, ResetByOperator(s) PROVE Shape'
  <2>1. mark' \in [Address -> Mark]
    BY <1>4, Marks DEF ResetByOperator, Shape, TypeOK
  <2> QED BY <1>4, <2>1 DEF ResetByOperator, Shape, TypeOK, managerVars, turnVars
<1> QED BY <1>1, <1>2, <1>3, <1>4, <1>5 DEF Environment

-----------------------------------------------------------------------------
(* One child at a time, and who answers for a reservation *)
LEMMA Idleness ==
  ASSUME Shape, Supervised, lock = "free", ~Busy
  PROVE  \A t \in Task : life[t] # "live"
  BY NothingAssumption DEF Supervised, Ending, Busy, Live

LEMMA ReleasedIs ==
  ASSUME mark' = BusyReleased
  PROVE  Reserved' = {}
  BY DEF BusyReleased, ResetPool, Targets, Reserved

LEMMA ChildSupervised ==
  ASSUME SupervisionInv, NEW t \in Task, NEW n \in Worker, ChildMove(t, n), UNCHANGED managerVars
  PROVE  SupervisionInv'
<1>1. Shape'
  BY ChildShape DEF SupervisionInv
<1>2. /\ life[t] = "live" /\ (life' = life \/ life' = [life EXCEPT ![t] = "exited"])
      /\ UNCHANGED <<settings, runtime, process, launching, lock, watcher, monitor, awaited, term>>
      /\ life \in [Task -> {"none", "live", "exited"}]
  BY DEF ChildMove, StartMove, AcquireMove, AdvanceMove, OverMove, CollectMove, ExportMove,
         DrainMove, ExitMove, managerVars, SupervisionInv, Shape, TypeOK
<1>3. Supervised'
  BY <1>2 DEF SupervisionInv, Supervised, Ending
<1>4. lock' = "stop" \/ watcher'[t] = "reading"
  BY <1>2 DEF SupervisionInv, Supervised, Ending
<1>5. ReservedForReason'
  BY <1>4 DEF ReservedForReason
<1> QED BY <1>1, <1>3, <1>5 DEF SupervisionInv

LEMMA LaunchSupervised ==
  ASSUME SupervisionInv, NEW t \in Task, StartManual(t) \/ MonitorLaunches(t)
  PROVE  SupervisionInv'
<1>1. Shape'
  BY LaunchShape DEF SupervisionInv
<1>2. /\ launching' = t /\ life[t] = "none" /\ lock = "free" /\ ~Busy
      /\ lock' \in {"start", "monitor"} /\ UNCHANGED <<mark, life, process, watcher, term>>
  BY NumberAssumption, Launched DEF StartManual, MonitorLaunches, poolVars, SupervisionInv
<1>3. \A u \in Task : life[u] # "live"
  BY <1>2, Idleness DEF SupervisionInv
<1>4. Supervised'
  BY <1>2, <1>3, NothingAssumption DEF Supervised
<1>5. ReservedForReason'
  BY <1>2 DEF SupervisionInv, ReservedForReason, Reserved
<1> QED BY <1>1, <1>4, <1>5 DEF SupervisionInv

LEMMA SpawnSupervised ==
  ASSUME SupervisionInv, Spawned \/ SpawnFails
  PROVE  SupervisionInv'
<1>1. Shape'
  BY SpawnShape DEF SupervisionInv
<1>2. /\ launching \in Task /\ launching' = Nothing /\ lock' = "free" /\ lock \in {"start", "monitor"}
      /\ \A u \in Task : life[u] # "live"
      /\ mark' = mark
      /\ life \in [Task -> {"none", "live", "exited"}]
      /\ watcher \in [Task -> {"none", "reading", "cancelled", "done"}]
  BY DEF Spawned, SpawnFails, SupervisionInv, Supervised, Shape, TypeOK, poolVars
<1>3. CASE Spawned
  <2>1. /\ life' = [life EXCEPT ![launching] = "live"] /\ process' = launching
        /\ watcher' = [watcher EXCEPT ![launching] = "reading"]
    BY <1>3 DEF Spawned
  <2>2. Supervised'
    BY <1>2, <2>1 DEF Supervised
  <2>3. ReservedForReason'
    BY <1>2, <2>1 DEF ReservedForReason
  <2> QED BY <1>1, <2>2, <2>3 DEF SupervisionInv
<1>4. CASE SpawnFails
  <2>1. UNCHANGED <<life, watcher>>
    BY <1>4 DEF SpawnFails, workerVars
  <2>2. Supervised'
    BY <1>2, <2>1 DEF Supervised
  <2>3. ReservedForReason'
    BY <1>2, <2>1 DEF SupervisionInv, ReservedForReason, Reserved
  <2> QED BY <1>1, <2>2, <2>3 DEF SupervisionInv
<1> QED BY <1>3, <1>4

LEMMA MonitorSupervised ==
  ASSUME SupervisionInv,
         StartMonitor \/ MonitorPolls \/ MonitorCounts \/ MonitorRefused \/ MonitorAwaited \/ MonitorWakes
           \/ \E s \in Setting : SaveSettings(s)
  PROVE  SupervisionInv'
<1>1. Shape'
  BY MonitorShape DEF SupervisionInv
<1>2. UNCHANGED <<mark, life, process, launching, lock, watcher, term>>
  BY DEF StartMonitor, MonitorPolls, MonitorCounts, MonitorRefused, MonitorAwaited, MonitorWakes, SaveSettings,
         poolVars, workerVars
<1>3. lock = "stop" => monitor = "none" /\ monitor' = "none"
  BY DEF StartMonitor, MonitorPolls, MonitorCounts, MonitorRefused, MonitorAwaited, MonitorWakes, SaveSettings,
         SupervisionInv, Supervised
<1>4. Supervised'
  BY <1>2, <1>3 DEF SupervisionInv, Supervised, Ending
<1>5. ReservedForReason'
  BY <1>2 DEF SupervisionInv, ReservedForReason, Reserved
<1> QED BY <1>1, <1>4, <1>5 DEF SupervisionInv

LEMMA WatcherSupervised ==
  ASSUME SupervisionInv, NEW t \in Task, WatcherEnds(t) \/ WatcherCancelled(t)
  PROVE  SupervisionInv'
<1>1. Shape'
  BY WatcherShape DEF SupervisionInv
<1>2. /\ mark' = BusyReleased /\ process' = IF process = t THEN Nothing ELSE process
      /\ watcher' = [watcher EXCEPT ![t] = "done"]
      /\ UNCHANGED <<life, launching, lock, monitor, term>>
      /\ life[t] = "live" => watcher[t] = "cancelled"
      /\ watcher \in [Task -> {"none", "reading", "cancelled", "done"}]
  BY DEF WatcherEnds, WatcherCancelled, FinallyOfWatcher, SupervisionInv, Shape, TypeOK
<1>3. Supervised'
  BY <1>2 DEF SupervisionInv, Supervised, Ending
<1>4. ReservedForReason'
  BY <1>2, ReleasedIs DEF ReservedForReason
<1> QED BY <1>1, <1>3, <1>4 DEF SupervisionInv

LEMMA StopSupervised ==
  ASSUME SupervisionInv, Stop \/ StopEnds \/ Dies
  PROVE  SupervisionInv'
<1>1. Shape'
  BY StopShape, DiesShape DEF SupervisionInv
<1>2. CASE Stop
  <2>1. /\ lock = "free" /\ monitor' = "none" /\ UNCHANGED <<life, process, launching>>
        /\ watcher' = watcher \/ (monitor = "await" /\ watcher' = [watcher EXCEPT ![awaited] = "cancelled"])
        /\ watcher \in [Task -> {"none", "reading", "cancelled", "done"}]
        /\ process \in Task \cup {Nothing}
    BY <1>2 DEF Stop, SupervisionInv, Shape, TypeOK, workerVars
  <2>2. CASE Busy
    <3>1. lock' = "stop" /\ term' = process /\ process \in Task
      BY <1>2, <2>1, <2>2 DEF Stop, Busy, Live
    <3>2. Supervised'
      BY <2>1, <3>1 DEF SupervisionInv, Supervised, Ending
    <3>3. ReservedForReason'
      BY <3>1 DEF ReservedForReason
    <3> QED BY <1>1, <3>2, <3>3 DEF SupervisionInv
  <2>3. CASE ~Busy
    <3>1. lock' = lock /\ mark' = BusyReleased
      BY <1>2, <2>3 DEF Stop
    <3>2. \A u \in Task : life[u] # "live"
      BY <2>1, <2>3, Idleness DEF SupervisionInv
    <3>3. Supervised'
      BY <2>1, <3>1, <3>2 DEF SupervisionInv, Supervised
    <3>4. ReservedForReason'
      BY <3>1, ReleasedIs DEF ReservedForReason
    <3> QED BY <1>1, <3>3, <3>4 DEF SupervisionInv
  <2> QED BY <2>2, <2>3
<1>3. CASE StopEnds
  <2>1. /\ lock = "stop" /\ ~Live(term) /\ mark' = BusyReleased /\ lock' = "free"
        /\ UNCHANGED <<life, process, launching, watcher, monitor>>
    BY <1>3 DEF StopEnds, workerVars
  <2>2. \A u \in Task : life[u] = "live" => process = u /\ watcher[u] = "reading"
    BY <2>1, NothingAssumption DEF SupervisionInv, Supervised, Ending, Live
  <2>3. Supervised'
    BY <2>1, <2>2 DEF SupervisionInv, Supervised
  <2>4. ReservedForReason'
    BY <2>1, ReleasedIs DEF ReservedForReason
  <2> QED BY <1>1, <2>3, <2>4 DEF SupervisionInv
<1>4. CASE Dies
  <2>1. /\ lock = "stop" /\ life' = [life EXCEPT ![term] = "exited"]
        /\ UNCHANGED <<process, launching, lock, watcher, monitor, term>>
        /\ life \in [Task -> {"none", "live", "exited"}]
    BY <1>4 DEF Dies, managerVars, SupervisionInv, Shape, TypeOK
  <2>2. Supervised'
    BY <2>1 DEF SupervisionInv, Supervised, Ending
  <2>3. ReservedForReason'
    BY <2>1 DEF ReservedForReason
  <2> QED BY <1>1, <2>2, <2>3 DEF SupervisionInv
<1> QED BY <1>2, <1>3, <1>4

LEMMA OutsideSupervised ==
  ASSUME SupervisionInv, Environment \/ \E s \in Scope : ResetByOperator(s)
  PROVE  SupervisionInv'
<1>1. Shape'
  BY OutsideShape DEF SupervisionInv
<1>2. UNCHANGED <<life, process, launching, lock, watcher, monitor, term>>
  BY DEF Environment, MailArrives, TokenDies, AccountLost, AccountGained, ResetByOperator, workerVars, managerVars
<1>3. Reserved' \subseteq Reserved
  <2>1. CASE Environment
    BY <2>1 DEF Environment, MailArrives, TokenDies, AccountLost, AccountGained, poolVars, Reserved
  <2>2. ASSUME NEW s \in Scope, ResetByOperator(s) PROVE Reserved' \subseteq Reserved
    BY <2>2 DEF ResetByOperator, ResetPool, Reserved
  <2> QED BY <2>1, <2>2
<1>4. Supervised'
  BY <1>2 DEF SupervisionInv, Supervised, Ending
<1>5. ReservedForReason'
  BY <1>2, <1>3 DEF SupervisionInv, ReservedForReason
<1> QED BY <1>1, <1>4, <1>5 DEF SupervisionInv

-----------------------------------------------------------------------------
LEMMA Starts == Init => SupervisionInv
<1> SUFFICES ASSUME Init PROVE SupervisionInv
  OBVIOUS
<1>1. /\ worker = [t \in Task |-> Fresh(1)] /\ Fresh(1) \in Worker /\ Fresh(1).pc = "preflight"
      /\ manifest \in [Task -> Manifest] /\ runtime \in Shown
  BY FreshIs DEF Init, Manifest, Shown
<1>2. TypeOK
  BY DEF Init, TypeOK, Mark, Setting
<1>3. Shape
  BY <1>1, <1>2 DEF Init, Shape, Attempting, Mails
<1>4. Supervised
  BY DEF Init, Supervised
<1>5. ReservedForReason
  BY DEF Init, ReservedForReason, Reserved
<1> QED BY <1>3, <1>4, <1>5 DEF SupervisionInv

(* The steps of the manager that start and end no child, nor wait for one. *)
Polling == StartMonitor \/ MonitorPolls \/ MonitorCounts \/ MonitorRefused \/ MonitorAwaited \/ MonitorWakes
             \/ \E s \in Setting : SaveSettings(s)

LEMMA StepKinds ==
  ASSUME Shape, Next
  PROVE  \/ \E t \in Task, n \in Worker : ChildMove(t, n) /\ UNCHANGED managerVars
         \/ \E t \in Task : StartManual(t) \/ MonitorLaunches(t)
         \/ Spawned \/ SpawnFails \/ Polling
         \/ \E t \in Task : WatcherEnds(t) \/ WatcherCancelled(t)
         \/ Stop \/ StopEnds \/ Dies
         \/ Environment \/ \E s \in Scope : ResetByOperator(s)
<1>1. ASSUME NEW t \in Task, Child(t)
      PROVE  \E n \in Worker : ChildMove(t, n) /\ UNCHANGED managerVars
  BY <1>1, ChildrenMove DEF Child, Moves
<1> QED BY <1>1 DEF Next, Manager, Polling

LEMMA SupervisionStep ==
  ASSUME SupervisionInv, [Next]_vars
  PROVE  SupervisionInv'
<1>1. CASE UNCHANGED vars
  <2>1. Shape'
    BY <1>1 DEF SupervisionInv, Shape, TypeOK, vars, poolVars, workerVars, managerVars, turnVars
  <2>2. Supervised' /\ ReservedForReason'
    BY <1>1 DEF SupervisionInv, Supervised, Ending, ReservedForReason, Reserved, vars, poolVars,
                workerVars, managerVars
  <2> QED BY <2>1, <2>2 DEF SupervisionInv
<1>2. CASE Next
  <2>1. Shape
    BY DEF SupervisionInv
  <2> QED BY <1>2, <2>1, StepKinds, ChildSupervised, LaunchSupervised, SpawnSupervised,
             MonitorSupervised, WatcherSupervised, StopSupervised, OutsideSupervised DEF Polling
<1> QED BY <1>1, <1>2

LEMMA Supervision == Spec => []SupervisionInv
<1> QED BY Starts, SupervisionStep, PTL DEF Spec

(* The types of the manager, its children and the mailbox pool. *)
THEOREM RegistrationTypeOK == Spec => []TypeOK
<1>1. SupervisionInv => TypeOK
  BY DEF SupervisionInv, Shape
<1> QED BY <1>1, Supervision, PTL

LEMMA Alone ==
  ASSUME SupervisionInv, NEW t \in Task, NEW u \in Task, life[t] = "live", life[u] = "live"
  PROVE  t = u
  BY NothingAssumption DEF SupervisionInv, Supervised, Ending

(* "One supervised browser registration task per API process" (manager.py),  *)
(* whatever the order in which runs are started, stopped, polled for and end. *)
THEOREM RegistrationOneChild == Spec => []OneChild
<1>1. ASSUME SupervisionInv PROVE OneChild
  <2> DEFINE S == {t \in Task : life[t] = "live"}
  <2>1. CASE S = {}
    BY <2>1, FS_EmptySet DEF OneChild
  <2>2. CASE S # {}
    <3>1. PICK t \in Task : life[t] = "live"
      BY <2>2
    <3>2. S = {t}
      BY <1>1, <3>1, Alone
    <3>3. Cardinality({t}) = 1
      BY FS_Singleton
    <3> HIDE DEF S
    <3>4. Cardinality(S) <= 1
      BY <3>2, <3>3
    <3> QED BY <3>4 DEF OneChild, S
  <2> QED BY <2>1, <2>2
<1> QED BY <1>1, Supervision, PTL

(* Once no child is alive or watched and no stop is under way, no mailbox is *)
(* reserved: the finally of _watch_process and stop (manager.py) release      *)
(* what a child left behind, however it ended.                               *)
THEOREM RegistrationReservationsReleased == Spec => []ReservationsReleased
<1>1. SupervisionInv => ReservationsReleased
  BY DEF SupervisionInv, ReservedForReason, ReservationsReleased
<1> QED BY <1>1, Supervision, PTL

-----------------------------------------------------------------------------
(* No account is lost at a regular end *)
LEMMA CountElsewhere ==
  ASSUME NEW t \in Task, CountFits(t), worker'[t] = worker[t], life'[t] = life[t],
         code'[t] = code[t], queued'[t] = queued[t]
  PROVE  CountFits(t)'
  BY DEF CountFits, RoundsFit

LEMMA ChildCounts ==
  ASSUME SupervisionInv, CountInv, NEW t \in Task, NEW n \in Worker, ChildMove(t, n)
  PROVE  CountInv'
<1>1. /\ worker \in [Task -> Worker] /\ life \in [Task -> {"none", "live", "exited"}]
      /\ queued \in [Task -> Nat] /\ code \in [Task -> {0, 1, Exhausted, Killed}]
  BY DEF SupervisionInv, Shape, TypeOK
<1>2. /\ life[t] = "live" /\ worker' = [worker EXCEPT ![t] = n] /\ worker'[t] = n
      /\ worker[t] \in Worker /\ RoundsFit(worker[t]) /\ queued[t] \in Nat
      /\ worker[t].pc = "import" => queued[t] = 0
  BY <1>1 DEF ChildMove, CountInv, CountFits
<1>3. /\ n.rounds \in Nat /\ n.round \in Nat /\ n.collected \in Nat
      /\ worker[t].rounds \in Nat /\ worker[t].round \in Nat /\ worker[t].collected \in Nat
  BY <1>2 DEF Worker
<1>4. ASSUME NEW u \in Task, u # t PROVE CountFits(u)'
  <2>1. /\ worker'[u] = worker[u] /\ life'[u] = life[u] /\ code'[u] = code[u]
        /\ queued'[u] = queued[u]
    BY <1>1, <1>4 DEF ChildMove, StartMove, AcquireMove, AdvanceMove, OverMove, CollectMove,
         ExportMove, DrainMove, ExitMove, CodeSet
  <2> QED BY <2>1, CountElsewhere DEF CountInv
<1>5. CASE StartMove(t, n, worker[t]) \/ AcquireMove(t, n, worker[t])
           \/ AdvanceMove(t, n, worker[t]) \/ OverMove(t, n, worker[t])
  <2>1. life' = life /\ queued' = queued /\ n.pc # "import"
        /\ n.collected = worker[t].collected
    BY <1>5 DEF StartMove, AcquireMove, AdvanceMove, OverMove, Kept, Attempting
  <2>2. /\ n.rounds = worker[t].rounds
        /\ worker[t].pc \notin {"drain", "import", "end"}
        /\ n.round = worker[t].round
             \/ (n.round = worker[t].round + 1 /\ worker[t].round < worker[t].rounds)
    BY <1>5 DEF StartMove, AcquireMove, AdvanceMove, OverMove, Kept, NextRound, Attempting
  <2>4. RoundsFit(n)
    BY <1>2, <1>3, <2>1, <2>2 DEF RoundsFit
  <2>3. CountFits(t)'
    BY <1>2, <2>1, <2>4 DEF CountFits, RoundsFit
  <2> QED BY <1>4, <2>3 DEF CountInv
<1>6. CASE CollectMove(t, n, worker[t])
  <2>1. /\ life' = life /\ n.pc # "import"
        /\ n.collected = worker[t].collected + 1
    BY <1>1, <1>6 DEF CollectMove
  <2>2. RoundsFit(n)
    BY <1>2, <1>3, <1>6 DEF RoundsFit, CollectMove, NextRound
  <2>3. CountFits(t)'
    BY <1>2, <1>3, <2>1, <2>2 DEF CountFits, RoundsFit
  <2> QED BY <1>4, <2>3 DEF CountInv
<1>7. CASE ExportMove(t, n, worker[t])
  <2>1. life' = life /\ n = worker[t] /\ queued[t] > 0 /\ queued'[t] = queued[t] - 1
    BY <1>1, <1>7 DEF ExportMove
  <2>2. CountFits(t)'
    BY <1>2, <1>3, <2>1 DEF CountFits, RoundsFit
  <2> QED BY <1>4, <2>2 DEF CountInv
<1>8. CASE DrainMove(t, n, worker[t])
  <2>1. /\ life' = life /\ queued' = queued /\ queued[t] = 0
        /\ n.collected = worker[t].collected
    BY <1>8 DEF DrainMove, Kept
  <2>2. RoundsFit(n)
    BY <1>2, <1>8 DEF RoundsFit, DrainMove, Kept
  <2>3. CountFits(t)'
    BY <1>2, <2>1, <2>2 DEF CountFits, RoundsFit
  <2> QED BY <1>4, <2>3 DEF CountInv
<1>9. CASE ExitMove(t, n, worker[t])
  <2>1. /\ life'[t] = "exited" /\ n.collected = worker[t].collected
        /\ (n.imported = worker[t].collected \/ code'[t] = 1)
    BY <1>1, <1>2, <1>9 DEF ExitMove
  <2>2. queued[t] = 0 /\ queued' = queued
    BY <1>2, <1>3, <1>9 DEF ExitMove
  <2>3. CountFits(t)'
    BY <1>2, <2>1, <2>2 DEF CountFits, Exhausted
  <2> QED BY <1>4, <2>3 DEF CountInv
<1> QED BY <1>5, <1>6, <1>7, <1>8, <1>9 DEF ChildMove

(* No other step changes the counts of a task it does not launch, spawn or   *)
(* kill.                                                                     *)
LEMMA LaunchCounts ==
  ASSUME SupervisionInv, CountInv, NEW t \in Task, StartManual(t) \/ MonitorLaunches(t)
  PROVE  CountInv'
<1>1. PICK k \in Nat : k >= 1 /\ BeginLaunch(t, k)
  BY NumberAssumption DEF StartManual, MonitorLaunches
<1>2. /\ life[t] = "none" /\ worker' = [worker EXCEPT ![t] = Fresh(k)]
      /\ worker \in [Task -> Worker]
      /\ UNCHANGED <<life, code, queued>>
  BY <1>1, Launched DEF SupervisionInv, Shape, StartManual, MonitorLaunches
<1>3. /\ worker'[t].pc = "preflight" /\ worker'[t].collected = 0 /\ worker'[t].round = 1
      /\ worker'[t].rounds = k
  BY <1>1, <1>2, FreshIs
<1>4. CountFits(t)'
  BY <1>1, <1>2, <1>3 DEF CountInv, CountFits, RoundsFit
<1>5. ASSUME NEW u \in Task, u # t PROVE CountFits(u)'
  BY <1>2, <1>5, CountElsewhere DEF CountInv
<1> QED BY <1>4, <1>5 DEF CountInv

LEMMA SpawnCounts ==
  ASSUME SupervisionInv, CountInv, Spawned
  PROVE  CountInv'
<1>1. /\ launching \in Task /\ life' = [life EXCEPT ![launching] = "live"]
      /\ life \in [Task -> {"none", "live", "exited"}]
      /\ UNCHANGED <<code, worker, queued>>
  BY DEF Spawned, SupervisionInv, Shape, TypeOK
<1>2. life[launching] = "none"
  BY DEF Spawned, SupervisionInv, Supervised
<1>3. PICK t \in Task : t = launching
  BY <1>1
<1>4. ASSUME NEW u \in Task PROVE CountFits(u)'
  <2>1. CASE u = t
    <3>1. /\ CountFits(u) /\ life[u] = "none" /\ life'[u] = "live" /\ worker'[u] = worker[u]
          /\ queued' = queued
      BY <1>1, <1>2, <1>3, <2>1 DEF CountInv
    <3> QED BY <3>1 DEF CountFits, RoundsFit
  <2>2. CASE u # t
    BY <1>1, <1>3, <2>2, CountElsewhere DEF CountInv
  <2> QED BY <2>1, <2>2
<1> QED BY <1>4 DEF CountInv

LEMMA DeathCounts ==
  ASSUME SupervisionInv, CountInv, Dies
  PROVE  CountInv'
<1>1. /\ term \in Task /\ life' = [life EXCEPT ![term] = "exited"]
      /\ code' = [code EXCEPT ![term] = Killed] /\ queued' = [queued EXCEPT ![term] = 0]
      /\ worker' = [worker EXCEPT ![term] = Ended(worker[term], 0)]
      /\ worker \in [Task -> Worker] /\ life \in [Task -> {"none", "live", "exited"}]
      /\ code \in [Task -> {0, 1, Exhausted, Killed}] /\ queued \in [Task -> Nat]
  BY DiesShape DEF Dies, SupervisionInv, Shape, TypeOK
<1>2. PICK t \in Task : t = term
  BY <1>1
<1>3. ASSUME NEW u \in Task PROVE CountFits(u)'
  <2>1. CASE u = t
    <3>1. life'[u] = "exited" /\ code'[u] = Killed
      BY <1>1, <1>2, <2>1
    <3> QED BY <3>1 DEF CountFits, Exhausted, Killed
  <2>2. CASE u # t
    BY <1>1, <1>2, <2>2, CountElsewhere DEF CountInv
  <2> QED BY <2>1, <2>2
<1> QED BY <1>3 DEF CountInv

(* The steps of the manager that launch, spawn and kill nobody. *)
Aside == \/ SpawnFails \/ Polling \/ Stop \/ StopEnds \/ Environment
         \/ \E t \in Task : WatcherEnds(t) \/ WatcherCancelled(t)
         \/ \E s \in Scope : ResetByOperator(s)

LEMMA AsideKeeps ==
  ASSUME Shape, Aside
  PROVE  UNCHANGED <<life, code, worker, queued>>
<1>1. CASE SpawnFails \/ Polling \/ Stop \/ StopEnds \/ Environment
           \/ \E s \in Scope : ResetByOperator(s)
  BY <1>1 DEF SpawnFails, Polling, StartMonitor, MonitorPolls, MonitorCounts, MonitorRefused, MonitorAwaited,
       MonitorWakes, SaveSettings, Stop, StopEnds, Environment, MailArrives, TokenDies,
       AccountLost, AccountGained, ResetByOperator, workerVars
<1>3. ASSUME NEW t \in Task, WatcherEnds(t) \/ WatcherCancelled(t)
      PROVE  UNCHANGED <<life, code, worker, queued>>
  BY <1>3 DEF WatcherEnds, WatcherCancelled
<1> QED BY <1>1, <1>3 DEF Aside

LEMMA CountStarts == Init => CountInv
<1> SUFFICES ASSUME Init PROVE CountInv
  OBVIOUS
<1>1. ASSUME NEW t \in Task PROVE CountFits(t)
  <2>1. worker[t] = Fresh(1) /\ life[t] = "none" /\ queued[t] = 0
    BY DEF Init
  <2>2. /\ Fresh(1).pc = "preflight" /\ Fresh(1).rounds = 1 /\ Fresh(1).round = 1
        /\ Fresh(1).collected = 0
    BY FreshIs
  <2> QED BY <2>1, <2>2 DEF CountFits, RoundsFit
<1> QED BY <1>1 DEF CountInv

LEMMA CountStep ==
  ASSUME SupervisionInv, CountInv, [Next]_vars
  PROVE  CountInv'
<1>1. CASE UNCHANGED vars
  BY <1>1 DEF CountInv, CountFits, RoundsFit, vars, workerVars
<1>2. CASE Aside
  <2>1. UNCHANGED <<life, code, worker, queued>>
    BY <1>2, AsideKeeps DEF SupervisionInv
  <2> QED BY <2>1, CountElsewhere DEF CountInv
<1>3. CASE Next
  <2>1. Shape
    BY DEF SupervisionInv
  <2> QED BY <1>2, <1>3, <2>1, StepKinds, ChildCounts, LaunchCounts, SpawnCounts, DeathCounts DEF Aside
<1> QED BY <1>1, <1>3

LEMMA Counts == Spec => [](SupervisionInv /\ CountInv)
<1>1. Init => SupervisionInv /\ CountInv
  BY Starts, CountStarts
<1>2. SupervisionInv /\ CountInv /\ [Next]_vars => (SupervisionInv /\ CountInv)'
  BY SupervisionStep, CountStep
<1> QED BY <1>1, <1>2, PTL DEF Spec

(* A child that ends with main's own exit code (runner.py) has handed every  *)
(* account it collected to the pool and is through with every export.        *)
THEOREM RegistrationEndAccounts == Spec => []EndAccounts
<1>1. SupervisionInv /\ CountInv => EndAccounts
  BY DEF CountInv, CountFits, EndAccounts
<1> QED BY <1>1, Counts, PTL


-----------------------------------------------------------------------------
(* No code is entered twice *)
LEMMA CodeElsewhere ==
  ASSUME NEW t \in Task, CodeFits(t), worker'[t] = worker[t], life'[t] = "live" => life[t] = "live",
         entered' = entered
  PROVE  CodeFits(t)'
  BY DEF CodeFits, Inbox

LEMMA ChildCodes ==
  ASSUME SupervisionInv, CodeInv, NEW t \in Task, NEW n \in Worker, ChildMove(t, n)
  PROVE  CodeInv'
<1>1. /\ life[t] = "live" /\ worker' = [worker EXCEPT ![t] = n] /\ worker'[t] = n
      /\ inbox' = inbox /\ worker \in [Task -> Worker]
      /\ life \in [Task -> {"none", "live", "exited"}]
      /\ CodeFits(t) /\ entered \in Mails
      /\ worker[t].pc \in Attempting => worker[t].addr \in Address
  BY DEF ChildMove, SupervisionInv, Shape, TypeOK, CodeInv
<1>2. \A u \in Task : life'[u] = "live" => life[u] = "live"
  BY <1>1 DEF ChildMove, StartMove, AcquireMove, AdvanceMove, OverMove, CollectMove,
       ExportMove, DrainMove, ExitMove
<1>3. ASSUME NEW u \in Task, u # t PROVE CodeFits(u)'
  <2>1. life'[u] # "live"
    BY <1>1, <1>2, <1>3, Alone
  <2> QED BY <2>1 DEF CodeFits
<1>4. CASE Enters(n, worker[t])
  <2>1. Owner[worker[t].addr] \in Credential
    BY <1>1, <1>4 DEF Enters, Attempting, Credential
  <2>2. \A c \in Credential : entered'[c] \subseteq inbox'[c]
    BY <1>1, <1>4, <2>1 DEF Enters, CodeInv, Mails
  <2>3. CodeFits(t)'
    BY <1>1, <1>4 DEF Enters, CodeFits
  <2> QED BY <1>3, <2>2, <2>3 DEF CodeInv
<1>5. CASE entered' = entered
  <2>1. \A c \in Credential : entered'[c] \subseteq inbox'[c]
    BY <1>1, <1>5 DEF CodeInv
  <2>2. ASSUME n.pc \notin {"submit", "code"} PROVE CodeFits(t)'
    <3>1. worker'[t].pc \notin {"submit", "code"}
      BY <1>1, <2>2
    <3> QED BY <3>1 DEF CodeFits
  <2>3. ASSUME ExportMove(t, n, worker[t]) PROVE CodeFits(t)'
    BY <1>1, <1>2, <1>5, <2>3, CodeElsewhere DEF ExportMove
  <2>4. ASSUME AdvanceMove(t, n, worker[t]), n.pc \in {"submit", "code"} PROVE CodeFits(t)'
    <3>1. worker'[t].addr = worker[t].addr /\ Inbox(t)' = Inbox(t)
      BY <1>1, <2>4 DEF AdvanceMove, Inbox
    <3>2. ASSUME n.pc = "code" PROVE CodeFits(t)'
      <4>1. /\ worker[t].pc = "submit"
            /\ worker'[t].base = worker[t].base /\ worker'[t].snap = worker[t].snap
        BY <1>1, <2>4, <3>2 DEF AdvanceMove, Enters
      <4> QED BY <1>1, <1>5, <3>1, <4>1 DEF CodeFits
    <3>3. ASSUME n.pc = "submit" PROVE CodeFits(t)'
      <4>1. /\ worker'[t].snap \in Sure =>
                 worker'[t].base = {worker'[t].snap} \X inbox[Owner[worker[t].addr]]
            /\ worker[t].pc = "open"
        BY <1>1, <2>4, <3>3 DEF AdvanceMove, Enters
      <4>2. Inbox(t) \in Credential
        BY <1>1, <4>1 DEF Attempting, Credential, Inbox
      <4>3. entered[Inbox(t)] \subseteq inbox[Owner[worker[t].addr]]
        BY <4>2 DEF CodeInv, Inbox
      <4> QED BY <1>1, <1>5, <3>1, <4>1, <4>3 DEF CodeFits
    <3> QED BY <2>4, <3>2, <3>3
  <2>5. n.pc \notin {"submit", "code"} \/ ExportMove(t, n, worker[t]) \/ AdvanceMove(t, n, worker[t])
    BY DEF ChildMove, StartMove, AcquireMove, OverMove, CollectMove, DrainMove, ExitMove
  <2> QED BY <1>3, <2>1, <2>2, <2>3, <2>4, <2>5 DEF CodeInv
<1>6. entered' = entered \/ Enters(n, worker[t])
  BY DEF ChildMove, StartMove, AcquireMove, AdvanceMove, OverMove, CollectMove, ExportMove,
       DrainMove, ExitMove
<1> QED BY <1>4, <1>5, <1>6

LEMMA ManagerCodes ==
  ASSUME SupervisionInv, CountInv, CodeInv,
         Spawned \/ Dies \/ \E t \in Task : StartManual(t) \/ MonitorLaunches(t)
  PROVE  CodeInv'
<1>1. /\ life \in [Task -> {"none", "live", "exited"}] /\ worker \in [Task -> Worker]
  BY DEF SupervisionInv, Shape, TypeOK
<1>2. inbox' = inbox /\ entered' = entered
  BY DEF Spawned, Dies, StartManual, MonitorLaunches, poolVars
<1>3. CASE Spawned
  <2>1. /\ launching \in Task /\ life' = [life EXCEPT ![launching] = "live"]
        /\ worker' = worker /\ life[launching] = "none"
    BY <1>3 DEF Spawned, SupervisionInv, Shape, TypeOK, Supervised, poolVars
  <2>2. worker[launching].pc = "preflight"
    BY <2>1 DEF CountInv, CountFits
  <2>3. ASSUME NEW u \in Task PROVE CodeFits(u)'
    <3>1. CASE u = launching
      <4>1. worker'[u].pc = "preflight"
        BY <2>1, <2>2, <3>1
      <4> QED BY <4>1 DEF CodeFits
    <3>2. CASE u # launching
      BY <1>1, <1>2, <2>1, <3>2, CodeElsewhere DEF CodeInv
    <3> QED BY <3>1, <3>2
  <2> QED BY <1>2, <2>3 DEF CodeInv
<1>4. CASE Dies
  <2>1. /\ term \in Task /\ life' = [life EXCEPT ![term] = "exited"]
        /\ worker' = [worker EXCEPT ![term] = Ended(worker[term], 0)]
    BY <1>4, DiesShape DEF Dies, SupervisionInv, poolVars
  <2>2. ASSUME NEW u \in Task PROVE CodeFits(u)'
    <3>1. CASE u = term
      <4>1. life'[u] = "exited"
        BY <1>1, <2>1, <3>1
      <4> QED BY <4>1 DEF CodeFits
    <3>2. CASE u # term
      BY <1>1, <1>2, <2>1, <3>2, CodeElsewhere DEF CodeInv
    <3> QED BY <3>1, <3>2
  <2> QED BY <1>2, <2>2 DEF CodeInv
<1>5. ASSUME NEW t \in Task, StartManual(t) \/ MonitorLaunches(t) PROVE CodeInv'
  <2>1. PICK k \in Nat : BeginLaunch(t, k)
    BY <1>5, NumberAssumption DEF StartManual, MonitorLaunches
  <2>2. /\ life[t] = "none" /\ worker' = [worker EXCEPT ![t] = Fresh(k)] /\ life' = life
    BY <1>5, <2>1, Launched DEF SupervisionInv, StartManual, MonitorLaunches, poolVars
  <2>3. ASSUME NEW u \in Task PROVE CodeFits(u)'
    <3>1. CASE u = t
      BY <2>2, <3>1 DEF CodeFits
    <3>2. CASE u # t
      BY <1>1, <1>2, <2>2, <3>2, CodeElsewhere DEF CodeInv
    <3> QED BY <3>1, <3>2
  <2> QED BY <1>2, <2>3 DEF CodeInv
<1> QED BY <1>3, <1>4, <1>5

LEMMA AsideCodes ==
  ASSUME SupervisionInv, CodeInv, Aside
  PROVE  CodeInv'
<1>1. UNCHANGED <<life, worker>>
  BY AsideKeeps DEF SupervisionInv
<1>2. entered' = entered /\ (inbox' = inbox \/ \E c \in Credential : MailArrives(c))
  BY DEF Aside, SpawnFails, Polling, StartMonitor, MonitorPolls, MonitorCounts, MonitorRefused,
       MonitorAwaited, MonitorWakes, SaveSettings, Stop, StopEnds, Environment, MailArrives, TokenDies,
       AccountLost, AccountGained, ResetByOperator, poolVars, workerVars, WatcherEnds,
       WatcherCancelled
<1>3. \A c \in Credential : inbox[c] \subseteq inbox'[c]
  BY <1>2 DEF MailArrives, SupervisionInv, Shape, Mails
<1>4. \A t \in Task : CodeFits(t)'
  BY <1>1, <1>2, CodeElsewhere DEF CodeInv
<1> QED BY <1>2, <1>3, <1>4 DEF CodeInv

LEMMA CodeStep ==
  ASSUME SupervisionInv, CountInv, CodeInv, [Next]_vars
  PROVE  CodeInv'
<1>1. CASE UNCHANGED vars
  BY <1>1 DEF CodeInv, CodeFits, Inbox, vars, workerVars, poolVars
<1>2. CASE Next
  <2>1. Shape
    BY DEF SupervisionInv
  <2> QED BY <1>2, <2>1, StepKinds, ChildCodes, ManagerCodes, AsideCodes DEF Aside
<1> QED BY <1>1, <1>2

(* Only the child itself enters a code. *)
LEMMA EntryIs ==
  ASSUME SupervisionInv, Next, NEW t \in Task, At(t, "code"), At(t, "register")'
  PROVE  Enters(worker'[t], worker[t])
<1>1. /\ life[t] = "live" /\ worker[t].pc = "code" /\ worker'[t].pc = "register"
      /\ worker \in [Task -> Worker]
  BY DEF At, SupervisionInv, Shape
<1>2. ASSUME NEW u \in Task, NEW n \in Worker, ChildMove(u, n)
      PROVE  Enters(worker'[t], worker[t])
  <2>1. u = t /\ n = worker'[t] /\ n.pc = "register"
    BY <1>1, <1>2 DEF ChildMove
  <2> QED BY <1>1, <1>2, <2>1 DEF ChildMove, StartMove, AcquireMove, AdvanceMove, OverMove,
             CollectMove, ExportMove, DrainMove, ExitMove
<1>3. ~Aside
  BY <1>1, AsideKeeps DEF SupervisionInv
<1>4. ~Spawned
  BY <1>1 DEF Spawned
<1>5. ~Dies
  <2>1. ASSUME Dies PROVE FALSE
    <3>1. worker'[t] = worker[t] \/ worker'[t] = Ended(worker[t], 0)
      BY <1>1, <2>1, DiesShape DEF SupervisionInv
    <3> QED BY <1>1, <3>1, EndedIs
  <2> QED BY <2>1
<1>6. \A u \in Task : ~(StartManual(u) \/ MonitorLaunches(u))
  <2>1. ASSUME NEW u \in Task, StartManual(u) \/ MonitorLaunches(u) PROVE FALSE
    <3>1. PICK k \in Nat : BeginLaunch(u, k)
      BY <2>1, NumberAssumption DEF StartManual, MonitorLaunches
    <3>2. life[u] = "none" /\ worker' = [worker EXCEPT ![u] = Fresh(k)]
      BY <3>1, Launched DEF SupervisionInv
    <3> QED BY <1>1, <3>2
  <2> QED BY <2>1
<1> QED BY <1>2, <1>3, <1>4, <1>5, <1>6, StepKinds DEF Aside, SupervisionInv

(* No code is entered twice, provided it is found by the way of reading that *)
(* the snapshot of capture_inbox_baseline (mail.py) was taken with, and this *)
(* is not IMAP: no earlier mail of the same inbox is mistaken for a new one. *)
THEOREM RegistrationCodeEnteredOnce == Spec => CodeEnteredOnce
<1>1. Init => SupervisionInv /\ CountInv /\ CodeInv
  <2>1. Init => CodeInv
    BY DEF Init, CodeInv, CodeFits
  <2> QED BY <2>1, Starts, CountStarts
<1>2. /\ SupervisionInv /\ CountInv /\ CodeInv /\ [Next]_vars
      => (SupervisionInv /\ CountInv /\ CodeInv)'
  BY SupervisionStep, CountStep, CodeStep
<1>3. ASSUME SupervisionInv, CodeInv, Next, NEW t \in Task, At(t, "code"), At(t, "register")',
             worker[t].snap = worker'[t].via, worker'[t].via # "imap"
      PROVE  worker'[t].mail \notin entered[Inbox(t)]
  <2>1. Enters(worker'[t], worker[t])
    BY <1>3, EntryIs
  <2>2. worker[t].snap \in Sure /\ <<worker[t].snap, worker'[t].mail>> \notin worker[t].base
    BY <1>3, <2>1 DEF Enters, Way, Sure
  <2>3. \A m \in entered[Inbox(t)] : <<worker[t].snap, m>> \in worker[t].base
    BY <1>3, <2>2 DEF CodeInv, CodeFits, At
  <2> QED BY <2>2, <2>3
<1>4. SupervisionInv /\ CodeInv /\ [Next]_vars =>
        [\A t \in Task :
           (/\ At(t, "code") /\ At(t, "register")'
            /\ worker[t].snap = worker'[t].via /\ worker'[t].via # "imap")
           => worker'[t].mail \notin entered[Inbox(t)]]_vars
  BY <1>3
<1> QED BY <1>1, <1>2, <1>4, PTL DEF Spec, CodeEnteredOnce


-----------------------------------------------------------------------------
(* A registered address stays out *)

(* No reset of the operator calls quarantined addresses back: a credential   *)
(* whose aliases are quarantined as a group loses the marks of those that    *)
(* have registered.                                                          *)
QuarantineStands == Scope \subseteq {"busy", "retryable", "used", "all"}

Out(a) == mark[a] \in {"used", "token_invalid"}
Untouched(a) == \A t \in Task : life[t] = "live" /\ worker[t].pc \in Attempting => worker[t].addr # a

LEMMA TakenIs ==
  TakenInv <=> \A a \in taken : Out(a) /\ Untouched(a)
  BY DEF TakenInv, Out, Untouched

(* What is out stays out, whatever is marked but the address an attempt has  *)
(* and whatever is released.                                                 *)
LEMMA StaysOut ==
  ASSUME mark \in [Address -> Mark], NEW a \in Address, Out(a)
  PROVE  /\ \A c : Quarantine(c)[a] \in {"used", "token_invalid"}
         /\ \A b \in Address : b # a => Reservation(b)[a] \in {"used", "token_invalid"}
         /\ \A b \in Address, success, fault \in BOOLEAN : b # a =>
              Result(b, success, fault)[a] \in {"used", "token_invalid"}
         /\ \A s \in {"busy", "retryable"} : ResetPool(s)[a] \in {"used", "token_invalid"}
<1>1. \A c : Quarantine(c)[a] \in {"used", "token_invalid"}
  BY DEF Quarantine, Out
<1>2. \A b \in Address : b # a => Reservation(b)[a] \in {"used", "token_invalid"}
  BY DEF Reservation, Out
<1>3. \A b \in Address, success, fault \in BOOLEAN : b # a =>
        Result(b, success, fault)[a] \in {"used", "token_invalid"}
  BY <1>1 DEF Result, Out
<1>4. \A s \in {"busy", "retryable"} : ResetPool(s)[a] \in {"used", "token_invalid"}
  BY DEF ResetPool, Targets, Out
<1> QED BY <1>1, <1>2, <1>3, <1>4

LEMMA ChildTaken ==
  ASSUME SupervisionInv, TakenInv, NEW t \in Task, NEW n \in Worker, ChildMove(t, n)
  PROVE  TakenInv'
<1>1. /\ life[t] = "live" /\ worker' = [worker EXCEPT ![t] = n] /\ worker'[t] = n
      /\ worker \in [Task -> Worker] /\ life \in [Task -> {"none", "live", "exited"}]
      /\ mark \in [Address -> Mark] /\ taken \subseteq Address
      /\ worker[t].pc \in Attempting => worker[t].addr \in Address
  BY DEF ChildMove, SupervisionInv, Shape, TypeOK
<1>2. \A u \in Task : life'[u] = "live" => u = t
  <2>1. \A u \in Task : life'[u] = "live" => life[u] = "live"
    BY <1>1 DEF ChildMove, StartMove, AcquireMove, AdvanceMove, OverMove, CollectMove, ExportMove,
         DrainMove, ExitMove
  <2> QED BY <1>1, <2>1, Alone
<1>3. ASSUME NEW a \in taken PROVE a \in Address /\ Out(a) /\ (worker[t].pc \in Attempting => worker[t].addr # a)
  BY <1>1, <1>3, TakenIs DEF Untouched
<1>4. ASSUME NEW a \in taken PROVE Out(a)' /\ (n.pc \in Attempting => n.addr # a)
  <2>1. CASE StartMove(t, n, worker[t])
    BY <1>1, <1>3, <2>1, StaysOut DEF StartMove, Out, Attempting
  <2>2. CASE AcquireMove(t, n, worker[t])
    <3>1. n.addr # a /\ n.addr \in Address
      BY <1>3, <2>2 DEF AcquireMove, Out
    <3> QED BY <1>1, <1>3, <2>2, <3>1, StaysOut DEF AcquireMove, Out
  <2>3. CASE AdvanceMove(t, n, worker[t])
    BY <1>3, <2>3 DEF AdvanceMove, Out
  <2>4. CASE OverMove(t, n, worker[t])
    <3>1. worker[t].addr # a /\ worker[t].addr \in Address /\ n.pc \notin Attempting
      BY <1>1, <1>3, <2>4 DEF OverMove, Attempting
    <3>2. CASE mark' = mark
      BY <1>3, <3>1, <3>2 DEF Out
    <3>3. ASSUME NEW fault \in BOOLEAN, mark' = Result(worker[t].addr, FALSE, fault) PROVE Out(a)'
      <4>1. Result(worker[t].addr, FALSE, fault)[a] \in {"used", "token_invalid"}
        BY <1>1, <1>3, <3>1, StaysOut
      <4> QED BY <3>3, <4>1 DEF Out
    <3> QED BY <2>4, <3>1, <3>2, <3>3 DEF OverMove
  <2>5. CASE CollectMove(t, n, worker[t])
    <3>1. worker[t].addr # a /\ worker[t].addr \in Address /\ n.pc \notin Attempting
      BY <1>1, <1>3, <2>5 DEF CollectMove, Attempting
    <3> QED BY <1>1, <1>3, <2>5, <3>1, StaysOut DEF CollectMove, Out
  <2>6. CASE ExportMove(t, n, worker[t]) \/ DrainMove(t, n, worker[t]) \/ ExitMove(t, n, worker[t])
    BY <1>3, <2>6 DEF ExportMove, DrainMove, ExitMove, Out, Attempting
  <2> QED BY <2>1, <2>2, <2>3, <2>4, <2>5, <2>6 DEF ChildMove
<1>5. ASSUME NEW a \in taken' PROVE Out(a)' /\ (n.pc \in Attempting => n.addr # a)
  <2>1. CASE a \in taken
    BY <1>4, <2>1
  <2>2. CASE a \notin taken
    <3>1. CollectMove(t, n, worker[t]) /\ a = worker[t].addr
      BY <1>5, <2>2 DEF ChildMove, StartMove, AcquireMove, AdvanceMove, OverMove, CollectMove, ExportMove,
         DrainMove, ExitMove
    <3>2. mark' = [mark EXCEPT ![a] = "used"] /\ a \in Address /\ n.pc \notin Attempting
      BY <1>1, <3>1 DEF CollectMove, Result, Attempting
    <3> QED BY <1>1, <3>2 DEF Out
  <2> QED BY <2>1, <2>2
<1>6. ASSUME NEW a \in taken' PROVE Out(a)' /\ Untouched(a)'
  BY <1>1, <1>2, <1>5 DEF Untouched
<1> QED BY <1>6 DEF TakenInv, Out, Untouched

(* The manager's own steps. *)
LEMMA ManagerTaken ==
  ASSUME SupervisionInv, CountInv, TakenInv,
         Spawned \/ Dies \/ \E t \in Task : StartManual(t) \/ MonitorLaunches(t)
  PROVE  TakenInv'
<1>1. /\ life \in [Task -> {"none", "live", "exited"}] /\ worker \in [Task -> Worker]
  BY DEF SupervisionInv, Shape, TypeOK
<1>2. mark' = mark /\ taken' = taken
  BY DEF Spawned, Dies, StartManual, MonitorLaunches, poolVars
<1>3. ASSUME NEW u \in Task, life'[u] = "live", worker'[u].pc \in Attempting
      PROVE  life[u] = "live" /\ worker[u] = worker'[u]
  <2>1. CASE Spawned
    <3>1. /\ launching \in Task /\ life' = [life EXCEPT ![launching] = "live"]
          /\ worker' = worker /\ life[launching] = "none"
      BY <2>1 DEF Spawned, SupervisionInv, Shape, TypeOK, Supervised
    <3>2. worker[launching].pc = "preflight"
      BY <3>1 DEF CountInv, CountFits
    <3> QED BY <1>1, <1>3, <3>1, <3>2 DEF Attempting
  <2>2. CASE Dies
    <3>1. /\ term \in Task /\ life' = [life EXCEPT ![term] = "exited"]
          /\ worker' = [worker EXCEPT ![term] = Ended(worker[term], 0)]
      BY <2>2, DiesShape DEF Dies, SupervisionInv
    <3> QED BY <1>1, <1>3, <3>1
  <2>3. ASSUME NEW t \in Task, StartManual(t) \/ MonitorLaunches(t)
        PROVE  life[u] = "live" /\ worker[u] = worker'[u]
    <3>1. PICK k \in Nat : BeginLaunch(t, k)
      BY <2>3, NumberAssumption DEF StartManual, MonitorLaunches
    <3>2. life[t] = "none" /\ worker' = [worker EXCEPT ![t] = Fresh(k)] /\ life' = life
      BY <2>3, <3>1, Launched DEF SupervisionInv, StartManual, MonitorLaunches
    <3> QED BY <1>1, <1>3, <3>2
  <2> QED BY <2>1, <2>2, <2>3
<1> QED BY <1>2, <1>3 DEF TakenInv

LEMMA AsideTaken ==
  ASSUME QuarantineStands, SupervisionInv, TakenInv, Aside
  PROVE  TakenInv'
<1>1. UNCHANGED <<life, worker>>
  BY AsideKeeps DEF SupervisionInv
<1>2. mark \in [Address -> Mark] /\ taken \subseteq Address
  BY DEF SupervisionInv, Shape, TypeOK
<1>3. \/ mark' = mark /\ taken' = taken
      \/ mark' = ResetPool("busy") /\ taken' = taken
      \/ \E s \in Scope : ResetByOperator(s)
  BY DEF Aside, SpawnFails, Polling, StartMonitor, MonitorPolls, MonitorCounts, MonitorRefused, MonitorAwaited,
       MonitorWakes, SaveSettings, Stop, StopEnds, Environment, MailArrives, TokenDies,
       AccountLost, AccountGained, poolVars, workerVars, WatcherEnds, WatcherCancelled, FinallyOfWatcher,
       BusyReleased
<1>4. \/ mark' = mark /\ taken' = taken
      \/ \E s \in {"busy", "retryable"} : mark' = ResetPool(s) /\ taken' = taken
      \/ taken' = {}
  BY <1>3 DEF ResetByOperator, QuarantineStands
<1>5. ASSUME NEW a \in taken' PROVE a \in taken /\ a \in Address /\ Out(a)'
  <2>1. a \in taken /\ a \in Address /\ Out(a)
    BY <1>2, <1>4, TakenIs
  <2> QED BY <1>2, <1>4, <2>1, StaysOut DEF Out
<1> QED BY <1>1, <1>5 DEF TakenInv, Out

LEMMA TakenStep ==
  ASSUME QuarantineStands, SupervisionInv, CountInv, TakenInv, [Next]_vars
  PROVE  TakenInv'
<1>1. CASE UNCHANGED vars
  BY <1>1 DEF TakenInv, vars, workerVars, poolVars
<1>2. CASE Next
  <2>1. Shape
    BY DEF SupervisionInv
  <2> QED BY <1>2, <2>1, StepKinds, ChildTaken, ManagerTaken, AsideTaken DEF Aside
<1> QED BY <1>1, <1>2

(* An address that has registered an account is not handed out again before  *)
(* the operator releases it, although every end of a child resets the pool   *)
(* (_outlook_available and reset_outlook_pool_state, mail.py) - unless the   *)
(* operator calls quarantined addresses back.                                *)
THEOREM RegistrationAddressKept ==
  ASSUME QuarantineStands
  PROVE  Spec => []RegisteredAddressKept
<1>1. Init => SupervisionInv /\ CountInv /\ TakenInv
  <2>1. Init => TakenInv
    BY DEF Init, TakenInv
  <2> QED BY <2>1, Starts, CountStarts
<1>2. /\ SupervisionInv /\ CountInv /\ TakenInv /\ [Next]_vars
      => (SupervisionInv /\ CountInv /\ TakenInv)'
  BY QuarantineStands, SupervisionStep, CountStep, TakenStep
<1>3. TakenInv => RegisteredAddressKept
  BY DEF TakenInv, RegisteredAddressKept, Reserved
<1> QED BY <1>1, <1>2, <1>3, PTL DEF Spec


-----------------------------------------------------------------------------
(* The waterline does not overshoot its target *)
LEMMA ChildMonitored ==
  ASSUME SupervisionInv, MonitorInv, NEW t \in Task, NEW n \in Worker, ChildMove(t, n),
         UNCHANGED managerVars
  PROVE  MonitorInv'
<1>1. /\ life[t] = "live" /\ worker' = [worker EXCEPT ![t] = n] /\ worker'[t] = n
      /\ worker \in [Task -> Worker] /\ life \in [Task -> {"none", "live", "exited"}]
      /\ UNCHANGED <<lock, monitor, awaited, launching, config, need, gained>>
  BY DEF ChildMove, SupervisionInv, Shape, TypeOK, managerVars, turnVars
<1>2. monitor \in {"none", "await"} /\ lock \in {"free", "stop"}
  BY <1>1 DEF MonitorInv, SupervisionInv, Supervised, Shape, TypeOK
<1>3. \A u \in Task : life'[u] = "live" => life[u] = "live" /\ u = t
  <2>1. \A u \in Task : life'[u] = "live" => life[u] = "live"
    BY <1>1 DEF ChildMove, StartMove, AcquireMove, AdvanceMove, OverMove, CollectMove, ExportMove,
         DrainMove, ExitMove
  <2> QED BY <1>1, <2>1, Alone
<1>4. life'[t] = "live" => n.rounds = worker[t].rounds /\ normal' = normal
  BY <1>1 DEF ChildMove, StartMove, AcquireMove, AdvanceMove, OverMove, CollectMove, ExportMove,
       DrainMove, ExitMove, Kept
<1>5. need' = "normal" => \A u \in Task : life'[u] = "live" => worker'[u].rounds = 1 /\ Short'
  BY <1>1, <1>3, <1>4 DEF MonitorInv, Short
<1>6. monitor' = "await" => awaited' \in Task /\ \A u \in Task : life'[u] = "live" => u = awaited'
  BY <1>1, <1>3 DEF MonitorInv
<1> QED BY <1>1, <1>2, <1>5, <1>6 DEF MonitorInv

LEMMA LaunchMonitored ==
  ASSUME SupervisionInv, MonitorInv, NEW t \in Task, StartManual(t) \/ MonitorLaunches(t)
  PROVE  MonitorInv'
<1>1. CASE StartManual(t)
  BY <1>1 DEF StartManual, MonitorInv, turnVars
<1>2. CASE MonitorLaunches(t)
  <2>1. /\ monitor = "launch" /\ monitor' = "spawn" /\ lock' = "monitor" /\ normal' = normal
        /\ BeginLaunch(t, 1)
    BY <1>2 DEF MonitorLaunches
  <2>2. launching' = t /\ worker' = [worker EXCEPT ![t] = Fresh(1)] /\ worker \in [Task -> Worker]
    BY <2>1, Launched DEF SupervisionInv, Shape
  <2>3. worker'[t].rounds = 1
    BY <2>2, FreshIs
  <2>4. \A u \in Task : life[u] # "live"
    BY <2>1 DEF MonitorInv
  <2>5. UNCHANGED <<life, config, need, gained>>
    BY <1>2 DEF MonitorLaunches, turnVars
  <2> QED BY <2>1, <2>2, <2>3, <2>4, <2>5 DEF MonitorInv, Short
<1> QED BY <1>1, <1>2

LEMMA SpawnMonitored ==
  ASSUME SupervisionInv, MonitorInv, Spawned \/ SpawnFails
  PROVE  MonitorInv'
<1>1. /\ launching \in Task /\ lock' = "free" /\ lock \in {"start", "monitor"}
      /\ life \in [Task -> {"none", "live", "exited"}]
      /\ UNCHANGED <<worker, normal>>
      /\ \A t \in Task : life[t] # "live"
  BY DEF Spawned, SpawnFails, SupervisionInv, Supervised, Shape, TypeOK, workerVars
<1>2. CASE Spawned
  <2>1. /\ life' = [life EXCEPT ![launching] = "live"]
        /\ monitor' = IF lock = "monitor" THEN "await" ELSE monitor
        /\ awaited' = IF lock = "monitor" THEN launching ELSE awaited
    BY <1>2 DEF Spawned
  <2>4. UNCHANGED <<config, need, gained>>
    BY <1>2 DEF Spawned, turnVars
  <2>5. \A u \in Task : life'[u] = "live" => u = launching
    BY <1>1, <2>1
  <2>2. CASE lock = "monitor"
    <3>1. /\ monitor = "spawn" /\ monitor' = "await" /\ awaited' = launching
          /\ worker[launching].rounds = 1 /\ (need = "normal" => Short)
      BY <2>1, <2>2 DEF MonitorInv
    <3>2. need' = "normal" => Short'
      BY <1>1, <2>4, <3>1 DEF Short
    <3> QED BY <1>1, <2>4, <2>5, <3>1, <3>2 DEF MonitorInv
  <2>3. CASE lock = "start"
    <3>1. monitor = "none" /\ monitor' = "none" /\ need = "none"
      BY <2>1, <2>3 DEF MonitorInv
    <3> QED BY <1>1, <2>4, <3>1 DEF MonitorInv
  <2> QED BY <1>1, <2>2, <2>3
<1>3. CASE SpawnFails
  BY <1>1, <1>3 DEF SpawnFails, MonitorInv, workerVars, EndTurn
<1> QED BY <1>2, <1>3

LEMMA PollingMonitored ==
  ASSUME SupervisionInv, MonitorInv, Polling
  PROVE  MonitorInv'
<1>1. UNCHANGED <<life, worker, normal, process, launching, lock, watcher, term>>
  BY DEF Polling, StartMonitor, MonitorPolls, MonitorCounts, MonitorRefused, MonitorAwaited, MonitorWakes,
       SaveSettings, workerVars
<1>2. CASE StartMonitor
  <2>1. \A u \in Task : life[u] # "live"
    BY <1>2, Idleness DEF StartMonitor, SupervisionInv
  <2> QED BY <1>1, <1>2, <2>1 DEF StartMonitor, MonitorInv, turnVars
<1>3. CASE MonitorPolls
  <2>1. /\ monitor = "poll" /\ monitor' \in {"none", "count"} /\ need' = need
        /\ lock # "stop"
    BY <1>3 DEF MonitorPolls, SupervisionInv, Supervised
  <2> QED BY <1>1, <2>1 DEF MonitorInv
<1>4. CASE MonitorCounts
  <2>1. monitor = "count" /\ lock # "stop"
    BY <1>4 DEF MonitorCounts, SupervisionInv, Supervised
  <2>2. CASE monitor' \in {"none", "wait"} /\ EndTurn
    BY <1>1, <2>1, <2>2 DEF MonitorInv, EndTurn
  <2>3. CASE monitor' = "launch" /\ UNCHANGED <<config, gained>>
    <3>1. need' = "normal" => normal < Target[config]
      BY <1>4, <2>3 DEF MonitorCounts
    <3>2. normal \in Nat /\ Target[config] \in Nat /\ gained \in Nat
      BY NumberAssumption DEF SupervisionInv, Shape, TypeOK
    <3>3. need' = "normal" => Short'
      BY <1>1, <2>3, <3>1, <3>2 DEF Short
    <3> QED BY <1>1, <2>1, <2>3, <3>3 DEF MonitorInv
  <2> QED BY <1>4, <2>2, <2>3 DEF MonitorCounts
<1>5. CASE MonitorRefused
  BY <1>1, <1>5 DEF MonitorRefused, MonitorInv, EndTurn
<1>6. CASE MonitorWakes \/ \E s \in Setting : SaveSettings(s)
  <2>1. /\ \/ monitor' = monitor /\ awaited' = awaited
           \/ monitor = "wait" /\ monitor' = "poll"
        /\ UNCHANGED <<config, need, gained>>
    BY <1>6 DEF MonitorWakes, SaveSettings, turnVars
  <2> QED BY <1>1, <2>1 DEF MonitorInv, Short
<1>7. CASE MonitorAwaited
  <2>1. /\ monitor = "await" /\ watcher[awaited] = "done" /\ monitor' \in {"none", "wait"}
        /\ EndTurn
    BY <1>7 DEF MonitorAwaited
  <2>2. \A u \in Task : life[u] # "live"
    BY <2>1 DEF MonitorInv, SupervisionInv, Supervised, Ending
  <2> QED BY <1>1, <2>1, <2>2 DEF MonitorInv, EndTurn
<1> QED BY <1>2, <1>3, <1>4, <1>5, <1>6, <1>7 DEF Polling

LEMMA OtherMonitored ==
  ASSUME SupervisionInv, MonitorInv,
         \/ Stop \/ StopEnds \/ Dies \/ Environment
         \/ \E t \in Task : WatcherEnds(t) \/ WatcherCancelled(t)
         \/ \E s \in Scope : ResetByOperator(s)
  PROVE  MonitorInv'
<1>1. CASE Stop
  <2>1. monitor' = "none" /\ lock = "free" /\ UNCHANGED <<life, worker, normal>>
    BY <1>1 DEF Stop, workerVars
  <2>2. CASE Busy
    BY <1>1, <2>1, <2>2 DEF Stop, MonitorInv, Short, turnVars
  <2>3. CASE ~Busy
    BY <1>1, <2>1, <2>3 DEF Stop, MonitorInv, EndTurn
  <2> QED BY <2>2, <2>3
<1>2. CASE StopEnds
  <2>1. monitor' = "none" /\ lock' = "free" /\ need' = "none"
    BY <1>2 DEF StopEnds, SupervisionInv, Supervised, EndTurn
  <2> QED BY <2>1 DEF MonitorInv
<1>3. CASE Dies
  <2>1. /\ monitor = "none" /\ lock = "stop" /\ UNCHANGED <<lock, monitor, config, need, gained, normal>>
        /\ term \in Task /\ life' = [life EXCEPT ![term] = "exited"]
        /\ worker' = [worker EXCEPT ![term] = Ended(worker[term], 0)]
        /\ life \in [Task -> {"none", "live", "exited"}] /\ worker \in [Task -> Worker]
    BY <1>3, DiesShape DEF Dies, managerVars, turnVars, SupervisionInv, Supervised, Shape, TypeOK
  <2>2. \A u \in Task : life'[u] = "live" => life[u] = "live" /\ worker'[u] = worker[u]
    BY <2>1
  <2> QED BY <2>1, <2>2 DEF MonitorInv, Short
<1>4. CASE \/ Environment
           \/ \E t \in Task : WatcherEnds(t) \/ WatcherCancelled(t)
           \/ \E s \in Scope : ResetByOperator(s)
  <2>1. UNCHANGED <<life, worker, launching, lock, monitor, awaited, config, need>>
    BY <1>4 DEF Environment, MailArrives, TokenDies, AccountLost, AccountGained, ResetByOperator,
         workerVars, managerVars, turnVars, WatcherEnds, WatcherCancelled
  <2>2. \/ normal' = normal /\ gained' = gained
        \/ normal' = normal - 1 /\ gained' = gained
        \/ normal' = normal + 1 /\ (need = "normal" => gained' = gained + 1)
    BY <1>4 DEF Environment, MailArrives, TokenDies, AccountLost, AccountGained, ResetByOperator,
         workerVars, managerVars, turnVars, WatcherEnds, WatcherCancelled
  <2>3. normal \in Nat /\ Target[config] \in Nat /\ gained \in Nat
    BY NumberAssumption DEF SupervisionInv, Shape, TypeOK
  <2>4. need = "normal" /\ Short => Short'
    BY <2>1, <2>2, <2>3 DEF Short
  <2> QED BY <2>1, <2>4 DEF MonitorInv
<1> QED BY <1>1, <1>2, <1>3, <1>4

LEMMA MonitorStep ==
  ASSUME SupervisionInv, MonitorInv, [Next]_vars
  PROVE  MonitorInv'
<1>1. CASE UNCHANGED vars
  BY <1>1 DEF MonitorInv, Short, vars, workerVars, managerVars, turnVars
<1>2. CASE Next
  <2>1. Shape
    BY DEF SupervisionInv
  <2> QED BY <1>2, <2>1, StepKinds, ChildMonitored, LaunchMonitored, SpawnMonitored,
             PollingMonitored, OtherMonitored
<1> QED BY <1>1, <1>2

(* A child adds accounts to the pool when it exits, and only then. *)
LEMMA WithinTarget ==
  ASSUME SupervisionInv, CountInv, MonitorInv, Next, need = "normal", normal' > normal,
         NEW t \in Task, life[t] = "live", life'[t] = "exited"
  PROVE  normal' <= Target[config] + gained
<1>1. /\ normal \in Nat /\ Target[config] \in Nat /\ gained \in Nat
      /\ life \in [Task -> {"none", "live", "exited"}] /\ worker[t] \in Worker
  BY NumberAssumption DEF SupervisionInv, Shape, TypeOK
<1>2. ~Aside
  BY AsideKeeps DEF SupervisionInv
<1>3. ~Spawned
  BY <1>1 DEF Spawned
<1>4. ~Dies /\ \A u \in Task : ~(StartManual(u) \/ MonitorLaunches(u))
  BY <1>1 DEF Dies, StartManual, MonitorLaunches
<1>5. \E u \in Task, n \in Worker : ChildMove(u, n)
  BY <1>2, <1>3, <1>4, StepKinds DEF Aside, SupervisionInv
<1>6. PICK u \in Task, n \in Worker : ChildMove(u, n)
  BY <1>5
<1>7. u = t
  BY <1>6, Alone DEF ChildMove
<1>8. normal' \in {normal, normal + worker[t].collected}
  BY <1>1, <1>6, <1>7 DEF ChildMove, StartMove, AcquireMove, AdvanceMove, OverMove, CollectMove,
       ExportMove, DrainMove, ExitMove
<1>9. worker[t].rounds = 1 /\ Short
  BY DEF MonitorInv
<1>10. /\ worker[t].collected <= worker[t].round /\ worker[t].round <= worker[t].rounds
       /\ worker[t].collected \in Nat /\ worker[t].round \in Nat
  BY <1>1 DEF CountInv, CountFits, RoundsFit, Worker
<1>11. worker[t].collected <= 1 /\ worker[t].collected \in Nat
  BY <1>9, <1>10
<1> QED BY <1>1, <1>8, <1>9, <1>11 DEF Short

(* A run that the waterline has started for want of a normal account fills   *)
(* the pool to its target at most (_waterline_loop, manager.py): it has one  *)
(* round, and no other run comes between the count and its import.           *)
THEOREM RegistrationNoOvershoot == Spec => NoOvershoot
<1>1. Init => SupervisionInv /\ CountInv /\ MonitorInv
  <2>1. Init => MonitorInv
    BY DEF Init, MonitorInv
  <2> QED BY <2>1, Starts, CountStarts
<1>2. /\ SupervisionInv /\ CountInv /\ MonitorInv /\ [Next]_vars
      => (SupervisionInv /\ CountInv /\ MonitorInv)'
  BY SupervisionStep, CountStep, MonitorStep
<1>3. /\ SupervisionInv /\ CountInv /\ MonitorInv /\ [Next]_vars
      => [(/\ need = "normal" /\ normal' > normal
           /\ \E t \in Task : life[t] = "live" /\ life'[t] = "exited")
          => normal' <= Target[config] + gained]_vars
  BY WithinTarget
<1> QED BY <1>1, <1>2, <1>3, PTL DEF Spec, NoOvershoot


=============================================================================
