------------------------- MODULE RegistrationWorker -------------------------
(***************************************************************************)
(* The registration child process (control/registration/runner.py) and the  *)
(* thread in it that exports the accounts' credentials (cpa_queue.py).      *)
(*                                                                         *)
(* A child makes so many rounds, a round so many attempts, and an attempt   *)
(* takes one mailbox through the sign-up pages.  What happens on a page is  *)
(* its outcome: the page went through, raised RetryableMailboxError         *)
(* ("retry"), or raised something else ("error").                           *)
(***************************************************************************)
EXTENDS OutlookPool

CONSTANTS
  Task,         \* the runs an API process may launch, in the order of their numbers
  MaxAttempts,  \* run.mailbox_attempts
  Nothing       \* no address, no mail, no task

ASSUME AttemptAssumption == MaxAttempts \in Nat \ {0}
ASSUME NothingAssumption == Nothing \notin Task /\ Nothing \notin Address

VARIABLES
  life,      \* task -> "none" | "live" | "exited": its process
  code,      \* task -> the exit code its process has, or will have
  worker,    \* task -> where main() and run_one() stand
  queued,    \* task -> accounts waiting for their CPA export
  manifest,  \* task -> "none" | "running" | "final": its CPA manifest
  normal,    \* accounts of the pool that count as available
  taken,     \* addresses that have registered an account and were not released since
  entered    \* history: credential -> mails of its inbox whose code was entered

workerVars == <<life, code, worker, queued, manifest, normal, taken, entered>>

Exhausted == 75   \* MAILBOX_EXHAUSTED_EXIT_CODE
Killed == 143     \* the process died of SIGTERM or SIGKILL

(* What an attempt asks to be sent: one mail, told apart by the attempt. *)
MailOf(t) == <<t, worker[t].round, worker[t].attempt>>

Fresh(rounds) ==
  [pc |-> "preflight", left |-> Credential, usable |-> FALSE, rounds |-> rounds,
   round |-> 1, attempt |-> 1, addr |-> Nothing, base |-> {}, snap |-> Nothing,
   via |-> Nothing, mail |-> Nothing, collected |-> 0, imported |-> 0]

(* The inbox the mails of its address are read from. *)
Inbox(t) == Owner[worker[t].addr]

(* The attempt is done with its code. *)
Forget(w) == [w EXCEPT !.base = {}, !.snap = Nothing, !.via = Nothing, !.mail = Nothing]

At(t, pc) == life[t] = "live" /\ worker[t].pc = pc

Goto(t, w) == worker' = [worker EXCEPT ![t] = w]

-----------------------------------------------------------------------------
(* One credential of OutlookTokenProvider.preflight.  A credential that is   *)
(* quarantined is passed over, so its recovery further down is never reached.*)
Preflight(t, c) ==
  /\ At(t, "preflight")
  /\ c \in worker[t].left
  /\ \E out \in IF Quarantined(c) THEN {"skipped"} ELSE ListMessages(c) :
       /\ mark' = IF out = "definitive" THEN Quarantine(c) ELSE mark
       /\ Goto(t, [worker[t] EXCEPT !.left = @ \ {c},
                     !.usable = @ \/ out \in Way \cup {"request", "transient"}])
  /\ UNCHANGED <<dead, coming, inbox, life, code, queued, manifest, normal, taken, entered>>

(* The preflight is switched off, so that every credential passes. *)
Unchecked(t) == worker[t].left = Credential

(* preflight_mailboxes, then worker.start(), which may raise. *)
PreflightEnds(t) ==
  /\ At(t, "preflight")
  /\ worker[t].left = {} \/ Unchecked(t)
  /\ LET passes == worker[t].usable \/ Unchecked(t)
     IN  \E started \in BOOLEAN :
           /\ passes \/ ~started
           /\ Goto(t, [worker[t] EXCEPT !.pc = IF started THEN "acquire" ELSE "drain"])
           /\ code' = [code EXCEPT ![t] = IF started THEN 0
                                          ELSE IF passes THEN 1 ELSE Exhausted]
  /\ UNCHANGED <<poolVars, life, queued, manifest, normal, taken, entered>>

(* MailboxPool.acquire; old: the reservations that are an hour old.  None is *)
(* left: MailboxUnavailableError ends the rounds.                            *)
Acquire(t) ==
  /\ At(t, "acquire")
  /\ \E old \in SUBSET Reserved :
       \/ \E a \in Address :
            /\ Available(a, old)
            /\ mark' = Reservation(a)
            /\ Goto(t, [worker[t] EXCEPT !.pc = "open", !.addr = a])
            /\ UNCHANGED code
       \/ /\ \A a \in Address : ~Available(a, old)
          /\ Goto(t, [worker[t] EXCEPT !.pc = "drain"])
          /\ code' = [code EXCEPT ![t] = Exhausted]
          /\ UNCHANGED mark
  /\ UNCHANGED <<dead, coming, inbox, life, queued, manifest, normal, taken, entered>>

(* The round is over: the next one, unless restarting the browser raises,    *)
(* which ends main's loop with code 1; after the last one, drain.            *)
RoundOver(t, w) ==
  \E next \in {"acquire", "drain"} :
    /\ next = "acquire" => w.round < w.rounds
    /\ Goto(t, [Forget(w) EXCEPT !.pc = next, !.addr = Nothing, !.attempt = 1,
                                 !.round = IF next = "acquire" THEN @ + 1 ELSE @])
    /\ code' = [code EXCEPT ![t] = IF next = "drain" /\ w.round < w.rounds THEN 1 ELSE @]

(* A round that fails by anything but RetryableMailboxError keeps its        *)
(* mailbox reserved.                                                         *)
RoundFails(t) ==
  /\ RoundOver(t, worker[t])
  /\ UNCHANGED mark

(* RetryableMailboxError: the mailbox is marked, and the next attempt starts *)
(* over with another one, unless restarting the browser raises.              *)
AttemptFails(t, tokenFault) ==
  /\ mark' = Result(worker[t].addr, FALSE, tokenFault)
  /\ \/ /\ worker[t].attempt < MaxAttempts
        /\ Goto(t, [Forget(worker[t]) EXCEPT !.pc = "acquire", !.addr = Nothing,
                                             !.attempt = @ + 1])
        /\ UNCHANGED code
     \/ RoundOver(t, worker[t])

(* _open_email_flow raises RuntimeError only, and so does the inbox baseline *)
(* for an error of the token; any other error leaves the baseline empty.     *)
(* A mail is known by the identity the way of reading has for it: Graph's,   *)
(* Outlook REST's, or its Message-ID.                                        *)
KnownNothing(way, listed) == {}

Known(way, listed) == {way} \X listed

Open(t) ==
  /\ At(t, "open")
  /\ \/ \E out \in ListMessages(Inbox(t)) \ TokenError :
        \E listed \in Listed(out, Inbox(t)) :
          /\ Goto(t, [worker[t] EXCEPT !.pc = "submit", !.snap = out,
                                       !.base = Known(out, listed)])
          /\ UNCHANGED <<mark, code>>
     \/ RoundFails(t)
  /\ UNCHANGED <<dead, coming, inbox, life, queued, manifest, normal, taken, entered>>

(* A page of the sign-up that goes through, refuses the mailbox, or breaks.   *)
Page(t, here, through) ==
  /\ At(t, here)
  /\ \/ /\ Goto(t, through)
        /\ UNCHANGED <<mark, code>>
     \/ AttemptFails(t, FALSE)
     \/ RoundFails(t)
  /\ UNCHANGED <<dead, inbox, life, queued, manifest, normal, taken, entered>>

(* _submit_email and _wait_for_code_page: the upstream sends its mail, or    *)
(* did before the page broke.                                                *)
Submit(t) ==
  /\ Page(t, "submit", [worker[t] EXCEPT !.pc = "code"])
  /\ coming' = [coming EXCEPT ![Inbox(t)] = @ \cup {MailOf(t)}]

(* wait_for_code: a mail that the baseline does not know by the identity it  *)
(* is read under, a timeout, or an error of the token, which run_one makes   *)
(* retryable.                                                                *)
Unseen(t, way) == {m \in inbox[Inbox(t)] : <<way, m>> \notin worker[t].base}

WaitForCode(t) ==
  /\ At(t, "code")
  /\ \/ \E way \in ListMessages(Inbox(t)) \cap Way : \E m \in Unseen(t, way) :
          /\ Goto(t, [Forget(worker[t]) EXCEPT !.pc = "register", !.mail = m, !.via = way])
          /\ entered' = [entered EXCEPT ![Inbox(t)] = @ \cup {m}]
          /\ UNCHANGED <<mark, code>>
     \/ AttemptFails(t, FALSE) /\ UNCHANGED entered
     \/ /\ ListMessages(Inbox(t)) \cap TokenError # {}
        /\ AttemptFails(t, TRUE)
        /\ UNCHANGED entered
  /\ UNCHANGED <<dead, coming, inbox, life, queued, manifest, normal, taken>>

SubmitCode(t) ==
  /\ Page(t, "register", [Forget(worker[t]) EXCEPT !.pc = "profile"])
  /\ UNCHANGED coming

(* The account exists upstream once this page has gone through. *)
SubmitProfile(t) ==
  /\ Page(t, "profile", [worker[t] EXCEPT !.pc = "sso"])
  /\ UNCHANGED coming

(* _wait_for_sso and what follows it: the account is collected, and queued   *)
(* for its export unless the export is switched off or the cookies of the    *)
(* page cannot be read.                                                      *)
Register(t) ==
  /\ At(t, "sso")
  /\ \/ /\ mark' = Result(worker[t].addr, TRUE, FALSE)
        /\ taken' = taken \cup {worker[t].addr}
        /\ \E export \in {0, 1} : queued' = [queued EXCEPT ![t] = @ + export]
        /\ RoundOver(t, [worker[t] EXCEPT !.collected = @ + 1])
     \/ AttemptFails(t, FALSE) /\ UNCHANGED <<taken, queued>>
     \/ RoundFails(t) /\ UNCHANGED <<taken, queued>>
  /\ UNCHANGED <<dead, coming, inbox, life, manifest, normal, entered>>

-----------------------------------------------------------------------------
(* CpaExportQueue._run: one export after the other, each of which is counted *)
(* in the manifest as exported or failed, is skipped, or raises.             *)
Export(t) ==
  /\ life[t] = "live"
  /\ queued[t] > 0
  /\ queued' = [queued EXCEPT ![t] = @ - 1]
  /\ UNCHANGED <<poolVars, life, code, worker, manifest, normal, taken, entered>>

DrainNoWait(t) ==
  /\ At(t, "drain")
  /\ Goto(t, [worker[t] EXCEPT !.pc = "import"])
  /\ UNCHANGED <<poolVars, life, code, queued, manifest, normal, taken, entered>>

(* drain waits for every export that was queued: the budget it gives to each *)
(* is longer than an export may take.                                        *)
Drain(t) ==
  /\ At(t, "drain")
  /\ queued[t] = 0
  /\ Goto(t, [worker[t] EXCEPT !.pc = "import"])
  /\ UNCHANGED <<poolVars, life, code, queued, manifest, normal, taken, entered>>

(* What is left of a process that has ended. *)
Ended(w, imported) == [Fresh(1) EXCEPT !.pc = "end", !.collected = w.collected,
                                       !.imported = imported]

(* import_registered_accounts, and the end of main: an import that raises,   *)
(* whether or not the API has stored the accounts, ends the process with     *)
(* code 1.                                                                   *)
ImportAndExit(t) ==
  /\ At(t, "import")
  /\ life' = [life EXCEPT ![t] = "exited"]
  /\ \/ /\ normal' = normal + worker[t].collected
        /\ Goto(t, Ended(worker[t], worker[t].collected))
        /\ UNCHANGED code
     \/ /\ worker[t].collected > 0
        /\ Goto(t, Ended(worker[t], 0))
        /\ code' = [code EXCEPT ![t] = 1]
        /\ normal' \in {normal, normal + worker[t].collected}
  /\ UNCHANGED <<poolVars, queued, manifest, taken, entered>>

-----------------------------------------------------------------------------
(* A mail arrives while the attempt that asked for it waits, when another is *)
(* at work, or never.  The two steps that look into the inbox can tell no    *)
(* more than whether it came before them, so that arrivals at other times    *)
(* are left out.                                                             *)
MailArrives(c) ==
  /\ \E t \in Task : (At(t, "open") \/ At(t, "code")) /\ Inbox(t) = c
  /\ \E m \in coming[c] :
       /\ coming' = [coming EXCEPT ![c] = @ \ {m}]
       /\ inbox' = [inbox EXCEPT ![c] = @ \cup {m}]
  /\ UNCHANGED <<mark, dead, workerVars>>

(* Microsoft stops honouring a refresh token. *)
TokenDies(c) ==
  /\ c \notin dead
  /\ dead' = dead \cup {c}
  /\ UNCHANGED <<mark, coming, inbox, workerVars>>

WorkerSteps(t) ==
  \/ \E c \in Credential : Preflight(t, c)
  \/ PreflightEnds(t) \/ Acquire(t) \/ Open(t) \/ Submit(t) \/ WaitForCode(t)
  \/ SubmitCode(t) \/ SubmitProfile(t) \/ Register(t) \/ Export(t) \/ Drain(t) \/ ImportAndExit(t)
=============================================================================
