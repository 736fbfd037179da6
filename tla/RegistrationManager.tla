------------------------ MODULE RegistrationManager ------------------------
(***************************************************************************)
(* The supervision of the registration in one API process                   *)
(* (control/registration/manager.py): the operator's start, stop and        *)
(* settings, the watcher of each child process, and the waterline monitor   *)
(* that registers an account whenever the pool is short of one.  Composed   *)
(* with the child processes and the mailbox pool.                           *)
(*                                                                         *)
(* The API is one event loop: a step is what runs between two awaits.       *)
(***************************************************************************)
EXTENDS RegistrationWorker

CONSTANTS
  Rounds,          \* run.count of a manual run
  Target,          \* settings -> waterline.normal_target
  Scope,           \* the scopes the operator resets the pool with
  MaxChanges       \* bound of the environment: changes from outside, see changes

(* What the saved settings make of the waterline: disabled, a target for     *)
(* normal accounts alone, one for Build accounts too, one that Build cannot  *)
(* reach with these settings, and targets with no mailbox service enabled.   *)
Setting == {"off", "on", "builds", "misconfigured", "no_providers"}

ASSUME TaskAssumption == IsFiniteSet(Task) /\ Task = 1..Cardinality(Task)
ASSUME NumberAssumption ==
  Rounds \in Nat \ {0} /\ Target \in [Setting -> Nat] /\ MaxChanges \in Nat

VARIABLES
  settings,   \* the saved settings
  runtime,    \* _runtime: the state and the exit code it shows
  process,    \* _process: the task it belongs to
  launching,  \* the task whose process is being created
  lock,       \* _lock: who holds it
  watcher,    \* task -> its _watch_process
  monitor,    \* _waterline_loop
  awaited,    \* the task the monitor waits for
  term,       \* the task stop() is ending
  config,     \* the settings this turn of the monitor works with
  need,       \* the shortage it has counted: "none", "normal" (at least), or "build"
  gained,     \* history: accounts gained otherwise since it counted a shortage
  changes     \* settings saved, pools reset, tokens lost, accounts lost and gained

turnVars == <<config, need, gained>>
managerVars == <<settings, runtime, process, launching, lock, watcher, monitor, awaited, term,
                 turnVars>>
vars == <<poolVars, workerVars, managerVars, changes>>

Live(t) == t # Nothing /\ life[t] = "live"

TypeOK ==
  /\ mark \in [Address -> Mark] /\ dead \subseteq Credential
  /\ life \in [Task -> {"none", "live", "exited"}]
  /\ code \in [Task -> {0, 1, Exhausted, Killed}]
  /\ queued \in [Task -> Nat] /\ normal \in Nat /\ taken \subseteq Address
  /\ settings \in Setting
  /\ process \in Task \cup {Nothing} /\ launching \in Task \cup {Nothing}
  /\ awaited \in Task \cup {Nothing} /\ term \in Task \cup {Nothing}
  /\ lock \in {"free", "start", "monitor", "stop"}
  /\ watcher \in [Task -> {"none", "reading", "cancelled", "done"}]
  /\ monitor \in {"none", "poll", "count", "launch", "spawn", "await", "wait"}
  /\ config \in Setting /\ need \in {"none", "normal", "build"} /\ gained \in Nat

Init ==
  /\ mark = [a \in Address |-> "available"] /\ dead = {}
  /\ coming = [c \in Credential |-> {}] /\ inbox = coming /\ entered = coming
  /\ life = [t \in Task |-> "none"] /\ code = [t \in Task |-> 0]
  /\ worker = [t \in Task |-> Fresh(1)] /\ queued = [t \in Task |-> 0]
  /\ manifest = [t \in Task |-> "none"]
  /\ normal = 0 /\ taken = {}
  /\ settings \in {"off", "on"}
  /\ runtime = [state |-> "idle", code |-> Nothing]
  /\ process = Nothing /\ launching = Nothing /\ lock = "free"
  /\ watcher = [t \in Task |-> "none"]
  /\ monitor = "none" /\ awaited = Nothing /\ term = Nothing
  /\ config = "off" /\ need = "none" /\ gained = 0
  /\ changes = 0

-----------------------------------------------------------------------------
Show(state) == runtime' = [runtime EXCEPT !.state = state]

(* The turn of the monitor is over. *)
EndTurn == config' = "off" /\ need' = "none" /\ gained' = 0

Unused == {t \in Task : life[t] = "none" /\ manifest[t] = "none"}

(* The guard of every launch: _process has no return code yet. *)
Busy == Live(process)

(* _launch_registration_locked up to the creation of the process.  The       *)
(* bound of the model: launches end when the task numbers do.                *)
BeginLaunch(t, rounds) ==
  /\ t \in Unused /\ \A u \in Unused : t <= u
  /\ launching' = t
  /\ worker' = [worker EXCEPT ![t] = Fresh(rounds)]
  /\ manifest' = [manifest EXCEPT ![t] = "running"]
  /\ runtime' = [state |-> "running", code |-> Nothing]

(* start *)
StartManual(t) ==
  /\ lock = "free" /\ ~Busy /\ monitor = "none"
  /\ settings = "off"
  /\ BeginLaunch(t, Rounds)
  /\ lock' = "start"
  /\ UNCHANGED <<poolVars, life, code, queued, normal, taken, entered, settings, process,
                 watcher, monitor, awaited, term, turnVars, changes>>

StartMonitor ==
  /\ lock = "free" /\ ~Busy /\ monitor = "none"
  /\ settings # "off"
  /\ monitor' = "poll"
  /\ runtime' = [state |-> "polling", code |-> Nothing]
  /\ UNCHANGED <<poolVars, workerVars, settings, process, launching, lock, watcher, awaited,
                 term, turnVars, changes>>

(* create_subprocess_exec has returned ... *)
Spawned ==
  /\ launching # Nothing
  /\ life' = [life EXCEPT ![launching] = "live"]
  /\ process' = launching
  /\ watcher' = [watcher EXCEPT ![launching] = "reading"]
  /\ monitor' = IF lock = "monitor" THEN "await" ELSE monitor
  /\ awaited' = IF lock = "monitor" THEN launching ELSE awaited
  /\ lock' = "free" /\ launching' = Nothing
  /\ UNCHANGED <<poolVars, code, worker, queued, manifest, normal, taken, entered, settings,
                 runtime, term, turnVars, changes>>

(* ... or raised: the monitor goes on polling, a manual start leaves         *)
(* _runtime as the launch has set it.                                        *)
SpawnFails ==
  /\ launching # Nothing
  /\ monitor' = IF lock = "monitor" THEN "wait" ELSE monitor
  /\ IF lock = "monitor" THEN Show("polling") ELSE UNCHANGED runtime
  /\ lock' = "free" /\ launching' = Nothing
  /\ EndTurn
  /\ UNCHANGED <<poolVars, workerVars, settings, process, watcher, awaited, term, changes>>

-----------------------------------------------------------------------------
(* A turn of _waterline_loop reads the settings ... *)
MonitorPolls ==
  /\ monitor = "poll"
  /\ CASE settings = "off" -> monitor' = "none" /\ Show("idle") /\ UNCHANGED config
       [] settings = "misconfigured" ->
            monitor' = "none" /\ Show("failed") /\ UNCHANGED config
       [] OTHER -> monitor' = "count" /\ config' = settings /\ UNCHANGED runtime
  /\ UNCHANGED <<poolVars, workerVars, settings, process, launching, lock, watcher, awaited,
                 term, need, gained, changes>>

MonitorCountsOver ==
  /\ monitor = "count"
  /\ \/ monitor' = "wait" /\ Show("polling") /\ EndTurn
     \/ \E buildShort \in IF config = "on" THEN {FALSE} ELSE BOOLEAN :
          LET normalShort == normal <= Target[config]
              short       == normalShort \/ buildShort
          IN  \/ /\ ~short /\ monitor' = "wait" /\ EndTurn
                 /\ runtime' = [runtime EXCEPT !.state = "polling", !.code = Nothing]
              \/ /\ short /\ config = "no_providers"
                 /\ monitor' = "none" /\ Show("mailbox_exhausted") /\ EndTurn
              \/ /\ short /\ config # "no_providers"
                 /\ monitor' = "launch" /\ Show("polling")
                 /\ need' = IF normalShort THEN "normal" ELSE "build"
                 /\ UNCHANGED <<config, gained>>
  /\ UNCHANGED <<poolVars, workerVars, settings, process, launching, lock, watcher, awaited,
                 term, changes>>

(* ... and, when the store has answered, compares the count of the pool with *)
(* them.  The count may fail; the one of the Build pool is left open.        *)
MonitorCounts ==
  /\ monitor = "count"
  /\ \/ monitor' = "wait" /\ Show("polling") /\ EndTurn
     \/ \E buildShort \in IF config = "on" THEN {FALSE} ELSE BOOLEAN :
          LET normalShort == normal < Target[config]
              short       == normalShort \/ buildShort
          IN  \/ /\ ~short /\ monitor' = "wait" /\ EndTurn
                 /\ runtime' = [runtime EXCEPT !.state = "polling", !.code = Nothing]
              \/ /\ short /\ config = "no_providers"
                 /\ monitor' = "none" /\ Show("mailbox_exhausted") /\ EndTurn
              \/ /\ short /\ config # "no_providers"
                 /\ monitor' = "launch" /\ Show("polling")
                 /\ need' = IF normalShort THEN "normal" ELSE "build"
                 /\ UNCHANGED <<config, gained>>
  /\ UNCHANGED <<poolVars, workerVars, settings, process, launching, lock, watcher, awaited,
                 term, changes>>

MonitorLaunches(t) ==
  /\ monitor = "launch" /\ lock = "free" /\ ~Busy
  /\ BeginLaunch(t, 1)
  /\ lock' = "monitor" /\ monitor' = "spawn"
  /\ UNCHANGED <<poolVars, life, code, queued, normal, taken, entered, settings, process,
                 watcher, awaited, term, turnVars, changes>>

(* The launch is refused: a child is alive, the settings do not do for a     *)
(* launch, its files cannot be written, or the model has no task left.       *)
MonitorRefused ==
  /\ monitor = "launch" /\ lock = "free"
  /\ monitor' = "wait" /\ Show("polling") /\ EndTurn
  /\ UNCHANGED <<poolVars, workerVars, settings, process, launching, lock, watcher, awaited,
                 term, changes>>

(* await watcher returns: the mailboxes are exhausted, or wait and poll.     *)
MonitorAwaited ==
  /\ monitor = "await" /\ watcher[awaited] = "done"
  /\ \/ /\ runtime.code = Exhausted
        /\ monitor' = "none" /\ Show("mailbox_exhausted")
     \/ /\ runtime.code # Exhausted
        /\ monitor' = "wait" /\ Show("polling")
  /\ awaited' = Nothing /\ EndTurn
  /\ UNCHANGED <<poolVars, workerVars, settings, process, launching, lock, watcher, term,
                 changes>>

(* _wait_for_waterline_wake: the interval is over, or the event is set. *)
MonitorWakes ==
  /\ monitor = "wait"
  /\ monitor' = "poll"
  /\ UNCHANGED <<poolVars, workerVars, settings, runtime, process, launching, lock, watcher,
                 awaited, term, turnVars, changes>>

-----------------------------------------------------------------------------
(* _release_outlook_busy_mailboxes *)
BusyReleased == ResetPool("busy")

FinallyWithoutRelease(t) ==
  /\ manifest' = [manifest EXCEPT ![t] = "final"]
  /\ UNCHANGED mark
  /\ process' = IF process = t THEN Nothing ELSE process
  /\ watcher' = [watcher EXCEPT ![t] = "done"]

(* The finally of _watch_process. *)
FinallyOfWatcher(t) ==
  /\ manifest' = [manifest EXCEPT ![t] = "final"]
  /\ mark' = BusyReleased
  /\ process' = IF process = t THEN Nothing ELSE process
  /\ watcher' = [watcher EXCEPT ![t] = "done"]

(* The output is at its end and the process has a return code.  The output   *)
(* may end later than the process: a browser it left behind holds the pipe.  *)
WatcherEnds(t) ==
  /\ watcher[t] = "reading" /\ life[t] = "exited"
  /\ runtime' = IF runtime.state = "cancelled" THEN runtime
                ELSE [runtime EXCEPT !.state = IF code[t] = 0 THEN "completed" ELSE "failed",
                                     !.code = code[t]]
  /\ FinallyOfWatcher(t)
  /\ UNCHANGED <<dead, coming, inbox, life, code, worker, queued, normal, taken, entered,
                 settings, launching, lock, monitor, awaited, term, turnVars, changes>>

(* CancelledError, from the monitor that was waiting for this watcher. *)
WatcherCancelled(t) ==
  /\ watcher[t] = "cancelled"
  /\ FinallyOfWatcher(t)
  /\ UNCHANGED <<dead, coming, inbox, life, code, worker, queued, normal, taken, entered,
                 settings, runtime, launching, lock, monitor, awaited, term, turnVars, changes>>

(* Any other exception of the watcher, for instance a log that cannot be     *)
(* written.                                                                  *)
WatcherFails(t) ==
  /\ watcher[t] = "reading"
  /\ Show("failed")
  /\ FinallyOfWatcher(t)
  /\ UNCHANGED <<dead, coming, inbox, life, code, worker, queued, normal, taken, entered,
                 settings, launching, lock, monitor, awaited, term, turnVars, changes>>

-----------------------------------------------------------------------------
(* stop, up to its wait for the process, or to its end if there is none. *)
Cancelled(t) == [runtime EXCEPT !.state = "cancelled",
                                !.code = IF t = Nothing THEN Nothing ELSE code[t]]

Stop ==
  /\ lock = "free"
  /\ Busy \/ monitor # "none"
  /\ monitor' = "none" /\ awaited' = Nothing
  /\ watcher' = IF monitor = "await" /\ watcher[awaited] = "reading"
                THEN [watcher EXCEPT ![awaited] = "cancelled"] ELSE watcher
  /\ IF Busy
     THEN lock' = "stop" /\ term' = process /\ UNCHANGED <<mark, runtime, turnVars>>
     ELSE /\ mark' = BusyReleased /\ runtime' = Cancelled(process) /\ EndTurn
          /\ UNCHANGED <<lock, term>>
  /\ UNCHANGED <<dead, coming, inbox, workerVars, settings, process, launching, changes>>

(* The process ends by itself, by SIGTERM, or by SIGKILL after 12 seconds. *)
Dies ==
  /\ lock = "stop" /\ Live(term)
  /\ life' = [life EXCEPT ![term] = "exited"]
  /\ code' = [code EXCEPT ![term] = Killed]
  /\ Goto(term, Ended(worker[term], 0))
  /\ queued' = [queued EXCEPT ![term] = 0]
  /\ UNCHANGED <<poolVars, manifest, normal, taken, entered, managerVars, changes>>

StopEndsEarly ==
  /\ lock = "stop"
  /\ mark' = BusyReleased
  /\ runtime' = Cancelled(term)
  /\ lock' = "free" /\ term' = Nothing /\ EndTurn
  /\ UNCHANGED <<dead, coming, inbox, workerVars, settings, process, launching, watcher, monitor,
                 awaited, changes>>

StopEnds ==
  /\ lock = "stop" /\ ~Live(term)
  /\ mark' = BusyReleased
  /\ runtime' = Cancelled(term)
  /\ lock' = "free" /\ term' = Nothing /\ EndTurn
  /\ UNCHANGED <<dead, coming, inbox, workerVars, settings, process, launching, watcher, monitor,
                 awaited, changes>>

-----------------------------------------------------------------------------
(* save_settings, which also wakes the monitor. *)
SaveSettings(s) ==
  /\ changes < MaxChanges /\ s # settings
  /\ settings' = s /\ changes' = changes + 1
  /\ monitor' = IF monitor = "wait" THEN "poll" ELSE monitor
  /\ UNCHANGED <<poolVars, workerVars, runtime, process, launching, lock, watcher, awaited,
                 term, turnVars>>

(* reset_outlook_pool; the operator who releases used addresses means them   *)
(* to be used again.                                                         *)
ResetByOperator(scope) ==
  /\ changes < MaxChanges
  /\ mark' = ResetPool(scope) /\ changes' = changes + 1
  /\ taken' = IF scope \in {"used", "all"} THEN {} ELSE taken
  /\ UNCHANGED <<dead, coming, inbox, life, code, worker, queued, manifest, normal, entered,
                 managerVars>>

(* An account of the pool stops counting as available. *)
AccountLost ==
  /\ changes < MaxChanges /\ normal > 0
  /\ normal' = normal - 1 /\ changes' = changes + 1
  /\ UNCHANGED <<poolVars, life, code, worker, queued, manifest, taken, entered, managerVars>>

(* An account recovers from its cooldown or is imported by somebody else, a  *)
(* child that no longer waits for the answer included.                       *)
AccountGained ==
  /\ changes < MaxChanges
  /\ normal' = normal + 1 /\ changes' = changes + 1
  /\ gained' = IF need = "normal" THEN gained + 1 ELSE gained
  /\ UNCHANGED <<poolVars, life, code, worker, queued, manifest, taken, entered, settings,
                 runtime, process, launching, lock, watcher, monitor, awaited, term, config,
                 need>>

Child(t) == WorkerSteps(t) /\ UNCHANGED <<managerVars, changes>>

Environment ==
  \/ \E c \in Credential : MailArrives(c) /\ UNCHANGED <<managerVars, changes>>
  \/ /\ changes < MaxChanges /\ changes' = changes + 1
     /\ \E c \in Credential : TokenDies(c)
     /\ UNCHANGED managerVars
  \/ AccountLost \/ AccountGained

Manager ==
  \/ \E t \in Task : StartManual(t) \/ MonitorLaunches(t) \/ WatcherEnds(t)
                     \/ WatcherCancelled(t)
  \/ StartMonitor \/ Spawned \/ SpawnFails
  \/ MonitorPolls \/ MonitorCounts \/ MonitorRefused \/ MonitorAwaited \/ MonitorWakes
  \/ Stop \/ Dies \/ StopEnds
  \/ \E s \in Setting : SaveSettings(s)
  \/ \E s \in Scope : ResetByOperator(s)

Next == Manager \/ Environment \/ \E t \in Task : Child(t)

Spec == Init /\ [][Next]_vars

(* With watchers that may fail, OneChild does not hold: see the README. *)
UnwatchedSpec == Init /\ [][Next \/ \E t \in Task : WatcherFails(t)]_vars

-----------------------------------------------------------------------------
(* At most one child registers at a time in an API process, whatever the     *)
(* order of starts, stops, polls and ends: "One supervised browser           *)
(* registration task per API process."                                       *)
OneChild == Cardinality({t \in Task : life[t] = "live"}) <= 1

(* Once no child is alive, none is being created and every watcher is        *)
(* through, no mailbox is still reserved: _watch_process and stop release    *)
(* what a child left behind, however it ended.                               *)
ReservationsReleased ==
  (/\ \A t \in Task : life[t] # "live" /\ watcher[t] \in {"none", "done"}
   /\ lock = "free")
  => Reserved = {}

(* No code is entered twice: of one that was entered before, by whichever    *)
(* attempt, the snapshot that an attempt takes of its inbox knows the mail,  *)
(* provided the code is found by the way of reading that the snapshot was    *)
(* taken with, and that this is not IMAP, which may pass over a mail.        *)
CodeEnteredOnce ==
  [][\A t \in Task :
       (/\ At(t, "code") /\ At(t, "register")'
        /\ worker[t].snap = worker'[t].via /\ worker'[t].via # "imap")
       => worker'[t].mail \notin entered[Inbox(t)]]_vars

(* An address that has registered an account is not handed out again before  *)
(* the operator releases it, although every end of a child resets the pool.  *)
RegisteredAddressKept == \A a \in Reserved : a \notin taken

(* A child that ends with main's own exit code has handed every account it   *)
(* collected to the pool and is through with every export, whichever way its *)
(* rounds ended.                                                             *)
EndAccounts ==
  \A t \in Task : life[t] = "exited" /\ code[t] \in {0, Exhausted} =>
    worker[t].imported = worker[t].collected /\ queued[t] = 0

(* A run that the waterline has started for want of a normal account fills   *)
(* the pool to its target at most: what takes it over the target came from   *)
(* elsewhere since the count.                                                *)
NoOvershoot ==
  [][(/\ need = "normal" /\ normal' > normal
      /\ \E t \in Task : life[t] = "live" /\ life'[t] = "exited")
     => normal' <= Target[config] + gained]_vars

(* Does not hold: the code an attempt enters was sent for that attempt, when *)
(* the snapshot of its inbox has succeeded.  The mail of an attempt that has *)
(* timed out may come after the snapshot of the next one.                    *)
OwnCode ==
  [][\A t \in Task : At(t, "code") /\ At(t, "register")' /\ worker[t].snap \in Way =>
       worker'[t].mail = MailOf(t)]_vars

(* Does not hold: no code is taken from a mail of the snapshot ("never       *)
(* accept a code found in that historical snapshot", wait_for_code), which   *)
(* knows the mails by the identities of one way of reading only.             *)
SnapshotHonoured ==
  [][\A t \in Task : At(t, "code") /\ At(t, "register")' =>
       \A way \in Way : <<way, worker'[t].mail>> \notin worker[t].base]_vars

(* Does not hold: a transient fault of the proxy, the network or the token   *)
(* service does not mark a credential as invalid (_access_token: such errors *)
(* "must not poison a mailbox pool").                                        *)
OutageSparesCredentials == \A a \in Address : mark[a] = "token_invalid" => Owner[a] \in dead
=============================================================================
