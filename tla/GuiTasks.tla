------------------------------ MODULE GuiTasks ------------------------------
(***************************************************************************)
(* The background tasks of the desktop application (src/gui/src): the UI   *)
(* thread, the views with one AsyncTaskRunner each (async_task.hpp), the   *)
(* worker threads, and what they share: the flags and results of the view, *)
(* the global OperationTracker and the registry of recovered files         *)
(* (app_context.cpp).                                                      *)
(*                                                                         *)
(* A view offers tasks of three kinds.  A "volume" task (carving, volume   *)
(* recovery, file erasure, drive sanitization) is started by a button that *)
(* is enabled while the runner is idle.  The "scan" and "recover" tasks of *)
(* the directory views are started by buttons that look at flags of their  *)
(* own instead, isScanning_ and isRecovering_.                             *)
(*                                                                         *)
(* A task is named by the number of the click that asked for it.  The      *)
(* progress and texts that are shown are left out, and so are locks, each  *)
(* of which is held for what is one step here.                             *)
(***************************************************************************)
EXTENDS Naturals, Sequences, FiniteSets

CONSTANTS
  Views,         \* the views there are, by the names of their classes
  MaxClicks,     \* bound on the tasks asked for
  MaxFiles       \* bound on the registry

Kinds == {"volume", "scan", "recover"}
Flagged == {"scan", "recover"}

(* The views with a taskRunner_ and a task that uses them, in the order in *)
(* which main makes them.                                                  *)
Made == <<"ViewFileEraser", "ViewDriveSanitizer", "ViewCarver",
          "ViewFsRecovery", "ViewDirectoryRecovery">>

ASSUME GuiAssumption ==
  /\ Views \subseteq {Made[i] : i \in 1..5}
  /\ MaxClicks \in Nat /\ MaxFiles \in Nat

VARIABLES
  ui,            \* what the UI thread does, and for which task
  isRunning,     \* of the runner of every view
  worker,        \* its thread: where it is, and the task it executes
  busy,          \* isScanning_ and isRecovering_: the flags that are set
  shown,         \* the kinds whose hasResult_ flag is set
  result,        \* the task whose result is stored, for every kind
  asked,         \* history: the task of each kind asked for last
  clicks,        \* the number of tasks asked for
  monitor,       \* currentOperation: its task, whether running
  registry,      \* the ids in recoveredFilesRegistry
  gone           \* how many members of every view are destroyed

view == <<busy, shown, result>>
vars == <<ui, isRunning, worker, view, asked, clicks, monitor, registry, gone>>

NoTask == [kind |-> "none", n |-> 0]
Idle == [at |-> "idle", view |-> CHOOSE v \in Views : TRUE, task |-> NoTask]
NoThread == [at |-> "none", task |-> NoTask, ok |-> FALSE]

Init ==
  /\ ui = Idle
  /\ isRunning = [v \in Views |-> FALSE]
  /\ worker = [v \in Views |-> NoThread]
  /\ busy = [v \in Views |-> {}]
  /\ shown = [v \in Views |-> {}]
  /\ result = [v \in Views |-> [k \in Kinds |-> 0]]
  /\ asked = [v \in Views |-> [k \in Kinds |-> 0]]
  /\ clicks = 0
  /\ monitor = [task |-> NoTask, running |-> FALSE]
  /\ registry = <<>>
  /\ gone = [v \in Views |-> 0]

-----------------------------------------------------------------------------
(* The UI thread. *)

(* The kinds of tasks that a view has a button for.                        *)
Offers(v) ==
  CASE v = "ViewFsRecovery"        -> Kinds
    [] v = "ViewDirectoryRecovery" -> Flagged
    [] OTHER                       -> {"volume"}

(* Mutant: the button of a volume task is always enabled. *)
CanClickAnyTime(v, kind) ==
  /\ kind \in Offers(v)
  /\ CASE kind = "volume"  -> TRUE
       [] kind = "scan"    -> busy[v] = {}
       [] kind = "recover" -> busy[v] = {} /\ "scan" \in shown[v]

(* What enables the button of a task. *)
CanClick(v, kind) ==
  /\ kind \in Offers(v)
  /\ CASE kind = "volume"  -> ~isRunning[v]
       [] kind = "scan"    -> busy[v] = {}
       [] kind = "recover" -> busy[v] = {} /\ "scan" \in shown[v]

(* The results that a click takes off the screen. *)
Hidden(kind) == IF kind = "scan" THEN Flagged ELSE {kind}

Click(v, kind) ==
  /\ ui.at = "idle" /\ clicks < MaxClicks
  /\ CanClick(v, kind)
  /\ clicks' = clicks + 1
  /\ asked' = [asked EXCEPT ![v][kind] = clicks + 1]
  /\ shown' = [shown EXCEPT ![v] = @ \ Hidden(kind)]
  /\ busy' = IF kind \in Flagged THEN [busy EXCEPT ![v] = @ \cup {kind}] ELSE busy
  /\ ui' = [at |-> "start", view |-> v, task |-> [kind |-> kind, n |-> clicks + 1]]
  /\ UNCHANGED <<isRunning, worker, result, monitor, registry, gone>>

(* currentOperation.start *)
StartMonitor ==
  /\ ui.at = "start"
  /\ monitor' = [task |-> ui.task, running |-> TRUE]
  /\ ui' = [ui EXCEPT !.at = "run"]
  /\ UNCHANGED <<isRunning, worker, view, asked, clicks, registry, gone>>

(* Mutant: run does not ask whether the runner is busy. *)
RunAnyway ==
  /\ ui.at = "run"
  /\ ui' = [ui EXCEPT !.at = "join"]
  /\ UNCHANGED <<isRunning, worker, view, asked, clicks, monitor, registry, gone>>

(* taskRunner_.run gives up when the runner is busy; nobody looks at what  *)
(* it returns.                                                             *)
Run ==
  /\ ui.at = "run"
  /\ ui' = IF isRunning[ui.view] THEN Idle ELSE [ui EXCEPT !.at = "join"]
  /\ UNCHANGED <<isRunning, worker, view, asked, clicks, monitor, registry, gone>>

(* It joins the thread of the task before, and starts one.                 *)
Spawn ==
  /\ ui.at = "join"
  /\ worker[ui.view].at \in {"none", "returned"}
  /\ isRunning' = [isRunning EXCEPT ![ui.view] = TRUE]
  /\ worker' = [worker EXCEPT ![ui.view] = [at |-> "work", task |-> ui.task, ok |-> FALSE]]
  /\ ui' = Idle
  /\ UNCHANGED <<view, asked, clicks, monitor, registry, gone>>

(* Another directory, image or drive is picked.                            *)
PickTarget(v, kind) ==
  /\ ui.at = "idle"
  /\ kind \in Offers(v)
  /\ shown' = [shown EXCEPT ![v] = @ \ (IF kind \in Flagged THEN Flagged ELSE {kind})]
  /\ UNCHANGED <<ui, isRunning, worker, busy, result, asked, clicks, monitor, registry, gone>>

(* "Clear Registry" *)
ClearRegistry ==
  /\ ui.at = "idle"
  /\ registry # <<>>
  /\ registry' = <<>>
  /\ UNCHANGED <<ui, isRunning, worker, view, asked, clicks, monitor, gone>>

(* The window is closed: main returns, which destroys the views.           *)
Close ==
  /\ ui.at = "idle"
  /\ ui' = [ui EXCEPT !.at = "closing"]
  /\ UNCHANGED <<isRunning, worker, view, asked, clicks, monitor, registry, gone>>

(* The members of a view that its tasks use: for every kind the flag that  *)
(* is its busy, the one that is its shown, the result and its mutex; and   *)
(* the runner.                                                             *)
Runner == [is |-> "runner", of |-> "all"]
Of(kind, members) == [i \in DOMAIN members |-> [is |-> members[i], of |-> kind]]
OfDirectories ==
  Of("scan", <<"shown", "result", "mutex", "flag">>)
    \o Of("recover", <<"shown", "result", "mutex", "flag">>)
OfVolume == Of("volume", <<"shown", "mutex", "result">>)

(* Mutant: the members of the disk image recovery are added at the end of  *)
(* the class ViewFsRecovery, where new members go.                         *)
DeclaredAtTheEnd == [v \in Views |->
  CASE v = "ViewFsRecovery"        -> OfDirectories \o <<Runner>> \o OfVolume
    [] v = "ViewDirectoryRecovery" -> OfDirectories \o <<Runner>>
    [] OTHER                       -> <<Runner>> \o OfVolume]

(* The order in which the views declare them.                              *)
Declared == [v \in Views |->
  CASE v = "ViewFsRecovery"        -> OfDirectories \o OfVolume \o <<Runner>>
    [] v = "ViewDirectoryRecovery" -> OfDirectories \o <<Runner>>
    [] OTHER                       -> <<Runner>> \o OfVolume]

(* ~AsyncTaskRunner joins the thread. *)
Joined(v) == worker[v].at \in {"none", "returned"}

Destroyed(v) == gone[v] = Len(Declared[v])

(* The views are destroyed from the last made to the first, and the        *)
(* members of a view from the last declared to the first.                  *)
DestroyMember(v) ==
  /\ ui.at = "closing"
  /\ ~Destroyed(v)
  /\ \A i, j \in DOMAIN Made : Made[i] = v /\ i < j /\ Made[j] \in Views => Destroyed(Made[j])
  /\ Declared[v][Len(Declared[v]) - gone[v]] = Runner => Joined(v)
  /\ gone' = [gone EXCEPT ![v] = @ + 1]
  /\ UNCHANGED <<ui, isRunning, worker, view, asked, clicks, monitor, registry>>

Exit ==
  /\ ui.at = "closing"
  /\ \A v \in Views : Destroyed(v)
  /\ ui' = [ui EXCEPT !.at = "exited"]
  /\ UNCHANGED <<isRunning, worker, view, asked, clicks, monitor, registry, gone>>

UI ==
  \/ \E v \in Views, kind \in Kinds : Click(v, kind) \/ PickTarget(v, kind)
  \/ StartMonitor \/ Run \/ Spawn \/ ClearRegistry \/ Close \/ Exit
  \/ \E v \in Views : DestroyMember(v)

-----------------------------------------------------------------------------
(* The worker thread of a view. *)

At(v, at) == worker[v].at = at /\ ui.at # "crashed"
Step(v, from, to) == At(v, from) /\ worker' = [worker EXCEPT ![v].at = to]

(* What follows the storing of the result. *)
AfterStore(kind) == IF kind \in Flagged THEN "unflag" ELSE "show"

(* The work is done, well or not, and the result stored.                   *)
Store(v, ok) ==
  /\ At(v, "work")
  /\ worker' = [worker EXCEPT ![v].at = AfterStore(worker[v].task.kind), ![v].ok = ok]
  /\ result' = [result EXCEPT ![v][worker[v].task.kind] = worker[v].task.n]
  /\ UNCHANGED <<ui, isRunning, busy, shown, asked, clicks, monitor, registry, gone>>

(* isScanning_ or isRecovering_ is cleared before all the rest.            *)
Unflag(v) ==
  /\ Step(v, "unflag", "show")
  /\ busy' = [busy EXCEPT ![v] = @ \ {worker[v].task.kind}]
  /\ UNCHANGED <<ui, isRunning, shown, result, asked, clicks, monitor, registry, gone>>

Show(v) ==
  /\ Step(v, "show", IF worker[v].ok /\ worker[v].task.kind # "scan" THEN "register" ELSE "finish")
  /\ shown' = [shown EXCEPT ![v] = @ \cup {worker[v].task.kind}]
  /\ UNCHANGED <<ui, isRunning, busy, result, asked, clicks, monitor, registry, gone>>

(* registerCarvedFile, registerFsFile: for every file that was recovered.  *)
Register(v) ==
  /\ At(v, "register") /\ Len(registry) < MaxFiles
  /\ registry' = Append(registry, Len(registry) + 1)
  /\ UNCHANGED <<ui, isRunning, worker, view, asked, clicks, monitor, gone>>

Registered(v) ==
  /\ Step(v, "register", "finish")
  /\ UNCHANGED <<ui, isRunning, view, asked, clicks, monitor, registry, gone>>

(* currentOperation.finish *)
FinishMonitor(v) ==
  /\ Step(v, "finish", "return")
  /\ monitor' = [monitor EXCEPT !.running = FALSE]
  /\ UNCHANGED <<ui, isRunning, view, asked, clicks, registry, gone>>

(* The work throws, and the runner catches.                                *)
Throw(v) ==
  /\ Step(v, "work", "return")
  /\ UNCHANGED <<ui, isRunning, view, asked, clicks, monitor, registry, gone>>

(* Mutant: an exception passes by the last statement. *)
ReturnUnlessThrown(v) ==
  /\ Step(v, "return", "returned")
  /\ isRunning' = IF result[v][worker[v].task.kind] = worker[v].task.n
                  THEN [isRunning EXCEPT ![v] = FALSE] ELSE isRunning
  /\ UNCHANGED <<ui, view, asked, clicks, monitor, registry, gone>>

(* isRunning_.store(false), and the thread is through.                     *)
Return(v) ==
  /\ Step(v, "return", "returned")
  /\ isRunning' = [isRunning EXCEPT ![v] = FALSE]
  /\ UNCHANGED <<ui, view, asked, clicks, monitor, registry, gone>>

(* What a task still needs of its view: the lock until the result is       *)
(* stored, the flags until they are set, the result until the end if it is *)
(* read again to report it; and the runner, whose flag is cleared last.    *)
NeededAt(kind) ==
  [mutex  |-> {"work"},
   flag   |-> {"work", "unflag"},
   shown  |-> {"work", "unflag", "show"},
   result |-> IF kind = "volume" THEN {"work"} ELSE {"work", "unflag", "show", "register", "finish"}]

Needs(v, m) ==
  /\ ~Joined(v)
  /\ m = Runner \/ (m.of = worker[v].task.kind /\ worker[v].at \in NeededAt(m.of)[m.is])

Gone(v) == {Declared[v][Len(Declared[v]) + 1 - i] : i \in 1..gone[v]}

(* A step of a worker on members that are gone may also be its last, and   *)
(* the program's.                                                          *)
Crash(v) ==
  /\ \E m \in Gone(v) : Needs(v, m)
  /\ ui.at # "crashed"
  /\ ui' = [ui EXCEPT !.at = "crashed"]
  /\ UNCHANGED <<isRunning, worker, view, asked, clicks, monitor, registry, gone>>

Worker(v) ==
  \/ \E ok \in BOOLEAN : Store(v, ok)
  \/ Throw(v) \/ Unflag(v) \/ Show(v) \/ Register(v) \/ Registered(v)
  \/ FinishMonitor(v) \/ Return(v) \/ Crash(v)

Next == UI \/ \E v \in Views : Worker(v)

(* The scheduler runs every thread that can run, and a task comes to an    *)
(* end: it is a loop over the bytes of a disk or the files of a directory. *)
(* The user need not do anything.                                          *)
Fairness ==
  /\ WF_vars(StartMonitor \/ Run \/ Spawn \/ Exit)
  /\ \A v \in Views : WF_vars(Worker(v)) /\ WF_vars(Registered(v)) /\ WF_vars(DestroyMember(v))

Spec == Init /\ [][Next]_vars /\ Fairness

-----------------------------------------------------------------------------

(* The UI thread joins threads between two frames: it never does so while  *)
(* the thread has work left, or the window would freeze for as long.       *)
UiNeverWaits == ui.at = "join" => worker[ui.view].at \in {"none", "returned"}

(* The result of a volume task that is on the screen is that of the task   *)
(* asked for last, not of one before it: flag, result and runner are       *)
(* written by two threads without a common lock.                           *)
ResultsFresh ==
  \A v \in Views : "volume" \in shown[v] => result[v]["volume"] = asked[v]["volume"]

(* The views that declare something of their tasks behind the runner.      *)
Unshielded == {"ViewFileEraser", "ViewDriveSanitizer", "ViewCarver"}

(* Closing the window in the middle of a task destroys no member that the  *)
(* task goes on to use: neither the order of the views in main, nor that   *)
(* of the members in a class, nor what a task reads of them to report its  *)
(* end, puts a use behind a destruction.  The three classes that declare   *)
(* the result behind the runner are the exception.                         *)
MembersOutliveTasks ==
  \A v \in Views \ Unshielded : \A m \in Gone(v) : ~Needs(v, m)

(* A runner that was started is free again some time, after an exception   *)
(* too, unless the program crashed: the buttons that look at it come back. *)
RunnerFreed == \A v \in Views : isRunning[v] ~> (~isRunning[v] \/ ui.at = "crashed")

=============================================================================
