--------------------------- MODULE GuiTasksProofs ---------------------------
(***************************************************************************)
(* The protocol of the background tasks, for any number of views, whatever *)
(* they offer, and for any number of clicks: proof that the window never   *)
(* freezes (UiNeverWaits), that no stale result is shown as that of the    *)
(* task asked for last (ResultsFresh), and that the members which a task    *)
(* needs outlive it, by the order in which they are declared               *)
(* (MembersOutliveTasks).                                                  *)
(*                                                                         *)
(* All of it rests on what isRunning_ says of the thread: it is set just   *)
(* while the thread has something left to do (RunnerTrue).  The button of  *)
(* a volume task looks at it, so that the volume task a thread executes    *)
(* is the one asked for last (LastAsked).                                  *)
(***************************************************************************)
EXTENDS GuiTasks, TLAPS

Tasks == [kind : Kinds \cup {"none"}, n : Nat]
UiPlaces == {"idle", "start", "run", "join", "closing", "exited", "crashed"}
WorkerPlaces == {"none", "work", "unflag", "show", "register", "finish", "return", "returned"}

TypeOK ==
  /\ ui \in [at : UiPlaces, view : Views \cup {Idle.view}, task : Tasks]
  /\ isRunning \in [Views -> BOOLEAN]
  /\ worker \in [Views -> [at : WorkerPlaces, task : Tasks, ok : BOOLEAN]]
  /\ busy \in [Views -> SUBSET Kinds]
  /\ shown \in [Views -> SUBSET (Kinds \cup {"none"})]
  /\ result \in [Views -> [Kinds -> Nat]]
  /\ asked \in [Views -> [Kinds -> Nat]]
  /\ clicks \in Nat
  /\ gone \in [Views -> Nat]

Through(v) == worker[v].at \in {"none", "returned"}
Starting == ui.at \in {"start", "run", "join"}

(* The flag of the runner says what its thread does. *)
RunnerTrue == \A v \in Views : isRunning[v] <=> ~Through(v)

(* A task on its way to a thread is for a view, and the thread that is     *)
(* joined for it is through.                                               *)
StartsFree == Starting => ui.view \in Views /\ (ui.at = "join" => ~isRunning[ui.view])

(* The volume task on its way to a thread, or with it, is the last one.    *)
LastAsked ==
  /\ Starting /\ ui.task.kind = "volume" => ui.task.n = asked[ui.view]["volume"]
  /\ \A v \in Views : ~Through(v) /\ worker[v].task.kind = "volume" =>
       /\ worker[v].task.n = asked[v]["volume"]
       /\ worker[v].at \in {"unflag", "show"} => result[v]["volume"] = asked[v]["volume"]

(* Members go only after the window, and no task is started then.          *)
GoneAtTheEnd == \A v \in Views : gone[v] # 0 => ui.at \in {"closing", "exited", "crashed"}

(* A view whose runner is gone has no thread any more.                     *)
JoinedFirst == \A v \in Views : Runner \in Gone(v) => Through(v)

IInv ==
  /\ TypeOK /\ RunnerTrue /\ StartsFree /\ LastAsked /\ GoneAtTheEnd
  /\ ResultsFresh /\ JoinedFirst

-----------------------------------------------------------------------------

(* A thread that goes on to another place keeps its type. *)
LEMMA Moved ==
  ASSUME NEW W \in [Views -> [at : WorkerPlaces, task : Tasks, ok : BOOLEAN]],
         NEW v \in Views, NEW to \in WorkerPlaces
  PROVE  [W EXCEPT ![v].at = to] \in [Views -> [at : WorkerPlaces, task : Tasks, ok : BOOLEAN]]
<1> DEFINE here == [W[v] EXCEPT !.at = to]
<1>1. W[v] \in [at : WorkerPlaces, task : Tasks, ok : BOOLEAN]
      OBVIOUS
<1>2. here \in [at : WorkerPlaces, task : Tasks, ok : BOOLEAN]
      BY <1>1
<1>3. [W EXCEPT ![v].at = to] = [W EXCEPT ![v] = here]
      OBVIOUS
<1> HIDE DEF here
<1> QED BY <1>2, <1>3

(* The order of declaration of a view is a sequence.                       *)
Members == [is : {"shown", "result", "mutex", "flag", "runner"}, of : Kinds \cup {"all"}]

LEMMA SeqDef ==
  ASSUME NEW S, NEW n \in Nat, NEW s \in [1..n -> S]
  PROVE  s \in Seq(S)
OBVIOUS

LEMMA MembersSeq ==
  OfDirectories \in Seq(Members) /\ OfVolume \in Seq(Members) /\ <<Runner>> \in Seq(Members)
<1>1. ASSUME NEW kind \in Kinds
      PROVE  /\ Of(kind, <<"shown", "result", "mutex", "flag">>) \in Seq(Members)
             /\ Of(kind, <<"shown", "mutex", "result">>) \in Seq(Members)
  <2> DEFINE four == <<"shown", "result", "mutex", "flag">>
             three == <<"shown", "mutex", "result">>
  <2>1. DOMAIN four = 1..4 /\ \A i \in 1..4 : four[i] \in {"shown", "result", "mutex", "flag", "runner"}
        OBVIOUS
  <2>2. DOMAIN three = 1..3 /\ \A i \in 1..3 : three[i] \in {"shown", "result", "mutex", "flag", "runner"}
        OBVIOUS
  <2> HIDE DEF four, three
  <2>3. Of(kind, four) \in [1..4 -> Members] /\ Of(kind, three) \in [1..3 -> Members]
        BY <2>1, <2>2 DEF Of, Members
  <2>4. \A n \in Nat : \A s \in [1..n -> Members] : s \in Seq(Members)
    <3> HIDE DEF Members
    <3> QED BY SeqDef
  <2>5. Of(kind, four) \in Seq(Members) /\ Of(kind, three) \in Seq(Members)
        BY <2>3, <2>4
  <2> QED BY <2>5 DEF four, three
<1>2. Runner \in Members
      BY DEF Runner, Members
<1>3. <<Runner>> \in Seq(Members)
      BY <1>2
<1> QED BY <1>1, <1>3 DEF OfDirectories, OfVolume, Kinds

LEMMA DeclaredSeq == \A v \in Views : Len(Declared[v]) \in Nat
<1> SUFFICES ASSUME NEW v \in Views PROVE Len(Declared[v]) \in Nat
    OBVIOUS
<1>1. Declared[v] \in Seq(Members)
  <2> HIDE DEF Members
  <2> QED BY MembersSeq DEF Declared
<1> QED BY <1>1

(* In the other views the runner is the last member.                       *)
LEMMA RunnerLast ==
  ASSUME NEW v \in Views \ Unshielded
  PROVE  Declared[v][Len(Declared[v])] = Runner
<1>1. v = "ViewFsRecovery" \/ v = "ViewDirectoryRecovery"
      BY GuiAssumption DEF Unshielded, Made
<1>2. \A s \in Seq(Members) : (s \o <<Runner>>)[Len(s \o <<Runner>>)] = Runner
      BY MembersSeq
<1>3. OfDirectories \o OfVolume \in Seq(Members)
      BY MembersSeq
<1>4. CASE v = "ViewFsRecovery"
  <2>1. Declared[v] = (OfDirectories \o OfVolume) \o <<Runner>>
        BY <1>4 DEF Declared
  <2> QED BY <2>1, <1>2, <1>3
<1>5. CASE v = "ViewDirectoryRecovery"
  <2>1. Declared[v] = OfDirectories \o <<Runner>>
        BY <1>5 DEF Declared
  <2> QED BY <2>1, <1>2, MembersSeq
<1> QED BY <1>1, <1>4, <1>5

LEMMA InitIInv == Init => IInv
<1> SUFFICES ASSUME Init PROVE IInv
    OBVIOUS
<1> USE DEF Init, NoThread, NoTask
<1>1. TypeOK
      BY DEF TypeOK, Idle, Tasks, UiPlaces, WorkerPlaces
<1>2. RunnerTrue /\ StartsFree /\ LastAsked
      BY DEF RunnerTrue, StartsFree, LastAsked, Through, Starting, Idle
<1>3. GoneAtTheEnd /\ ResultsFresh /\ JoinedFirst
      BY DEF GoneAtTheEnd, ResultsFresh, JoinedFirst, Gone, Through
<1> QED BY <1>1, <1>2, <1>3 DEF IInv

(* The button that a click needs is enabled: for a volume task the thread  *)
(* is through, so that none is at work on an older one.                    *)
LEMMA ClickKeeps ==
  ASSUME IInv, NEW v \in Views, NEW kind \in Kinds, Click(v, kind)
  PROVE  IInv'
<1> USE DEF IInv
<1>0. kind = "volume" => Through(v)
      BY DEF Click, CanClick, RunnerTrue
<1>1. TypeOK'
  <2>1. asked' \in [Views -> [Kinds -> Nat]] /\ clicks' \in Nat
        BY DEF Click, TypeOK
  <2>2. shown' \in [Views -> SUBSET (Kinds \cup {"none"})] /\ busy' \in [Views -> SUBSET Kinds]
        BY DEF Click, TypeOK
  <2>3. ui' \in [at : UiPlaces, view : Views \cup {Idle.view}, task : Tasks]
        BY DEF Click, TypeOK, UiPlaces, Tasks
  <2> QED BY <2>1, <2>2, <2>3 DEF Click, TypeOK, Idle, NoTask
<1>2. RunnerTrue' /\ StartsFree' /\ GoneAtTheEnd' /\ JoinedFirst'
      BY DEF Click, TypeOK, RunnerTrue, StartsFree, GoneAtTheEnd, JoinedFirst, Gone, Through, Starting
<1>3. LastAsked'
      BY <1>0 DEF Click, TypeOK, LastAsked, Through, Starting
<1>4. ResultsFresh'
      BY DEF Click, TypeOK, ResultsFresh, Hidden, Kinds
<1> QED BY <1>1, <1>2, <1>3, <1>4

(* The other steps of the user: they start nothing, and only hide results. *)
LEMMA PickTargetKeeps ==
  ASSUME IInv, NEW v \in Views, NEW kind \in Kinds, PickTarget(v, kind)
  PROVE  IInv'
<1> USE DEF IInv, PickTarget
<1>1. TypeOK'
      BY DEF TypeOK
<1>2. RunnerTrue' /\ StartsFree' /\ LastAsked' /\ GoneAtTheEnd' /\ JoinedFirst'
      BY DEF RunnerTrue, StartsFree, LastAsked, GoneAtTheEnd, JoinedFirst, Gone, Through, Starting
<1>3. ResultsFresh'
      BY DEF ResultsFresh, TypeOK
<1> QED BY <1>1, <1>2, <1>3

LEMMA WindowKeeps ==
  ASSUME IInv, ClearRegistry \/ Close \/ Exit
  PROVE  IInv'
<1> USE DEF IInv, ClearRegistry, Close, Exit, view
<1>1. TypeOK'
      BY DEF TypeOK, UiPlaces
<1>2. RunnerTrue' /\ StartsFree' /\ LastAsked' /\ GoneAtTheEnd'
      BY DEF TypeOK, RunnerTrue, StartsFree, LastAsked, GoneAtTheEnd, Through, Starting
<1>3. ResultsFresh' /\ JoinedFirst'
      BY DEF ResultsFresh, JoinedFirst, Gone, Through
<1> QED BY <1>1, <1>2, <1>3

(* The way of a task to its thread: the monitor, the runner, the thread.   *)
LEMMA StartMonitorKeeps ==
  ASSUME IInv, StartMonitor
  PROVE  IInv'
<1> USE DEF IInv, StartMonitor, view
<1>1. TypeOK'
      BY DEF TypeOK, UiPlaces
<1>2. RunnerTrue' /\ StartsFree' /\ LastAsked' /\ GoneAtTheEnd'
      BY DEF TypeOK, RunnerTrue, StartsFree, LastAsked, GoneAtTheEnd, Through, Starting
<1>3. ResultsFresh' /\ JoinedFirst'
      BY DEF ResultsFresh, JoinedFirst, Gone, Through
<1> QED BY <1>1, <1>2, <1>3

(* Here UiNeverWaits is decided: only a free runner is joined.             *)
LEMMA RunKeeps ==
  ASSUME IInv, Run
  PROVE  IInv'
<1> USE DEF IInv, Run, view
<1>1. TypeOK'
      BY DEF TypeOK, UiPlaces, Idle, Tasks, NoTask
<1>2. StartsFree'
      BY DEF TypeOK, StartsFree, Starting, Idle
<1>3. RunnerTrue' /\ LastAsked' /\ GoneAtTheEnd'
      BY DEF TypeOK, RunnerTrue, LastAsked, GoneAtTheEnd, Through, Starting, Idle
<1>4. ResultsFresh' /\ JoinedFirst'
      BY DEF ResultsFresh, JoinedFirst, Gone, Through
<1> QED BY <1>1, <1>2, <1>3, <1>4

LEMMA SpawnKeeps ==
  ASSUME IInv, Spawn
  PROVE  IInv'
<1> USE DEF IInv, Spawn, view
<1>0. ui.view \in Views /\ ui.task \in Tasks
      BY DEF StartsFree, Starting, TypeOK
<1>1. TypeOK'
  <2>1. ui' \in [at : UiPlaces, view : Views \cup {Idle.view}, task : Tasks]
        BY DEF Idle, UiPlaces, Tasks, NoTask
  <2>2. worker' \in [Views -> [at : WorkerPlaces, task : Tasks, ok : BOOLEAN]]
        BY <1>0 DEF TypeOK, WorkerPlaces
  <2>3. isRunning' \in [Views -> BOOLEAN]
        BY DEF TypeOK
  <2> QED BY <2>1, <2>2, <2>3 DEF TypeOK
<1>2. RunnerTrue' /\ StartsFree'
      BY <1>0 DEF TypeOK, RunnerTrue, StartsFree, Through, Starting, Idle
<1>3. LastAsked'
      BY <1>0 DEF TypeOK, LastAsked, Through, Starting, Idle
<1>4. \A v \in Views : gone[v] = 0
      BY DEF GoneAtTheEnd
<1>5. GoneAtTheEnd' /\ ResultsFresh'
      BY <1>4 DEF GoneAtTheEnd, ResultsFresh
<1>6. JoinedFirst'
      BY <1>4 DEF JoinedFirst, Gone
<1> QED BY <1>1, <1>2, <1>3, <1>5, <1>6

(* The member that goes is either not the runner, or its thread is joined. *)
LEMMA DestroyMemberKeeps ==
  ASSUME IInv, NEW v \in Views, DestroyMember(v)
  PROVE  IInv'
<1> USE DEF IInv, DestroyMember, view
<1>1. TypeOK'
      BY DEF TypeOK
<1>2. RunnerTrue' /\ StartsFree' /\ LastAsked' /\ GoneAtTheEnd' /\ ResultsFresh'
      BY DEF RunnerTrue, StartsFree, LastAsked, GoneAtTheEnd, ResultsFresh, Through, Starting, TypeOK
<1>3. ASSUME NEW u \in Views, Runner \in Gone(u)' PROVE Through(u)'
  <2>1. PICK i \in 1..gone'[u] : Runner = Declared[u][Len(Declared[u]) + 1 - i]
        BY <1>3 DEF Gone
  <2>2. CASE i \in 1..gone[u]
        BY <2>1, <2>2 DEF JoinedFirst, Gone, Through
  <2>3. CASE i \notin 1..gone[u]
    <3>1. u = v /\ i = gone[v] + 1
          BY <2>1, <2>3 DEF TypeOK
    <3>2. Len(Declared[v]) \in Nat
          BY DeclaredSeq
    <3>3. Len(Declared[v]) + 1 - i = Len(Declared[v]) - gone[v]
      <4>1. gone[v] \in Nat
            BY DEF TypeOK
      <4>2. \A n, g \in Nat : n + 1 - (g + 1) = n - g
            OBVIOUS
      <4> QED BY <3>1, <3>2, <4>1, <4>2
    <3>4. Joined(v) /\ worker' = worker
          BY <2>1, <3>1, <3>3
    <3> QED BY <3>1, <3>4 DEF Joined, Through
  <2> QED BY <2>2, <2>3
<1> QED BY <1>1, <1>2, <1>3 DEF JoinedFirst

-----------------------------------------------------------------------------

(* The steps of a thread. *)

(* What is stored is stored under the name of the task asked for last.     *)
LEMMA StoreKeeps ==
  ASSUME IInv, NEW v \in Views, NEW ok \in BOOLEAN, Store(v, ok)
  PROVE  IInv'
<1> USE DEF IInv, Store, At
<1>0. ~Through(v) /\ worker[v].task \in Tasks
      BY DEF TypeOK, Through
<1>1. TypeOK'
  <2>0. AfterStore(worker[v].task.kind) \in WorkerPlaces
        BY DEF AfterStore, WorkerPlaces
  <2>1. worker' \in [Views -> [at : WorkerPlaces, task : Tasks, ok : BOOLEAN]]
    <3> DEFINE moved == [worker EXCEPT ![v].at = AfterStore(worker[v].task.kind)]
    <3>1. moved \in [Views -> [at : WorkerPlaces, task : Tasks, ok : BOOLEAN]]
          BY <2>0 DEF TypeOK
    <3>2. worker' = [moved EXCEPT ![v].ok = ok]
          BY DEF TypeOK
    <3> HIDE DEF moved
    <3> QED BY <3>1, <3>2
  <2>2. result' \in [Views -> [Kinds -> Nat]]
        BY <1>0 DEF TypeOK, Tasks
  <2> QED BY <2>1, <2>2 DEF TypeOK
<1>2. \A u \in Views : worker'[u].task = worker[u].task /\ (Through(u)' <=> Through(u))
      BY DEF TypeOK, Through, AfterStore
<1>3. RunnerTrue' /\ StartsFree' /\ GoneAtTheEnd'
      BY <1>2 DEF RunnerTrue, StartsFree, GoneAtTheEnd, Starting
<1>4. JoinedFirst'
      BY <1>2 DEF JoinedFirst, Gone, Through
<1>5. \A u \in Views : result'[u]["volume"] =
         IF u = v /\ worker[v].task.kind = "volume" THEN worker[v].task.n ELSE result[u]["volume"]
      BY DEF TypeOK, Kinds
<1>6. LastAsked'
  <2>1. Starting' /\ ui'.task.kind = "volume" => ui'.task.n = asked'[ui'.view]["volume"]
        BY DEF LastAsked, Starting
  <2>2. ASSUME NEW u \in Views, ~Through(u)', worker'[u].task.kind = "volume"
        PROVE  /\ worker'[u].task.n = asked'[u]["volume"]
               /\ worker'[u].at \in {"unflag", "show"} => result'[u]["volume"] = asked'[u]["volume"]
        BY <1>2, <1>5, <2>2 DEF LastAsked, TypeOK
  <2> QED BY <2>1, <2>2 DEF LastAsked
<1>7. ResultsFresh'
      BY <1>0, <1>5 DEF LastAsked, ResultsFresh
<1> QED BY <1>1, <1>3, <1>4, <1>6, <1>7

LEMMA UnflagKeeps ==
  ASSUME IInv, NEW v \in Views, Unflag(v)
  PROVE  IInv'
<1> USE DEF IInv, Unflag, Step, At
<1>1. TypeOK'
      BY DEF TypeOK, WorkerPlaces
<1>2. \A u \in Views : worker'[u].task = worker[u].task /\ (Through(u)' <=> Through(u))
      BY DEF TypeOK, Through
<1>3. RunnerTrue' /\ StartsFree' /\ GoneAtTheEnd' /\ ResultsFresh'
      BY <1>2 DEF RunnerTrue, StartsFree, GoneAtTheEnd, ResultsFresh, Starting
<1>4. JoinedFirst'
      BY <1>2 DEF JoinedFirst, Gone, Through
<1>5. LastAsked'
      BY <1>2 DEF LastAsked, Starting, TypeOK
<1> QED BY <1>1, <1>3, <1>4, <1>5

(* Here a result comes on the screen, and it is the one that was stored.   *)
LEMMA ShowKeeps ==
  ASSUME IInv, NEW v \in Views, Show(v)
  PROVE  IInv'
<1> USE DEF IInv, Show, Step, At
<1>1. TypeOK'
  <2>1. worker[v].task.kind \in Kinds \cup {"none"}
        BY DEF TypeOK, Tasks
  <2>2. shown' \in [Views -> SUBSET (Kinds \cup {"none"})]
        BY <2>1 DEF TypeOK
  <2>3. \E to \in {"register", "finish"} : worker' = [worker EXCEPT ![v].at = to]
    <3> CASE worker[v].ok /\ worker[v].task.kind # "scan"
        OBVIOUS
    <3> CASE ~(worker[v].ok /\ worker[v].task.kind # "scan")
        OBVIOUS
    <3> QED OBVIOUS
  <2>4. worker' \in [Views -> [at : WorkerPlaces, task : Tasks, ok : BOOLEAN]]
        BY <2>3, Moved DEF TypeOK, WorkerPlaces
  <2> QED BY <2>2, <2>4 DEF TypeOK
<1>2. \A u \in Views : worker'[u].task = worker[u].task /\ (Through(u)' <=> Through(u))
      BY DEF TypeOK, Through
<1>3. RunnerTrue' /\ StartsFree' /\ GoneAtTheEnd'
      BY <1>2 DEF RunnerTrue, StartsFree, GoneAtTheEnd, Starting
<1>4. JoinedFirst'
      BY <1>2 DEF JoinedFirst, Gone, Through
<1>5. LastAsked'
      BY <1>2 DEF LastAsked, Starting, TypeOK
<1>6. ASSUME NEW u \in Views, "volume" \in shown'[u]
      PROVE  result'[u]["volume"] = asked'[u]["volume"]
  <2>1. "volume" \in shown[u] \/ (u = v /\ worker[v].task.kind = "volume")
        BY <1>6 DEF TypeOK
  <2> QED BY <2>1 DEF ResultsFresh, LastAsked, Through
<1> QED BY <1>1, <1>3, <1>4, <1>5, <1>6 DEF ResultsFresh

LEMMA RegisterKeeps ==
  ASSUME IInv, NEW v \in Views, Register(v)
  PROVE  IInv'
<1> USE DEF IInv, Register, view
<1>1. TypeOK'
      BY DEF TypeOK
<1>2. RunnerTrue' /\ StartsFree' /\ LastAsked' /\ GoneAtTheEnd'
      BY DEF TypeOK, RunnerTrue, StartsFree, LastAsked, GoneAtTheEnd, Through, Starting
<1>3. ResultsFresh' /\ JoinedFirst'
      BY DEF ResultsFresh, JoinedFirst, Gone, Through
<1> QED BY <1>1, <1>2, <1>3

(* The rest of the way of a thread, before it returns. *)
LEMMA WindUpKeeps ==
  ASSUME IInv, NEW v \in Views,
         Throw(v) \/ Registered(v) \/ FinishMonitor(v)
  PROVE  IInv'
<1>0. /\ worker[v].at \in {"work", "register", "finish"}
      /\ \E to \in {"return", "finish"} : worker' = [worker EXCEPT ![v].at = to]
      /\ UNCHANGED <<ui, isRunning, view, asked, clicks, gone>>
      BY DEF Throw, Registered, FinishMonitor, Step, At
<1> USE <1>0 DEF IInv, view
<1>1. TypeOK'
  <2>1. PICK to \in WorkerPlaces : worker' = [worker EXCEPT ![v].at = to]
        BY DEF WorkerPlaces
  <2>2. worker' \in [Views -> [at : WorkerPlaces, task : Tasks, ok : BOOLEAN]]
        BY <2>1, Moved DEF TypeOK
  <2> QED BY <2>2 DEF TypeOK
<1>2. \A u \in Views : worker'[u].task = worker[u].task /\ (Through(u)' <=> Through(u))
      BY DEF TypeOK, Through
<1>3. RunnerTrue' /\ StartsFree' /\ GoneAtTheEnd' /\ ResultsFresh'
      BY <1>2 DEF RunnerTrue, StartsFree, GoneAtTheEnd, ResultsFresh, Starting
<1>4. JoinedFirst'
      BY <1>2 DEF JoinedFirst, Gone, Through
<1>5. LastAsked'
      BY <1>2 DEF LastAsked, Starting, TypeOK
<1> QED BY <1>1, <1>3, <1>4, <1>5

LEMMA ReturnKeeps ==
  ASSUME IInv, NEW v \in Views, Return(v)
  PROVE  IInv'
<1> USE DEF IInv, Return, Step, At, view
<1>1. TypeOK'
      BY DEF TypeOK, WorkerPlaces
<1>2. \A u \in Views : worker'[u].task = worker[u].task /\ (Through(u)' <=> (u = v \/ Through(u)))
      BY DEF TypeOK, Through
<1>3. RunnerTrue' /\ StartsFree' /\ GoneAtTheEnd' /\ ResultsFresh'
      BY <1>2 DEF TypeOK, RunnerTrue, StartsFree, GoneAtTheEnd, ResultsFresh, Starting
<1>4. JoinedFirst'
      BY <1>2 DEF JoinedFirst, Gone, Through
<1>5. LastAsked'
      BY <1>2 DEF LastAsked, Starting, TypeOK
<1> QED BY <1>1, <1>3, <1>4, <1>5

LEMMA CrashKeeps ==
  ASSUME IInv, NEW v \in Views, Crash(v)
  PROVE  IInv'
<1> USE DEF IInv, Crash, view
<1>1. TypeOK'
      BY DEF TypeOK, UiPlaces
<1>2. RunnerTrue' /\ StartsFree' /\ LastAsked' /\ GoneAtTheEnd'
      BY DEF TypeOK, RunnerTrue, StartsFree, LastAsked, GoneAtTheEnd, Through, Starting
<1>3. ResultsFresh' /\ JoinedFirst'
      BY DEF ResultsFresh, JoinedFirst, Gone, Through
<1> QED BY <1>1, <1>2, <1>3

LEMMA NextKeeps ==
  ASSUME IInv, [Next]_vars
  PROVE  IInv'
<1>1. CASE UI
  <2>1. ASSUME NEW v \in Views, NEW kind \in Kinds, Click(v, kind) \/ PickTarget(v, kind)
        PROVE  IInv'
        BY <2>1, ClickKeeps, PickTargetKeeps
  <2>2. ASSUME NEW v \in Views, DestroyMember(v)
        PROVE  IInv'
        BY <2>2, DestroyMemberKeeps
  <2> QED BY <1>1, <2>1, <2>2, StartMonitorKeeps, RunKeeps, SpawnKeeps, WindowKeeps DEF UI
<1>2. ASSUME NEW v \in Views, Worker(v)
      PROVE  IInv'
  <2>1. ASSUME NEW ok \in BOOLEAN, Store(v, ok)
        PROVE  IInv'
        BY <2>1, StoreKeeps
  <2> QED BY <1>2, <2>1, UnflagKeeps, ShowKeeps, RegisterKeeps, WindUpKeeps, ReturnKeeps, CrashKeeps DEF Worker
<1>3. CASE UNCHANGED vars
  <2> USE <1>3 DEF vars, view
  <2>1. TypeOK' /\ RunnerTrue' /\ StartsFree' /\ LastAsked' /\ GoneAtTheEnd'
        BY DEF IInv, TypeOK, RunnerTrue, StartsFree, LastAsked, GoneAtTheEnd, Through, Starting
  <2>2. ResultsFresh' /\ JoinedFirst'
        BY DEF IInv, ResultsFresh, JoinedFirst, Gone, Through
  <2> QED BY <2>1, <2>2 DEF IInv
<1> QED BY <1>1, <1>2, <1>3 DEF Next

-----------------------------------------------------------------------------

(* What the views, their runners and the UI thread hold between any two    *)
(* steps of any of them, and the types of it all.                          *)
THEOREM GuiInvariant == Spec => []IInv
<1>1. Init => IInv
      BY InitIInv
<1>2. IInv /\ [Next]_vars => IInv'
      BY NextKeeps
<1> QED BY <1>1, <1>2, PTL DEF Spec

(* The UI thread only ever joins a thread that has returned from its task  *)
(* (AsyncTaskRunner::run), with whatever views and tasks.                  *)
THEOREM UiNeverWaitsHolds == Spec => []UiNeverWaits
<1>1. IInv => UiNeverWaits
      BY DEF IInv, StartsFree, RunnerTrue, Starting, Through, UiNeverWaits
<1> QED BY <1>1, GuiInvariant, PTL

(* The result of a volume task on the screen is that of the last one asked *)
(* for, in every view and after any number of clicks.                      *)
THEOREM ResultsFreshHolds == Spec => []ResultsFresh
<1>1. IInv => ResultsFresh
      BY DEF IInv
<1> QED BY <1>1, GuiInvariant, PTL

(* No task needs a member of its view that is destroyed, in the views that *)
(* declare nothing of it behind the runner, however many there are and at  *)
(* whatever moment the window is closed: the first member to go is the     *)
(* runner, which joins.                                                    *)
THEOREM MembersOutliveTasksHolds == Spec => []MembersOutliveTasks
<1>1. IInv => MembersOutliveTasks
  <2> SUFFICES ASSUME IInv, NEW v \in Views \ Unshielded, NEW m \in Gone(v)
               PROVE  ~Needs(v, m)
      BY DEF MembersOutliveTasks
  <2>1. 1 \in 1..gone[v]
        BY DEF Gone, IInv, TypeOK
  <2>2. Declared[v][Len(Declared[v]) + 1 - 1] = Runner
        BY RunnerLast, DeclaredSeq
  <2>3. Runner \in Gone(v)
        BY <2>1, <2>2 DEF Gone
  <2> QED BY <2>3 DEF IInv, JoinedFirst, Through, Needs, Joined
<1> QED BY <1>1, GuiInvariant, PTL
=============================================================================
