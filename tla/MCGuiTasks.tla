----------------------------- MODULE MCGuiTasks -----------------------------
(* Two views: the carver, whose members are declared after its runner, and *)
(* the filesystem recovery, which offers every kind of task.               *)
EXTENDS GuiTasks

TwoViews == {"ViewCarver", "ViewFsRecovery"}
=============================================================================
