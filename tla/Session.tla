------------------------------ MODULE Session ------------------------------
(***************************************************************************)
(* Who may work at the window: ViewLogin in front of all other views, the  *)
(* session kept in AppContext, and UserAuthDB behind them.  The window     *)
(* calls the database from its only thread and waits for every answer.     *)
(*                                                                         *)
(* Programs other than the window that are linked with the database call   *)
(* it as they like, which is UserAuthDB's own next-state relation.         *)
(***************************************************************************)
EXTENDS UserAuthDB

VARIABLES
  caller,      \* "window", or another program, "library"
  session,     \* the user at work, currentUsername
  enrolling    \* isEnrollmentMode_: the form for a new account is shown

sessionVars == <<caller, session, enrolling>>
allVars == <<vars, sessionVars>>

SessionInit ==
  /\ Init
  /\ caller \in {"library", "window"}
  /\ session = Absent
  /\ enrolling = (caller = "window")

LoginShown == caller = "window" /\ pc = "idle" /\ session = Absent

-----------------------------------------------------------------------------
HandleLogin ==
  /\ LoginShown /\ ~enrolling
  /\ \E u \in Users, p \in Passwords : AuthenticateRight(u, p) \/ AuthenticateWrong(u, p)
  /\ UNCHANGED sessionVars

(* Mutant: the session begins before the account is saved.                 *)
HandleEnrollmentAtOnce ==
  /\ LoginShown /\ enrolling
  /\ \E u \in Users, p \in Passwords : RegisterUser(u, p) /\ session' = u
  /\ UNCHANGED <<caller, enrolling>>

HandleEnrollment ==
  /\ LoginShown /\ enrolling
  /\ \E u \in Users, p \in Passwords : RegisterUser(u, p)
  /\ UNCHANGED sessionVars

(* "Cancel & Return to Login", offered once there are accounts: one whose  *)
(* registration could not be saved counts as well.                         *)
Cancel ==
  /\ LoginShown /\ enrolling /\ users_ # <<>>
  /\ enrolling' = FALSE
  /\ UNCHANGED <<vars, caller, session>>

(* The database answers, and AppContext::login begins the session.         *)
Answered ==
  /\ caller = "window" /\ Return
  /\ session' = IF call.status = "SUCCESS" THEN call.name ELSE session
  /\ UNCHANGED <<caller, enrolling>>

(* AppContext::logout, and resetFields of the view.                        *)
LockStation ==
  /\ caller = "window" /\ session # Absent
  /\ session' = Absent /\ enrolling' = (users_ = <<>>)
  /\ UNCHANGED <<vars, caller>>

(* The process ends or dies, and with it the session; a new one shows the  *)
(* form for a new account when it could load none.                         *)
Restarting ==
  /\ caller = "window"
  /\ \/ Exit /\ session' = Absent /\ UNCHANGED enrolling
     \/ (Start \/ StartUnread) /\ enrolling' = (users_' = <<>>) /\ UNCHANGED session
  /\ UNCHANGED caller

Saving ==
  /\ caller = "window"
  /\ OpenTmp \/ OpenFails \/ WriteTmp \/ WriteShort \/ RenameTmp \/ RenameFails \/ CopyTmp \/ Tick
  /\ UNCHANGED sessionVars

Library == caller = "library" /\ Next /\ UNCHANGED sessionVars

SessionSpec ==
  /\ SessionInit
  /\ [][\/ HandleLogin \/ HandleEnrollment \/ Cancel \/ Answered \/ LockStation
        \/ Restarting \/ Saving \/ Library]_allVars

-----------------------------------------------------------------------------
(* Whoever works at the window has an account that a restart would find,   *)
(* at whatever point the process was ended and started before.  File       *)
(* operations that failed are excepted: after one the user may work with   *)
(* an account that is in memory only.                                      *)
SessionBacked ==
  session # Absent /\ (\A m \in Mishaps : ~Happened(m)) => db # Absent /\ session \in Names(db)
=============================================================================
