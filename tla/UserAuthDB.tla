----------------------------- MODULE UserAuthDB -----------------------------
(***************************************************************************)
(* The account database of src/src/core/user_auth_db.cpp: the records in   *)
(* memory, the file users.db and its temporary copy, a clock, and a        *)
(* process that may die at any point and is started again.                 *)
(*                                                                         *)
(* The calls that change anything hold mutex_ until they have saved, so    *)
(* one is under way at a time; but a save takes several steps, and each    *)
(* may fail or be the last.  A salted hash stands for the password it was  *)
(* made of; the time stamps and roles of a record are left out.            *)
(***************************************************************************)
EXTENDS Naturals, Sequences, FiniteSets, SequencesExt

CONSTANTS
  Users,         \* user names
  Passwords,     \* passwords of sufficient complexity
  Threshold,     \* failures in a row that lock an account (5)
  LockSeconds,   \* for how long (60)
  Absent,        \* there is no such file
  MaxFailures,   \* bound on failed_attempts
  MaxTime,       \* bound on the clock
  MaxMishaps     \* bound on failing file operations

ASSUME BoundAssumption ==
  /\ {Threshold, LockSeconds, MaxFailures, MaxTime, MaxMishaps} \subseteq Nat
  /\ Threshold > 0
  /\ Absent \notin Seq([name : Users, password : Passwords, failed : Nat, until : Nat])

Mishaps == {"open", "short", "rename", "read"}

VARIABLES
  users_,        \* the records in memory
  db, tmp,       \* users.db and users.db.tmp
  now,           \* the clock
  pc,            \* the step of save that comes next
  call,          \* the call that is saving, when it began, what it will answer
  streak,        \* history: failures answered since the right password was given
  lastFailure,   \* history: when the last of them began
  enrolled,      \* history: users whose registration was answered with true
  mishaps        \* history: which file operations failed, and how often

memory == <<users_, pc, call>>
disk == <<db, tmp>>
history == <<streak, lastFailure, enrolled>>
vars == <<memory, disk, now, history, mishaps>>

NoCall == [op |-> "none", name |-> Absent, status |-> "SUCCESS", at |-> 0]

Names(us) == {us[i].name : i \in DOMAIN us}

(* The first record with that name, which is what the loops find. *)
Find(u) == CHOOSE i \in DOMAIN users_ :
             /\ users_[i].name = u
             /\ \A j \in 1..(i - 1) : users_[j].name # u

Init ==
  /\ users_ = <<>>
  /\ db = Absent /\ tmp = Absent
  /\ now = 1
  /\ pc = "idle"
  /\ call = NoCall
  /\ streak = [u \in Users |-> 0]
  /\ lastFailure = [u \in Users |-> 0]
  /\ enrolled = {}
  /\ mishaps = [m \in Mishaps |-> 0]

Mishap(m) ==
  /\ \A k \in Mishaps : mishaps[k] < MaxMishaps
  /\ mishaps' = [mishaps EXCEPT ![m] = @ + 1]

Happened(m) == mishaps[m] > 0

CloseHistory(us) ==
  /\ streak' = [u \in Users |-> IF u \in us THEN 0 ELSE streak[u]]
  /\ lastFailure' = [u \in Users |-> IF u \in us THEN 0 ELSE lastFailure[u]]

Save(op, u, status) ==
  /\ pc' = "open"
  /\ call' = [op |-> op, name |-> u, status |-> status, at |-> now]

-----------------------------------------------------------------------------
(* authenticate with the right password of an account that is not locked.  *)
(* An unknown user and a locked account are turned down without a change.  *)
Locked(r) == r.until > now

(* Mutant: the lock is looked at only after the password was found wrong.  *)
AuthenticateIgnoringLock(u, p) ==
  /\ pc = "idle" /\ u \in Names(users_)
  /\ LET i == Find(u)
     IN /\ users_[i].password = p
        /\ users_' = [users_ EXCEPT ![i].failed = 0, ![i].until = 0]
  /\ Save("authenticate", u, "SUCCESS")
  /\ CloseHistory({u})
  /\ UNCHANGED <<disk, now, enrolled, mishaps>>

AuthenticateRight(u, p) ==
  /\ pc = "idle" /\ u \in Names(users_)
  /\ LET i == Find(u)
     IN /\ ~Locked(users_[i])
        /\ users_[i].password = p
        /\ users_' = [users_ EXCEPT ![i].failed = 0, ![i].until = 0]
  /\ Save("authenticate", u, "SUCCESS")
  /\ CloseHistory({u})
  /\ UNCHANGED <<disk, now, enrolled, mishaps>>

(* authenticate with a wrong one.  The count is kept when a lock expires,  *)
(* so that the next failure locks the account again.                       *)
AuthenticateWrong(u, p) ==
  /\ pc = "idle" /\ u \in Names(users_)
  /\ LET i == Find(u)
         n == users_[i].failed + 1
     IN /\ ~Locked(users_[i])
        /\ users_[i].password # p
        /\ n <= MaxFailures
        /\ users_' = [users_ EXCEPT ![i].failed = n,
                                    ![i].until = IF n >= Threshold THEN now + LockSeconds ELSE @]
        /\ Save("authenticate", u,
                IF n >= Threshold THEN "ACCOUNT_LOCKED" ELSE "INVALID_CREDENTIALS")
  /\ UNCHANGED <<disk, now, history, mishaps>>

(* registerUser, once name and password were found acceptable. *)
RegisterUser(u, p) ==
  /\ pc = "idle" /\ u \notin Names(users_)
  /\ users_' = Append(users_, [name |-> u, password |-> p, failed |-> 0, until |-> 0])
  /\ Save("register", u, "SUCCESS")
  /\ UNCHANGED <<disk, now, history, mishaps>>

(* changePassword with the right old password; a lock is not considered.   *)
ChangePassword(u, old, new) ==
  /\ pc = "idle" /\ u \in Names(users_)
  /\ LET i == Find(u)
     IN /\ users_[i].password = old
        /\ users_' = [users_ EXCEPT ![i].password = new, ![i].failed = 0, ![i].until = 0]
  /\ Save("change", u, "SUCCESS")
  /\ CloseHistory({u})
  /\ UNCHANGED <<disk, now, enrolled, mishaps>>

-----------------------------------------------------------------------------
(* save: the temporary file is opened and emptied ... *)
OpenTmp ==
  /\ pc = "open"
  /\ pc' = "write"
  /\ tmp' = <<>>
  /\ UNCHANGED <<users_, call, db, now, history, mishaps>>

(* Mutant: nobody looks at the result of save. *)
OpenFailsUnnoticed ==
  /\ pc = "open"
  /\ Mishap("open")
  /\ pc' = "return"
  /\ UNCHANGED <<users_, call, disk, now, history>>

(* ... or cannot be, and the call reports that it did not save, unless it  *)
(* is authenticate.                                                        *)
OpenFails ==
  /\ pc = "open"
  /\ Mishap("open")
  /\ pc' = "return"
  /\ call' = IF call.op = "authenticate" THEN call ELSE [call EXCEPT !.status = "FAILED"]
  /\ UNCHANGED <<users_, disk, now, history>>

(* All records are written to it ... *)
WriteTmp ==
  /\ pc = "write"
  /\ pc' = "rename"
  /\ tmp' = users_
  /\ UNCHANGED <<users_, call, db, now, history, mishaps>>

(* ... or only some, if the disk is full: nobody looks at the stream. *)
WriteShort ==
  /\ pc = "write"
  /\ Mishap("short")
  /\ pc' = "rename"
  /\ \E n \in 0..(Len(users_) - 1) : tmp' = SubSeq(users_, 1, n)
  /\ UNCHANGED <<users_, call, db, now, history>>

(* It takes the place of users.db ... *)
RenameTmp ==
  /\ pc = "rename"
  /\ pc' = "return"
  /\ db' = tmp /\ tmp' = Absent
  /\ UNCHANGED <<users_, call, now, history, mishaps>>

(* ... or is copied over it, in bits, if that fails ... *)
RenameFails ==
  /\ pc = "rename"
  /\ Mishap("rename")
  /\ pc' = "copy"
  /\ \E n \in 0..Len(tmp) : db' = SubSeq(tmp, 1, n)
  /\ UNCHANGED <<users_, call, tmp, now, history>>

(* ... and is removed, whether or not the copy was finished. *)
CopyTmp ==
  /\ pc = "copy"
  /\ pc' = "return"
  /\ db' \in {db, tmp} /\ tmp' = Absent
  /\ UNCHANGED <<users_, call, now, history, mishaps>>

(* The call is over; the caller learns how it went. *)
Return ==
  /\ pc = "return"
  /\ pc' = "idle" /\ call' = NoCall
  /\ LET u == call.name
         failure == call.op = "authenticate" /\ call.status # "SUCCESS"
     IN /\ streak' = IF failure THEN [streak EXCEPT ![u] = @ + 1] ELSE streak
        /\ lastFailure' = IF failure THEN [lastFailure EXCEPT ![u] = call.at] ELSE lastFailure
        /\ enrolled' = IF call.op = "register" /\ call.status = "SUCCESS"
                       THEN enrolled \cup {u} ELSE enrolled
  /\ UNCHANGED <<users_, disk, now, mishaps>>

(* The process ends, in the middle of anything.  The temporary file it may *)
(* leave behind is never read, only emptied by the next save.              *)
Exit ==
  /\ pc # "down"
  /\ pc' = "down"
  /\ users_' = <<>> /\ call' = NoCall
  /\ tmp' = Absent
  /\ UNCHANGED <<db, now, history, mishaps>>

(* The constructor of the next one loads the file.  If a save has failed   *)
(* before, what became of the failures it counted is anybody's guess, so   *)
(* the history is closed.                                                  *)
Restarted ==
  CloseHistory(IF \E m \in Mishaps : mishaps'[m] > 0 THEN Users ELSE {})

Start ==
  /\ pc = "down"
  /\ pc' = "idle"
  /\ users_' = IF db = Absent THEN <<>> ELSE db
  /\ UNCHANGED <<call, disk, now, enrolled, mishaps>>
  /\ Restarted

(* The file is there and cannot be read: nobody asks what load returned.   *)
StartUnread ==
  /\ pc = "down" /\ db # Absent
  /\ Mishap("read")
  /\ pc' = "idle"
  /\ users_' = <<>>
  /\ Restarted
  /\ UNCHANGED <<call, disk, now, enrolled>>

Tick ==
  /\ now < MaxTime
  /\ now' = now + 1
  /\ UNCHANGED <<memory, disk, history, mishaps>>

Next ==
  \/ \E u \in Users, p \in Passwords :
       AuthenticateRight(u, p) \/ AuthenticateWrong(u, p) \/ RegisterUser(u, p)
  \/ \E u \in Users, old, new \in Passwords : ChangePassword(u, old, new)
  \/ OpenTmp \/ OpenFails \/ WriteTmp \/ WriteShort
  \/ RenameTmp \/ RenameFails \/ CopyTmp \/ Return
  \/ Exit \/ Start \/ StartUnread \/ Tick

Spec == Init /\ [][Next]_vars
-----------------------------------------------------------------------------

(* Five failures in a row, then no login for sixty seconds: not with the   *)
(* right password, not after the process was ended and started again, at   *)
(* whatever point of a save that happened.  (user_auth_db.cpp:259, :283.)  *)
LockoutHolds ==
  [][\A u \in Users :
       (call.op = "none" /\ call'.op = "authenticate" /\ call'.name = u /\ call'.status = "SUCCESS")
         => streak[u] < Threshold \/ now >= lastFailure[u] + LockSeconds]_vars

(* A user who was told to be registered is in the file from then on.  The  *)
(* three mishaps that save and load do not notice are excepted; a file     *)
(* that cannot be opened is noticed.                                       *)
EnrolledSurvive ==
  ~(Happened("short") \/ Happened("rename") \/ Happened("read"))
    => \A u \in enrolled : db # Absent /\ u \in Names(db)

=============================================================================
