---------------------------- MODULE SessionProofs ----------------------------
(***************************************************************************)
(* Accounts and the session, for any users, passwords, thresholds and      *)
(* times, any number of restarts and mishaps: proof that the lock of an    *)
(* account holds (LockoutHolds), that who was told to be registered is in  *)
(* the file (EnrolledSurvive), and that who works at the window has an     *)
(* account that a restart would find (SessionBacked).                      *)
(*                                                                         *)
(* The lock is a matter of two copies of a count.  Memory counts a failure *)
(* before the caller hears of it, and users.db does so when the save was   *)
(* not disturbed: each copy is ahead of the failures that were answered    *)
(* (Counted), so it makes no difference from which one the next login is   *)
(* judged.                                                                 *)
(***************************************************************************)
EXTENDS Session, TLAPS

Records == [name : Users, password : Passwords, failed : Nat, until : Nat]
SaveSteps == {"open", "write", "rename", "copy", "return"}

TypeOK ==
  /\ users_ \in Seq(Records)
  /\ db \in Seq(Records) \cup {Absent}
  /\ tmp \in Seq(Records) \cup {Absent}
  /\ now \in Nat
  /\ pc \in SaveSteps \cup {"idle", "down"}
  /\ streak \in [Users -> Nat] /\ lastFailure \in [Users -> Nat]
  /\ enrolled \subseteq Users
  /\ mishaps \in [Mishaps -> Nat]

(* No two accounts of one name, in memory or in a file. *)
Unique(us) == \A i, j \in DOMAIN us : us[i].name = us[j].name => i = j
UniqueNames ==
  /\ Unique(users_)
  /\ db # Absent => Unique(db)
  /\ tmp # Absent => Unique(tmp)

Calls == [op : {"authenticate", "register", "change"}, name : Users,
          status : {"SUCCESS", "ACCOUNT_LOCKED", "INVALID_CREDENTIALS", "FAILED"},
          at : 0..now]

CallInv ==
  /\ pc \in {"idle", "down"} => call = NoCall
  /\ pc \in SaveSteps => call \in Calls /\ call.name \in Names(users_)

(* The mishaps that save and load do not notice, and all of them. *)
Lossy == Happened("short") \/ Happened("rename") \/ Happened("read")
Quiet == \A m \in Mishaps : ~Happened(m)

(* What is written is what is in memory, unless a mishap happens. *)
SaveInv ==
  /\ pc \in {"rename", "copy"} => tmp # Absent
  /\ pc = "rename" /\ ~Lossy => tmp = users_
  /\ pc = "copy" => Lossy
  /\ /\ pc = "return" /\ ~Lossy
     /\ (call.op = "register" /\ call.status = "SUCCESS") \/ ~Happened("open")
     => db = users_

OnDisk == IF db = Absent THEN <<>> ELSE db

EnrolledInv == ~Lossy => /\ enrolled \subseteq Names(OnDisk)
                         /\ pc # "down" => enrolled \subseteq Names(users_)

(* The failures that were answered are in the records us.                  *)
Counted(us) ==
  \A u \in Users : streak[u] > 0 =>
    \E i \in DOMAIN us : /\ us[i].name = u
                         /\ us[i].failed >= streak[u]
                         /\ streak[u] >= Threshold => us[i].until >= lastFailure[u] + LockSeconds

(* One that is about to be answered is counted in memory. *)
Answering ==
  pc \in SaveSteps /\ call.op = "authenticate" /\ call.status # "SUCCESS" =>
    \E i \in DOMAIN users_ :
      /\ users_[i].name = call.name
      /\ users_[i].failed > streak[call.name]
      /\ users_[i].failed >= Threshold => users_[i].until >= call.at + LockSeconds

CountInv ==
  /\ \A u \in Users : lastFailure[u] <= now
  /\ pc # "down" => Counted(users_)
  /\ Quiet => Counted(OnDisk)
  /\ Answering

IInv == TypeOK /\ UniqueNames /\ CallInv /\ SaveInv /\ EnrolledInv /\ CountInv

-----------------------------------------------------------------------------

LEMMA Bounds == Threshold \in Nat /\ LockSeconds \in Nat /\ Threshold > 0 /\ MaxMishaps \in Nat
BY BoundAssumption

LEMMA FieldTypes ==
  ASSUME NEW us \in Seq(Records), NEW i \in DOMAIN us
  PROVE  us[i] \in Records /\ us[i].name \in Users /\ us[i].failed \in Nat /\ us[i].until \in Nat
<1>1. us[i] \in Records
      OBVIOUS
<1> QED BY <1>1 DEF Records

LEMMA InitIInv == Init => IInv
<1> SUFFICES ASSUME Init PROVE IInv
    OBVIOUS
<1> USE DEF Init
<1>1. TypeOK
  <2>1. <<>> \in Seq(Records)
        OBVIOUS
  <2> QED BY <2>1 DEF TypeOK
<1>2. UniqueNames /\ CallInv /\ SaveInv
      BY DEF UniqueNames, Unique, CallInv, SaveInv, SaveSteps
<1>3. EnrolledInv /\ CountInv
      BY DEF EnrolledInv, CountInv, Counted, Answering, SaveSteps
<1> QED BY <1>1, <1>2, <1>3 DEF IInv

(* The account that the loops find. *)
LEMMA FindFinds ==
  ASSUME TypeOK, UniqueNames, NEW u \in Names(users_)
  PROVE  Find(u) \in DOMAIN users_ /\ users_[Find(u)].name = u
<1>1. PICK i \in DOMAIN users_ : users_[i].name = u
      BY DEF Names
<1>2. DOMAIN users_ = 1..Len(users_) /\ Len(users_) \in Nat
      BY DEF TypeOK
<1>3. \A j \in 1..(i - 1) : users_[j].name # u
  <2> TAKE j \in 1..(i - 1)
  <2>1. j \in DOMAIN users_ /\ j # i
        BY <1>2
  <2> QED BY <1>1, <2>1 DEF UniqueNames, Unique
<1> QED BY <1>1, <1>3 DEF Find

(* A record in memory is replaced by another one of the same name. *)
LEMMA Replaced ==
  ASSUME users_ \in Seq(Records), Unique(users_),
         NEW i \in DOMAIN users_, NEW r \in Records, r.name = users_[i].name,
         users_' = [users_ EXCEPT ![i] = r]
  PROVE  /\ users_' \in Seq(Records) /\ DOMAIN users_' = DOMAIN users_
         /\ users_'[i] = r /\ \A j \in DOMAIN users_ : j # i => users_'[j] = users_[j]
         /\ Names(users_') = Names(users_) /\ Unique(users_')
<1>1. users_' \in Seq(Records) /\ DOMAIN users_' = DOMAIN users_
      OBVIOUS
<1>2. users_'[i] = r /\ \A j \in DOMAIN users_ : j # i => users_'[j] = users_[j]
      OBVIOUS
<1>3. \A j \in DOMAIN users_ : users_'[j].name = users_[j].name
      BY <1>2
<1> QED BY <1>1, <1>2, <1>3 DEF Names, Unique

(* The beginning of a file. *)
LEMMA Beginning ==
  ASSUME NEW us \in Seq(Records), NEW n \in 0..Len(us)
  PROVE  SubSeq(us, 1, n) \in Seq(Records) /\ (Unique(us) => Unique(SubSeq(us, 1, n)))
<1>1. SubSeq(us, 1, n) \in Seq(Records) /\ Len(SubSeq(us, 1, n)) = n
      OBVIOUS
<1>2. \A j \in 1..n : j \in DOMAIN us /\ SubSeq(us, 1, n)[j] = us[j]
      OBVIOUS
<1> QED BY <1>1, <1>2 DEF Unique

(* Failures that are forgotten need not be in any record.                  *)
LEMMA ForgottenCounted ==
  ASSUME NEW us, Counted(us), streak \in [Users -> Nat],
         \A v \in Users : \/ streak'[v] = 0
                          \/ streak'[v] = streak[v] /\ lastFailure'[v] = lastFailure[v]
  PROVE  Counted(us)'
<1> SUFFICES ASSUME NEW u \in Users, streak'[u] > 0
             PROVE  \E i \in DOMAIN us :
                       /\ us[i].name = u
                       /\ us[i].failed >= streak'[u]
                       /\ streak'[u] >= Threshold => us[i].until >= lastFailure'[u] + LockSeconds
    BY DEF Counted
<1>1. streak'[u] = streak[u] /\ lastFailure'[u] = lastFailure[u]
      OBVIOUS
<1> QED BY <1>1 DEF Counted

(* An account is changed in memory, and a save begins: by a login, by a    *)
(* failed one, or by a change of the password.                             *)
AccountChange(u, op, status) ==
  /\ pc = "idle" /\ Save(op, u, status) /\ UNCHANGED <<disk, now, enrolled, mishaps>>
  /\ streak' \in [Users -> Nat] /\ lastFailure' \in [Users -> Nat]
  /\ \A v \in Users :
       IF v = u /\ status = "SUCCESS"
       THEN streak'[v] = 0 /\ lastFailure'[v] = 0
       ELSE streak'[v] = streak[v] /\ lastFailure'[v] = lastFailure[v]
  /\ \E i \in DOMAIN users_, r \in Records :
       /\ users_[i].name = u /\ r.name = u
       /\ users_' = [users_ EXCEPT ![i] = r]
       /\ status # "SUCCESS" => /\ r.failed = users_[i].failed + 1
                                /\ r.failed >= Threshold => r.until = now + LockSeconds

LEMMA AccountChangeKeeps ==
  ASSUME IInv, NEW u \in Users, NEW op \in {"authenticate", "change"},
         NEW status \in {"SUCCESS", "ACCOUNT_LOCKED", "INVALID_CREDENTIALS"},
         AccountChange(u, op, status)
  PROVE  IInv'
<1>a. PICK i \in DOMAIN users_, r \in Records :
        /\ users_[i].name = u /\ r.name = u
        /\ users_' = [users_ EXCEPT ![i] = r]
        /\ status # "SUCCESS" => /\ r.failed = users_[i].failed + 1
                                 /\ r.failed >= Threshold => r.until = now + LockSeconds
      BY DEF AccountChange
<1>b. /\ pc = "idle" /\ Save(op, u, status) /\ UNCHANGED <<disk, now, enrolled, mishaps>>
      /\ streak' \in [Users -> Nat] /\ lastFailure' \in [Users -> Nat]
      /\ \A v \in Users :
           IF v = u /\ status = "SUCCESS"
           THEN streak'[v] = 0 /\ lastFailure'[v] = 0
           ELSE streak'[v] = streak[v] /\ lastFailure'[v] = lastFailure[v]
      BY DEF AccountChange
<1> USE <1>a, <1>b
<1> USE DEF IInv, disk
<1>0. /\ users_ \in Seq(Records) /\ Unique(users_)
      /\ \A k \in DOMAIN users_ : users_[k].failed \in Nat /\ users_[k].until \in Nat
      /\ r.failed \in Nat /\ r.until \in Nat
      /\ now \in Nat
      /\ \A v \in Users : streak[v] \in Nat /\ lastFailure[v] \in Nat /\ lastFailure[v] <= now
  <2>1. users_ \in Seq(Records) /\ Unique(users_) /\ now \in Nat
        BY DEF TypeOK, UniqueNames
  <2>2. r.failed \in Nat /\ r.until \in Nat
        BY DEF Records
  <2>3. \A v \in Users : streak[v] \in Nat /\ lastFailure[v] \in Nat /\ lastFailure[v] <= now
        BY DEF TypeOK, CountInv
  <2> QED BY <2>1, <2>2, <2>3, FieldTypes
<1>1. /\ users_' \in Seq(Records) /\ DOMAIN users_' = DOMAIN users_
      /\ users_'[i] = r /\ \A j \in DOMAIN users_ : j # i => users_'[j] = users_[j]
      /\ Names(users_') = Names(users_) /\ Unique(users_')
  <2>1. users_ \in Seq(Records) /\ Unique(users_) /\ r.name = users_[i].name
        BY <1>0
  <2> QED BY <2>1, Replaced
<1>2. /\ pc' = "open" /\ call' = [op |-> op, name |-> u, status |-> status, at |-> now]
      BY DEF Save
<1>4. TypeOK'
      BY <1>1, <1>2 DEF TypeOK, SaveSteps
<1>5. UniqueNames'
      BY <1>1 DEF UniqueNames
<1>6. u \in Names(users_')
  <2>1. u \in Names(users_)
        BY DEF Names
  <2> QED BY <1>1, <2>1
<1>7. CallInv' /\ SaveInv'
      BY <1>2, <1>6 DEF Calls, CallInv, SaveInv, SaveSteps, TypeOK
<1>8. EnrolledInv'
      BY <1>1, <1>2 DEF EnrolledInv, Lossy, Happened, OnDisk
<1>10. \A v \in Users : lastFailure'[v] <= now'
  <2> TAKE v \in Users
  <2>1. lastFailure'[v] \in {0, lastFailure[v]} /\ now' = now
        OBVIOUS
  <2> QED BY <1>0, <2>1
<1>11. Counted(users_)'
  <2> SUFFICES ASSUME NEW v \in Users, streak'[v] > 0
               PROVE  \E k \in DOMAIN users_' :
                        /\ users_'[k].name = v
                        /\ users_'[k].failed >= streak'[v]
                        /\ streak'[v] >= Threshold =>
                             users_'[k].until >= lastFailure'[v] + LockSeconds
      BY DEF Counted
  <2>1. streak'[v] = streak[v] /\ lastFailure'[v] = lastFailure[v] /\ (v = u => status # "SUCCESS")
        OBVIOUS
  <2>2. PICK k \in DOMAIN users_ :
          /\ users_[k].name = v
          /\ users_[k].failed >= streak[v]
          /\ streak[v] >= Threshold => users_[k].until >= lastFailure[v] + LockSeconds
        BY <2>1 DEF CountInv, Counted
  <2>3. CASE k # i
        BY <1>1, <2>1, <2>2, <2>3
  <2>4. CASE k = i
    <3>1. v = u /\ r.failed = users_[i].failed + 1
          BY <2>1, <2>2, <2>4
    <3>2. r.failed >= streak[v] /\ (streak[v] >= Threshold => r.until >= lastFailure[v] + LockSeconds)
          BY <1>0, <2>1, <2>2, <2>4, <3>1, Bounds
    <3> QED BY <1>1, <2>1, <3>1, <3>2
  <2> QED BY <2>3, <2>4
<1>12. Quiet' => Counted(OnDisk)'
  <2>1. ASSUME Quiet', NEW us, us = OnDisk
        PROVE  Counted(us)'
    <3>1. Counted(us)
          BY <2>1 DEF CountInv, Quiet, Happened
    <3>2. streak \in [Users -> Nat]
          BY DEF TypeOK
    <3>3. \A v \in Users : \/ streak'[v] = 0
                           \/ streak'[v] = streak[v] /\ lastFailure'[v] = lastFailure[v]
          OBVIOUS
    <3> HIDE DEF IInv
    <3> QED BY <3>1, <3>2, <3>3, ForgottenCounted DEF Counted
  <2> QED BY <2>1 DEF Counted, OnDisk
<1>13. Answering'
  <2> SUFFICES ASSUME status # "SUCCESS"
               PROVE  /\ users_'[i].name = u
                      /\ users_'[i].failed > streak'[u]
                      /\ users_'[i].failed >= Threshold => users_'[i].until >= now + LockSeconds
      BY <1>1, <1>2 DEF Answering
  <2>1. streak'[u] = streak[u] /\ r.failed = users_[i].failed + 1
        OBVIOUS
  <2>2. users_[i].failed >= streak[u]
    <3>1. CASE streak[u] > 0
      <4>1. PICK k \in DOMAIN users_ : users_[k].name = u /\ users_[k].failed >= streak[u]
            BY <3>1 DEF CountInv, Counted
      <4> QED BY <1>0, <4>1 DEF Unique
    <3>2. CASE streak[u] = 0
          BY <1>0, <3>2
    <3> QED BY <1>0, <3>1, <3>2
  <2> QED BY <1>0, <1>1, <2>1, <2>2
<1> QED BY <1>2, <1>4, <1>5, <1>7, <1>8, <1>10, <1>11, <1>12, <1>13 DEF CountInv

LEMMA AuthenticateRightKeeps ==
  ASSUME IInv, NEW u \in Users, NEW p \in Passwords, AuthenticateRight(u, p)
  PROVE  IInv'
<1> DEFINE i == Find(u)
           r == [users_[i] EXCEPT !.failed = 0, !.until = 0]
<1>1. /\ pc = "idle" /\ u \in Names(users_) /\ Save("authenticate", u, "SUCCESS")
      /\ users_' = [users_ EXCEPT ![i].failed = 0, ![i].until = 0]
      /\ CloseHistory({u}) /\ UNCHANGED <<disk, now, enrolled, mishaps>>
      BY DEF AuthenticateRight
<1>2. i \in DOMAIN users_ /\ users_[i].name = u
      BY <1>1, FindFinds DEF IInv
<1>3. users_[i] \in Records
      BY <1>2, FieldTypes DEF IInv, TypeOK
<1>4. r \in Records /\ r.name = u
      BY <1>2, <1>3 DEF Records
<1>5. users_' = [users_ EXCEPT ![i] = r]
      BY <1>1, <1>2 DEF IInv, TypeOK
<1>6. /\ streak' \in [Users -> Nat] /\ lastFailure' \in [Users -> Nat]
      /\ \A v \in Users :
           IF v = u THEN streak'[v] = 0 /\ lastFailure'[v] = 0
           ELSE streak'[v] = streak[v] /\ lastFailure'[v] = lastFailure[v]
      BY <1>1 DEF CloseHistory, IInv, TypeOK
<1> HIDE DEF i, r
<1>9. AccountChange(u, "authenticate", "SUCCESS")
      BY <1>1, <1>2, <1>4, <1>5, <1>6 DEF AccountChange
<1> QED BY <1>9, AccountChangeKeeps

LEMMA ChangePasswordKeeps ==
  ASSUME IInv, NEW u \in Users, NEW old \in Passwords, NEW new \in Passwords,
         ChangePassword(u, old, new)
  PROVE  IInv'
<1> DEFINE i == Find(u)
           r == [users_[i] EXCEPT !.password = new, !.failed = 0, !.until = 0]
<1>1. /\ pc = "idle" /\ u \in Names(users_) /\ Save("change", u, "SUCCESS")
      /\ users_' = [users_ EXCEPT ![i].password = new, ![i].failed = 0, ![i].until = 0]
      /\ CloseHistory({u}) /\ UNCHANGED <<disk, now, enrolled, mishaps>>
      BY DEF ChangePassword
<1>2. i \in DOMAIN users_ /\ users_[i].name = u
      BY <1>1, FindFinds DEF IInv
<1>3. users_[i] \in Records
      BY <1>2, FieldTypes DEF IInv, TypeOK
<1>4. r \in Records /\ r.name = u
      BY <1>2, <1>3 DEF Records
<1>5. users_' = [users_ EXCEPT ![i] = r]
      BY <1>1, <1>2 DEF IInv, TypeOK
<1>6. /\ streak' \in [Users -> Nat] /\ lastFailure' \in [Users -> Nat]
      /\ \A v \in Users :
           IF v = u THEN streak'[v] = 0 /\ lastFailure'[v] = 0
           ELSE streak'[v] = streak[v] /\ lastFailure'[v] = lastFailure[v]
      BY <1>1 DEF CloseHistory, IInv, TypeOK
<1> HIDE DEF i, r
<1>9. AccountChange(u, "change", "SUCCESS")
      BY <1>1, <1>2, <1>4, <1>5, <1>6 DEF AccountChange
<1> QED BY <1>9, AccountChangeKeeps

LEMMA AuthenticateWrongKeeps ==
  ASSUME IInv, NEW u \in Users, NEW p \in Passwords, AuthenticateWrong(u, p)
  PROVE  IInv'
<1> DEFINE i == Find(u)
           n == users_[i].failed + 1
           until == IF n >= Threshold THEN now + LockSeconds ELSE users_[i].until
           status == IF n >= Threshold THEN "ACCOUNT_LOCKED" ELSE "INVALID_CREDENTIALS"
           r == [users_[i] EXCEPT !.failed = n, !.until = until]
<1>1. /\ pc = "idle" /\ u \in Names(users_) /\ Save("authenticate", u, status)
      /\ users_' = [users_ EXCEPT ![i].failed = n,
                                  ![i].until = IF n >= Threshold THEN now + LockSeconds ELSE @]
      /\ UNCHANGED <<disk, now, history, mishaps>>
      BY DEF AuthenticateWrong
<1>2. i \in DOMAIN users_ /\ users_[i].name = u
      BY <1>1, FindFinds DEF IInv
<1>3. users_[i] \in Records /\ users_[i].failed \in Nat /\ users_[i].until \in Nat
      BY <1>2, FieldTypes DEF IInv, TypeOK
<1>4. /\ n \in Nat /\ until \in Nat /\ (n >= Threshold => until = now + LockSeconds)
      /\ status \in {"ACCOUNT_LOCKED", "INVALID_CREDENTIALS"}
      BY <1>3, Bounds DEF IInv, TypeOK
<1>5. r \in Records /\ r.name = u /\ r.failed = n /\ r.until = until
      BY <1>2, <1>3, <1>4 DEF Records
<1>6. users_' = [users_ EXCEPT ![i] = r]
      BY <1>1, <1>2 DEF IInv, TypeOK
<1>7. /\ streak' = streak /\ lastFailure' = lastFailure /\ UNCHANGED <<disk, now, enrolled, mishaps>>
      /\ streak \in [Users -> Nat] /\ lastFailure \in [Users -> Nat]
      BY <1>1 DEF history, IInv, TypeOK
<1>8. n = users_[i].failed + 1
      OBVIOUS
<1> HIDE DEF i, n, until, status, r
<1>9. AccountChange(u, "authenticate", status)
      BY <1>1, <1>2, <1>4, <1>5, <1>6, <1>7, <1>8 DEF AccountChange
<1> QED BY <1>4, <1>9, AccountChangeKeeps

LEMMA RegisterUserKeeps ==
  ASSUME IInv, NEW u \in Users, NEW p \in Passwords, RegisterUser(u, p)
  PROVE  IInv'
<1> DEFINE r == [name |-> u, password |-> p, failed |-> 0, until |-> 0]
<1> USE DEF IInv, disk, history
<1>0. users_ \in Seq(Records) /\ Unique(users_) /\ u \notin Names(users_) /\ r \in Records
      BY DEF RegisterUser, TypeOK, UniqueNames, Records
<1>1. users_' = Append(users_, r)
      BY DEF RegisterUser
<1>2. /\ users_' \in Seq(Records) /\ u \in Names(users_') /\ Names(users_) \subseteq Names(users_')
      /\ \A k \in DOMAIN users_ : k \in DOMAIN users_' /\ users_'[k] = users_[k]
  <2> HIDE DEF r, IInv
  <2>1. /\ users_' \in Seq(Records) /\ Len(users_') = Len(users_) + 1
        /\ users_'[Len(users_) + 1] = r
        /\ \A k \in DOMAIN users_ : k \in DOMAIN users_' /\ users_'[k] = users_[k]
        BY <1>0, <1>1
  <2>2. r.name = u
        BY DEF r
  <2> QED BY <1>0, <2>1, <2>2 DEF Names
<1>3. Unique(users_')
  <2> HIDE DEF r, IInv
  <2>1. \A k \in DOMAIN users_' : \/ k \in DOMAIN users_ /\ users_'[k] = users_[k]
                                  \/ k = Len(users_) + 1 /\ users_'[k] = r
        BY <1>0, <1>1
  <2>2. r.name = u /\ \A k \in DOMAIN users_ : users_[k].name # u
        BY <1>0 DEF r, Names
  <2> QED BY <1>0, <2>1, <2>2 DEF Unique
<1>4. /\ pc' = "open" /\ call' = [op |-> "register", name |-> u, status |-> "SUCCESS", at |-> now]
      /\ UNCHANGED <<db, tmp, now, streak, lastFailure, enrolled, mishaps>>
      BY DEF RegisterUser, Save
<1>5. pc = "idle"
      BY DEF RegisterUser
<1>6. TypeOK' /\ UniqueNames'
      BY <1>2, <1>3, <1>4 DEF TypeOK, UniqueNames, SaveSteps
<1>7. CallInv' /\ SaveInv'
      BY <1>2, <1>4 DEF Calls, CallInv, SaveInv, SaveSteps, TypeOK
<1>8. EnrolledInv'
      BY <1>2, <1>4, <1>5 DEF EnrolledInv, Lossy, Happened, OnDisk
<1>9. CountInv'
  <2>1. Counted(users_)'
        BY <1>2, <1>4, <1>5 DEF CountInv, Counted
  <2> QED BY <1>4, <2>1 DEF CountInv, Quiet, Happened, OnDisk, Counted, Answering
<1> QED BY <1>6, <1>7, <1>8, <1>9

-----------------------------------------------------------------------------

LEMMA MishapHappens ==
  ASSUME TypeOK, NEW m \in Mishaps, Mishap(m)
  PROVE  /\ mishaps' \in [Mishaps -> Nat]
         /\ Happened(m)' /\ \A k \in Mishaps : Happened(k) => Happened(k)'
         /\ ~Quiet' /\ (Lossy => Lossy')
<1>1. /\ mishaps \in [Mishaps -> Nat] /\ mishaps' = [mishaps EXCEPT ![m] = mishaps[m] + 1]
      BY DEF TypeOK, Mishap
<1>2. mishaps' \in [Mishaps -> Nat] /\ \A k \in Mishaps : mishaps'[k] >= mishaps[k]
      BY <1>1
<1>3. mishaps'[m] > 0
      BY <1>1
<1>4. \A k \in Mishaps : Happened(k) => Happened(k)'
      BY <1>1, <1>2 DEF Happened
<1> QED BY <1>2, <1>3, <1>4 DEF Quiet, Lossy, Happened, Mishaps

(* In the middle of a save neither memory nor history change, and the      *)
(* invariant comes down to what is on disk.                                *)
LEMMA SavingKeeps ==
  ASSUME IInv, pc \in SaveSteps, pc' \in SaveSteps,
         UNCHANGED <<users_, now, history>>,
         TypeOK', UniqueNames', SaveInv',
         call' \in Calls,
         call'.name = call.name /\ call'.at = call.at,
         call'.op = "authenticate" => call = call',
         Lossy => Lossy',
         ~Lossy' => OnDisk' \in {OnDisk, users_},
         Quiet' => Quiet /\ OnDisk' \in {OnDisk, users_}
  PROVE  IInv'
<1> USE DEF IInv, history
<1>1. CallInv'
      BY DEF Calls, CallInv, SaveSteps
<1>2. EnrolledInv'
  <2> SUFFICES ASSUME ~Lossy' PROVE enrolled \subseteq Names(OnDisk') /\ enrolled \subseteq Names(users_)
      BY DEF EnrolledInv
  <2>1. enrolled \subseteq Names(OnDisk) /\ enrolled \subseteq Names(users_)
        BY DEF EnrolledInv, SaveSteps
  <2> QED BY <2>1
<1>3. CountInv'
  <2>1. Counted(users_) /\ Counted(users_)'
        BY DEF CountInv, Counted, SaveSteps
  <2>2. ASSUME Quiet' PROVE Counted(OnDisk)'
    <3>1. Counted(OnDisk)
          BY <2>2 DEF CountInv
    <3>2. CASE OnDisk' = OnDisk
          BY <3>1, <3>2 DEF Counted
    <3>3. CASE OnDisk' = users_
          BY <2>1, <3>3 DEF Counted
    <3> QED BY <2>2, <3>2, <3>3
  <2>3. Answering'
        BY DEF CountInv, Answering, CallInv
  <2> QED BY <2>1, <2>2, <2>3 DEF CountInv
<1> QED BY <1>1, <1>2, <1>3

LEMMA OpenTmpKeeps ==
  ASSUME IInv, OpenTmp
  PROVE  IInv'
<1>1. /\ pc = "open" /\ pc' = "write" /\ tmp' = <<>>
      /\ UNCHANGED <<users_, call, db, now, streak, lastFailure, enrolled, mishaps>>
      BY DEF OpenTmp, history
<1>2. TypeOK' /\ UniqueNames' /\ SaveInv'
  <2>1. <<>> \in Seq(Records) /\ Unique(<<>>)
        BY DEF Unique
  <2> QED BY <1>1, <2>1 DEF IInv, TypeOK, UniqueNames, SaveInv, SaveSteps
<1>3. call \in Calls
      BY <1>1 DEF IInv, CallInv, SaveSteps
<1>4. pc \in SaveSteps /\ pc' \in SaveSteps
      BY <1>1 DEF SaveSteps
<1>5. OnDisk' = OnDisk /\ (Lossy => Lossy') /\ (Quiet' => Quiet)
      BY <1>1 DEF OnDisk, Lossy, Quiet, Happened
<1> QED BY <1>1, <1>2, <1>3, <1>4, <1>5, SavingKeeps DEF history

LEMMA OpenFailsKeeps ==
  ASSUME IInv, OpenFails
  PROVE  IInv'
<1>1. /\ pc = "open" /\ pc' = "return" /\ Mishap("open")
      /\ call' = IF call.op = "authenticate" THEN call ELSE [call EXCEPT !.status = "FAILED"]
      /\ UNCHANGED <<users_, db, tmp, now, streak, lastFailure, enrolled>>
      BY DEF OpenFails, disk, history
<1>2. call \in Calls
      BY <1>1 DEF IInv, CallInv, SaveSteps
<1>3. /\ call' \in Calls /\ call'.name = call.name /\ call'.at = call.at
      /\ call'.op = call.op /\ (call.op = "authenticate" => call' = call)
      /\ call.op # "authenticate" => call'.status = "FAILED"
      BY <1>1, <1>2 DEF Calls
<1>4. mishaps' \in [Mishaps -> Nat] /\ Happened("open")' /\ ~Quiet' /\ (Lossy => Lossy')
      BY <1>1, MishapHappens DEF IInv, Mishaps
<1>5. TypeOK' /\ UniqueNames' /\ SaveInv'
  <2>1. TypeOK' /\ UniqueNames'
        BY <1>1, <1>4 DEF IInv, TypeOK, UniqueNames, SaveSteps
  <2>2. SaveInv'
        BY <1>1, <1>3, <1>4 DEF SaveInv
  <2> QED BY <2>1, <2>2
<1>6. pc \in SaveSteps /\ pc' \in SaveSteps
      BY <1>1 DEF SaveSteps
<1>7. OnDisk' = OnDisk
      BY <1>1 DEF OnDisk
<1> QED BY <1>1, <1>3, <1>4, <1>5, <1>6, <1>7, SavingKeeps DEF history

LEMMA WriteKeeps ==
  ASSUME IInv, WriteTmp \/ WriteShort
  PROVE  IInv'
<1>1. /\ pc = "write" /\ pc' = "rename"
      /\ UNCHANGED <<users_, call, db, now, streak, lastFailure, enrolled>>
      BY DEF WriteTmp, WriteShort, history
<1>2. users_ \in Seq(Records) /\ Unique(users_) /\ call \in Calls
      BY <1>1 DEF IInv, TypeOK, UniqueNames, CallInv, SaveSteps
<1>3. \/ tmp' = users_ /\ UNCHANGED mishaps
      \/ Mishap("short") /\ \E n \in 0..(Len(users_) - 1) : tmp' = SubSeq(users_, 1, n)
      BY DEF WriteTmp, WriteShort
<1>4. /\ mishaps' \in [Mishaps -> Nat] /\ (Lossy => Lossy') /\ (Quiet' => Quiet)
      /\ tmp' = users_ \/ Lossy'
  <2>1. CASE tmp' = users_ /\ UNCHANGED mishaps
        BY <2>1 DEF IInv, TypeOK, Lossy, Quiet, Happened
  <2>2. CASE Mishap("short")
        BY <2>2, MishapHappens DEF IInv, Mishaps, Lossy
  <2> QED BY <1>3, <2>1, <2>2
<1>5. tmp' \in Seq(Records) /\ Unique(tmp')
  <2>1. CASE tmp' = users_
        BY <1>2, <2>1
  <2>2. ASSUME NEW n \in 0..(Len(users_) - 1), tmp' = SubSeq(users_, 1, n)
        PROVE  tmp' \in Seq(Records) /\ Unique(tmp')
    <3>1. n \in 0..Len(users_)
          BY <1>2
    <3>2. SubSeq(users_, 1, n) \in Seq(Records) /\ Unique(SubSeq(users_, 1, n))
          BY <1>2, <3>1, Beginning
    <3> QED BY <2>2, <3>2
  <2> QED BY <1>3, <2>1, <2>2
<1>6. TypeOK' /\ UniqueNames' /\ SaveInv'
  <2>1. tmp' # Absent
        BY <1>5, BoundAssumption DEF Records
  <2> QED BY <1>1, <1>4, <1>5, <2>1 DEF IInv, TypeOK, UniqueNames, SaveInv, SaveSteps
<1>7. pc \in SaveSteps /\ pc' \in SaveSteps
      BY <1>1 DEF SaveSteps
<1>8. OnDisk' = OnDisk
      BY <1>1 DEF OnDisk
<1> QED BY <1>1, <1>2, <1>4, <1>6, <1>7, <1>8, SavingKeeps DEF history

(* The one step that makes users.db what memory is. *)
LEMMA RenameTmpKeeps ==
  ASSUME IInv, RenameTmp
  PROVE  IInv'
<1>1. /\ pc = "rename" /\ pc' = "return" /\ db' = tmp /\ tmp' = Absent
      /\ UNCHANGED <<users_, call, now, streak, lastFailure, enrolled, mishaps>>
      BY DEF RenameTmp, history
<1>2. tmp \in Seq(Records) /\ tmp # Absent /\ call \in Calls
      BY <1>1 DEF IInv, TypeOK, SaveInv, CallInv, SaveSteps
<1>3. (Lossy' <=> Lossy) /\ (Quiet' <=> Quiet) /\ (~Lossy => tmp = users_)
      BY <1>1 DEF IInv, SaveInv, Lossy, Quiet, Happened
<1>4. TypeOK' /\ UniqueNames' /\ SaveInv'
      BY <1>1, <1>2, <1>3 DEF IInv, TypeOK, UniqueNames, SaveInv, SaveSteps
<1>5. pc \in SaveSteps /\ pc' \in SaveSteps
      BY <1>1 DEF SaveSteps
<1>6. ~Lossy' => OnDisk' = users_
      BY <1>1, <1>2, <1>3 DEF OnDisk
<1>7. Quiet' => ~Lossy'
      BY DEF Quiet, Lossy, Mishaps
<1> QED BY <1>1, <1>2, <1>3, <1>4, <1>5, <1>6, <1>7, SavingKeeps DEF history

LEMMA RenameFailsKeeps ==
  ASSUME IInv, RenameFails
  PROVE  IInv'
<1>1. /\ pc = "rename" /\ pc' = "copy" /\ Mishap("rename")
      /\ UNCHANGED <<users_, call, tmp, now, streak, lastFailure, enrolled>>
      BY DEF RenameFails, history
<1>2. tmp \in Seq(Records) /\ Unique(tmp) /\ tmp # Absent /\ call \in Calls
      BY <1>1 DEF IInv, TypeOK, UniqueNames, SaveInv, CallInv, SaveSteps
<1>3. mishaps' \in [Mishaps -> Nat] /\ Lossy' /\ ~Quiet'
      BY <1>1, MishapHappens DEF IInv, Mishaps, Lossy
<1>4. db' \in Seq(Records) /\ Unique(db')
  <2>1. PICK n \in 0..Len(tmp) : db' = SubSeq(tmp, 1, n)
        BY DEF RenameFails
  <2>2. SubSeq(tmp, 1, n) \in Seq(Records) /\ Unique(SubSeq(tmp, 1, n))
        BY <1>2, Beginning
  <2> QED BY <2>1, <2>2
<1>5. TypeOK' /\ UniqueNames' /\ SaveInv'
      BY <1>1, <1>2, <1>3, <1>4 DEF IInv, TypeOK, UniqueNames, SaveInv, SaveSteps
<1>6. pc \in SaveSteps /\ pc' \in SaveSteps
      BY <1>1 DEF SaveSteps
<1> QED BY <1>1, <1>2, <1>3, <1>5, <1>6, SavingKeeps DEF history

LEMMA CopyTmpKeeps ==
  ASSUME IInv, CopyTmp
  PROVE  IInv'
<1>1. /\ pc = "copy" /\ pc' = "return" /\ db' \in {db, tmp} /\ tmp' = Absent
      /\ UNCHANGED <<users_, call, now, streak, lastFailure, enrolled, mishaps>>
      BY DEF CopyTmp, history
<1>2. tmp # Absent /\ call \in Calls /\ Lossy
      BY <1>1 DEF IInv, SaveInv, CallInv, SaveSteps
<1>3. Lossy' /\ ~Quiet'
      BY <1>1, <1>2 DEF Lossy, Quiet, Happened, Mishaps
<1>4. TypeOK' /\ UniqueNames' /\ SaveInv'
      BY <1>1, <1>2, <1>3 DEF IInv, TypeOK, UniqueNames, SaveInv, SaveSteps
<1>5. pc \in SaveSteps /\ pc' \in SaveSteps
      BY <1>1 DEF SaveSteps
<1> QED BY <1>1, <1>2, <1>3, <1>4, <1>5, SavingKeeps DEF history

-----------------------------------------------------------------------------

(* Here a failure is answered, which both copies count already.            *)
LEMMA ReturnKeeps ==
  ASSUME IInv, Return
  PROVE  IInv'
<1> DEFINE u == call.name
           failure == call.op = "authenticate" /\ call.status # "SUCCESS"
<1>1. /\ pc = "return" /\ pc' = "idle" /\ call' = NoCall
      /\ UNCHANGED <<users_, db, tmp, now, mishaps>>
      /\ streak' = IF failure THEN [streak EXCEPT ![u] = @ + 1] ELSE streak
      /\ lastFailure' = IF failure THEN [lastFailure EXCEPT ![u] = call.at] ELSE lastFailure
      /\ enrolled' = IF call.op = "register" /\ call.status = "SUCCESS"
                     THEN enrolled \cup {u} ELSE enrolled
      BY DEF Return, disk
<1>2. /\ u \in Users /\ u \in Names(users_) /\ call.at \in 0..now /\ now \in Nat
      /\ streak \in [Users -> Nat] /\ lastFailure \in [Users -> Nat] /\ enrolled \subseteq Users
      BY <1>1 DEF IInv, TypeOK, CallInv, SaveSteps, Calls
<1>3. /\ streak' \in [Users -> Nat] /\ lastFailure' \in [Users -> Nat]
      /\ \A v \in Users : IF v = u /\ failure
                          THEN streak'[v] = streak[v] + 1 /\ lastFailure'[v] = call.at
                          ELSE streak'[v] = streak[v] /\ lastFailure'[v] = lastFailure[v]
  <2>1. CASE failure
        BY <1>1, <1>2, <2>1
  <2>2. CASE ~failure
        BY <1>1, <1>2, <2>2
  <2> QED BY <2>1, <2>2
<1>4. enrolled' \subseteq Users
      BY <1>1, <1>2
<1>5. TypeOK' /\ UniqueNames' /\ CallInv' /\ SaveInv'
      BY <1>1, <1>3, <1>4 DEF IInv, TypeOK, UniqueNames, CallInv, SaveInv, SaveSteps
<1>6. (Lossy' <=> Lossy) /\ (Quiet' <=> Quiet) /\ (Quiet => ~Lossy /\ ~Happened("open"))
      BY <1>1 DEF Lossy, Quiet, Happened, Mishaps
<1>7. /\ /\ ~Lossy
         /\ (call.op = "register" /\ call.status = "SUCCESS") \/ ~Happened("open")
         => OnDisk = users_
      /\ OnDisk' = OnDisk
  <2>1. users_ # Absent
        BY BoundAssumption DEF IInv, TypeOK, Records
  <2> QED BY <1>1, <2>1 DEF IInv, SaveInv, OnDisk
<1>8. EnrolledInv'
  <2> SUFFICES ASSUME ~Lossy'
               PROVE  enrolled' \subseteq Names(OnDisk') /\ enrolled' \subseteq Names(users_')
      BY DEF EnrolledInv
  <2>1. enrolled \subseteq Names(OnDisk) /\ enrolled \subseteq Names(users_)
        BY <1>1, <1>6 DEF IInv, EnrolledInv
  <2>2. CASE call.op = "register" /\ call.status = "SUCCESS"
        BY <1>1, <1>2, <1>6, <1>7, <2>1, <2>2
  <2>3. CASE ~(call.op = "register" /\ call.status = "SUCCESS")
        BY <1>1, <1>7, <2>1, <2>3
  <2> QED BY <2>2, <2>3
<1>9. \A v \in Users : lastFailure'[v] <= now'
  <2> TAKE v \in Users
  <2>1. lastFailure'[v] \in {lastFailure[v], call.at} /\ now' = now
        BY <1>1, <1>3
  <2> QED BY <1>2, <2>1 DEF IInv, CountInv
<1>10. Counted(users_)'
  <2> SUFFICES ASSUME NEW v \in Users, streak'[v] > 0
               PROVE  \E k \in DOMAIN users_ :
                        /\ users_[k].name = v
                        /\ users_[k].failed >= streak'[v]
                        /\ streak'[v] >= Threshold =>
                             users_[k].until >= lastFailure'[v] + LockSeconds
      BY <1>1 DEF Counted
  <2>1. CASE v = u /\ failure
    <3>1. PICK k \in DOMAIN users_ :
            /\ users_[k].name = u
            /\ users_[k].failed > streak[u]
            /\ users_[k].failed >= Threshold => users_[k].until >= call.at + LockSeconds
          BY <1>1, <2>1 DEF IInv, CountInv, Answering, SaveSteps
    <3>2. users_[k].failed \in Nat /\ streak[u] \in Nat
          BY <1>2, FieldTypes DEF IInv, TypeOK
    <3>3. streak'[v] = streak[u] + 1 /\ lastFailure'[v] = call.at
          BY <1>3, <2>1
    <3>4. users_[k].failed >= streak'[v]
          BY <3>1, <3>2, <3>3
    <3>5. streak'[v] >= Threshold => users_[k].until >= lastFailure'[v] + LockSeconds
          BY <3>1, <3>2, <3>3, <3>4, Bounds
    <3> QED BY <2>1, <3>1, <3>4, <3>5
  <2>2. CASE ~(v = u /\ failure)
    <3>1. streak'[v] = streak[v] /\ lastFailure'[v] = lastFailure[v]
          BY <1>3, <2>2
    <3> QED BY <1>1, <3>1 DEF IInv, CountInv, Counted
  <2> QED BY <2>1, <2>2
<1>11. Quiet' => Counted(OnDisk)'
  <2> SUFFICES ASSUME Quiet' PROVE Counted(OnDisk)'
      OBVIOUS
  <2>1. OnDisk' = users_'
        BY <1>1, <1>6, <1>7
  <2> QED BY <1>10, <2>1 DEF Counted
<1>12. Answering'
       BY <1>1 DEF Answering, SaveSteps
<1> QED BY <1>5, <1>8, <1>9, <1>10, <1>11, <1>12 DEF IInv, CountInv

LEMMA ExitKeeps ==
  ASSUME IInv, Exit
  PROVE  IInv'
<1>1. /\ pc' = "down" /\ users_' = <<>> /\ call' = NoCall /\ tmp' = Absent
      /\ UNCHANGED <<db, now, streak, lastFailure, enrolled, mishaps>>
      BY DEF Exit, history
<1>2. <<>> \in Seq(Records) /\ Unique(<<>>)
      BY DEF Unique
<1>3. TypeOK' /\ UniqueNames'
      BY <1>1, <1>2 DEF IInv, TypeOK, UniqueNames
<1>4. CallInv' /\ SaveInv'
      BY <1>1 DEF CallInv, SaveInv, SaveSteps
<1>5. EnrolledInv'
      BY <1>1 DEF IInv, EnrolledInv, Lossy, Happened, OnDisk
<1>6. CountInv'
      BY <1>1 DEF IInv, CountInv, Quiet, Happened, OnDisk, Counted, Answering, SaveSteps
<1> QED BY <1>3, <1>4, <1>5, <1>6 DEF IInv

(* After a mishap the history is closed, and without one it is on disk.    *)
LEMMA StartKeeps ==
  ASSUME IInv, Start \/ StartUnread
  PROVE  IInv'
<1>1. /\ pc = "down" /\ pc' = "idle" /\ UNCHANGED <<call, db, tmp, now, enrolled>> /\ Restarted
      BY DEF Start, StartUnread, disk
<1>2. \/ users_' = OnDisk /\ UNCHANGED mishaps
      \/ users_' = <<>> /\ Mishap("read")
      BY DEF Start, StartUnread, OnDisk
<1>3. OnDisk \in Seq(Records) /\ Unique(OnDisk) /\ OnDisk' = OnDisk
      BY <1>1 DEF IInv, TypeOK, UniqueNames, Unique, OnDisk
<1>4. <<>> \in Seq(Records) /\ Unique(<<>>)
      BY DEF Unique
<1>5. /\ mishaps' \in [Mishaps -> Nat] /\ (Lossy => Lossy') /\ (Quiet' => Quiet)
      /\ users_' = OnDisk \/ Lossy'
  <2>1. CASE users_' = OnDisk /\ UNCHANGED mishaps
        BY <2>1 DEF IInv, TypeOK, Lossy, Quiet, Happened
  <2>2. CASE Mishap("read")
        BY <2>2, MishapHappens DEF IInv, Mishaps, Lossy
  <2> QED BY <1>2, <2>1, <2>2
<1>6. /\ streak' \in [Users -> Nat] /\ lastFailure' \in [Users -> Nat]
      /\ \A v \in Users : \/ streak'[v] = 0 /\ lastFailure'[v] = 0
                          \/ streak'[v] = streak[v] /\ lastFailure'[v] = lastFailure[v]
      /\ ~Quiet' => \A v \in Users : streak'[v] = 0
      BY <1>1 DEF Restarted, CloseHistory, IInv, TypeOK, Quiet, Happened
<1>7. TypeOK' /\ UniqueNames'
      BY <1>1, <1>2, <1>3, <1>4, <1>5, <1>6 DEF IInv, TypeOK, UniqueNames
<1>8. CallInv' /\ SaveInv'
      BY <1>1 DEF IInv, CallInv, SaveInv, SaveSteps
<1>9. EnrolledInv'
      BY <1>1, <1>3, <1>5 DEF IInv, EnrolledInv
<1>10. \A v \in Users : lastFailure'[v] <= now'
  <2> TAKE v \in Users
  <2>1. lastFailure'[v] \in {0, lastFailure[v]} /\ now' = now
        BY <1>1, <1>6
  <2> QED BY <2>1 DEF IInv, TypeOK, CountInv
<1>11. Quiet' => Counted(OnDisk)'
  <2> SUFFICES ASSUME Quiet' PROVE Counted(OnDisk)'
      OBVIOUS
  <2>1. Counted(OnDisk)
        BY <1>5 DEF IInv, CountInv
  <2>2. streak \in [Users -> Nat]
        BY DEF IInv, TypeOK
  <2>3. ASSUME NEW v \in Users, streak'[v] > 0
        PROVE  streak'[v] = streak[v] /\ lastFailure'[v] = lastFailure[v]
        BY <1>6, <2>3
  <2> QED BY <1>3, <2>1, <2>3 DEF Counted
<1>12. Counted(users_)'
  <2>1. CASE Quiet'
    <3>1. users_' = OnDisk'
          BY <1>3, <1>5, <2>1 DEF Quiet, Lossy, Mishaps
    <3> QED BY <1>11, <2>1, <3>1 DEF Counted
  <2>2. CASE ~Quiet'
        BY <1>6, <2>2 DEF Counted
  <2> QED BY <2>1, <2>2
<1>13. Answering'
       BY <1>1 DEF Answering, SaveSteps
<1> QED BY <1>7, <1>8, <1>9, <1>10, <1>11, <1>12, <1>13 DEF IInv, CountInv

LEMMA TickKeeps ==
  ASSUME IInv, Tick
  PROVE  IInv'
<1>1. now' = now + 1 /\ UNCHANGED <<users_, pc, call, db, tmp, streak, lastFailure, enrolled, mishaps>>
      BY DEF Tick, memory, disk, history
<1>2. now \in Nat
      BY DEF IInv, TypeOK
<1>3. TypeOK' /\ UniqueNames' /\ SaveInv' /\ EnrolledInv'
      BY <1>1 DEF IInv, TypeOK, UniqueNames, SaveInv, EnrolledInv, Lossy, Happened, OnDisk
<1>4. CallInv'
  <2>1. Calls \subseteq Calls'
        BY <1>1, <1>2 DEF Calls
  <2> QED BY <1>1, <2>1 DEF IInv, CallInv
<1>5. \A v \in Users : lastFailure'[v] <= now'
  <2> TAKE v \in Users
  <2>1. lastFailure[v] \in Nat /\ lastFailure[v] <= now
        BY DEF IInv, TypeOK, CountInv
  <2> QED BY <1>1, <1>2, <2>1
<1>6. CountInv'
      BY <1>1, <1>5 DEF IInv, CountInv, Counted, Answering, Quiet, Happened, OnDisk
<1> QED BY <1>3, <1>4, <1>6 DEF IInv

LEMMA NextKeeps ==
  ASSUME IInv, [Next]_vars
  PROVE  IInv'
<1>1. ASSUME NEW u \in Users, NEW p \in Passwords,
             AuthenticateRight(u, p) \/ AuthenticateWrong(u, p) \/ RegisterUser(u, p)
      PROVE  IInv'
      BY <1>1, AuthenticateRightKeeps, AuthenticateWrongKeeps, RegisterUserKeeps
<1>2. ASSUME NEW u \in Users, NEW old \in Passwords, NEW new \in Passwords,
             ChangePassword(u, old, new)
      PROVE  IInv'
      BY <1>2, ChangePasswordKeeps
<1>3. CASE UNCHANGED vars
  <2> USE <1>3 DEF vars, memory, disk, history
  <2>1. TypeOK' /\ UniqueNames' /\ CallInv' /\ SaveInv'
        BY DEF IInv, TypeOK, UniqueNames, CallInv, Calls, SaveInv, Lossy, Happened
  <2>2. EnrolledInv' /\ CountInv'
        BY DEF IInv, EnrolledInv, CountInv, Counted, Answering, Quiet, Lossy, Happened, OnDisk
  <2> QED BY <2>1, <2>2 DEF IInv
<1> QED BY <1>1, <1>2, <1>3, OpenTmpKeeps, OpenFailsKeeps, WriteKeeps, RenameTmpKeeps,
           RenameFailsKeeps, CopyTmpKeeps, ReturnKeeps, ExitKeeps, StartKeeps, TickKeeps DEF Next

(* What memory, disk and history of the accounts hold between any two      *)
(* steps of any program linked with the database.                          *)
THEOREM AccountInvariant == Spec => []IInv
<1>1. Init => IInv
      BY InitIInv
<1>2. IInv /\ [Next]_vars => IInv'
      BY NextKeeps
<1> QED BY <1>1, <1>2, PTL DEF Spec

(* A login that succeeds was not preceded by Threshold failures in a row   *)
(* less than LockSeconds ago, whatever was restarted in between.           *)
THEOREM LockoutAlwaysHolds == Spec => LockoutHolds
<1>1. ASSUME IInv, [Next]_vars, NEW u \in Users,
             call.op = "none", call'.op = "authenticate", call'.name = u, call'.status = "SUCCESS"
      PROVE  streak[u] < Threshold \/ now >= lastFailure[u] + LockSeconds
  <2>1. pc \notin SaveSteps
        BY <1>1 DEF IInv, CallInv, Calls
  <2>2. PICK p \in Passwords : AuthenticateRight(u, p)
    <3>1. ~ UNCHANGED call
          BY <1>1
    <3>2. call' # NoCall
          BY <1>1 DEF NoCall
    <3>3. ASSUME NEW v \in Users, NEW p \in Passwords, AuthenticateRight(v, p)
          PROVE  u = v
          BY <1>1, <3>3 DEF AuthenticateRight, Save
    <3>4. ASSUME NEW v \in Users, NEW p \in Passwords, AuthenticateWrong(v, p)
          PROVE  FALSE
      <4>1. call'.status \in {"ACCOUNT_LOCKED", "INVALID_CREDENTIALS"}
            BY <3>4 DEF AuthenticateWrong, Save
      <4> QED BY <1>1, <4>1
    <3>5. ASSUME NEW v \in Users, NEW p \in Passwords, RegisterUser(v, p)
          PROVE  FALSE
          BY <1>1, <3>5 DEF RegisterUser, Save
    <3>6. ASSUME NEW v \in Users, NEW old \in Passwords, NEW new \in Passwords,
                 ChangePassword(v, old, new)
          PROVE  FALSE
          BY <1>1, <3>6 DEF ChangePassword, Save
    <3>7. /\ ~OpenTmp /\ ~OpenFails /\ ~WriteTmp /\ ~WriteShort
          /\ ~RenameTmp /\ ~RenameFails /\ ~CopyTmp /\ ~Return
          BY <2>1 DEF OpenTmp, OpenFails, WriteTmp, WriteShort, RenameTmp, RenameFails, CopyTmp,
                      Return, SaveSteps
    <3>8. ~Exit /\ ~Start /\ ~StartUnread /\ ~Tick /\ ~ UNCHANGED vars
          BY <3>1, <3>2 DEF Exit, Start, StartUnread, Tick, vars, memory
    <3> QED BY <1>1, <3>3, <3>4, <3>5, <3>6, <3>7, <3>8 DEF Next
  <2>3. pc = "idle" /\ u \in Names(users_) /\ ~Locked(users_[Find(u)])
        BY <2>2 DEF AuthenticateRight
  <2>4. Find(u) \in DOMAIN users_ /\ users_[Find(u)].name = u
        BY <1>1, <2>3, FindFinds DEF IInv
  <2>5. users_[Find(u)].until \in Nat /\ now \in Nat /\ streak[u] \in Nat /\ lastFailure[u] \in Nat
        BY <1>1, <2>4, FieldTypes DEF IInv, TypeOK
  <2>6. users_[Find(u)].until <= now
        BY <2>3, <2>5 DEF Locked
  <2>7. ASSUME streak[u] >= Threshold
        PROVE  now >= lastFailure[u] + LockSeconds
    <3>1. streak[u] > 0
          BY <2>5, <2>7, Bounds
    <3>2. PICK k \in DOMAIN users_ :
            /\ users_[k].name = u
            /\ users_[k].until >= lastFailure[u] + LockSeconds
          BY <1>1, <2>3, <2>7, <3>1 DEF IInv, CountInv, Counted
    <3>3. k = Find(u)
          BY <1>1, <2>4, <3>2 DEF IInv, UniqueNames, Unique
    <3> QED BY <2>5, <2>6, <3>2, <3>3, Bounds
  <2> QED BY <2>5, <2>7, Bounds
<1>2. IInv /\ [Next]_vars =>
        \A u \in Users :
          (call.op = "none" /\ call'.op = "authenticate" /\ call'.name = u /\ call'.status = "SUCCESS")
            => streak[u] < Threshold \/ now >= lastFailure[u] + LockSeconds
      BY <1>1
<1> QED BY <1>2, AccountInvariant, PTL DEF Spec, LockoutHolds

(* Who was told to be registered is in users.db, unless one of the mishaps *)
(* happened that save and load pass over.                                  *)
THEOREM EnrolledAlwaysSurvive == Spec => []EnrolledSurvive
<1>1. ASSUME IInv PROVE EnrolledSurvive
  <2> SUFFICES ASSUME ~Lossy, NEW u \in enrolled
               PROVE  db # Absent /\ u \in Names(db)
      BY DEF EnrolledSurvive, Lossy
  <2>1. u \in Names(OnDisk)
        BY <1>1 DEF IInv, EnrolledInv
  <2> QED BY <2>1 DEF OnDisk, Names
<1> QED BY <1>1, AccountInvariant, PTL

-----------------------------------------------------------------------------
(* The window. *)

SessionNext ==
  \/ HandleLogin \/ HandleEnrollment \/ Cancel \/ Answered \/ LockStation
  \/ Restarting \/ Saving \/ Library

(* All that the window does to the accounts, any program may do.           *)
LEMMA WindowIsAProgram == [SessionNext]_allVars => [Next]_vars
BY DEF SessionNext, HandleLogin, HandleEnrollment, Cancel, Answered, LockStation, Restarting,
       Saving, Library, Next, allVars

(* The session and the account behind it. *)
SessionInv ==
  session # Absent => /\ caller = "window" /\ pc # "down"
                      /\ session \in Names(users_)
                      /\ Quiet => session \in Names(OnDisk)

(* A save without mishaps leaves no account behind.                        *)
LEMMA SavingKeepsSession ==
  ASSUME IInv, SessionInv, Saving
  PROVE  SessionInv'
<1> SUFFICES ASSUME session' # Absent
             PROVE  /\ caller' = "window" /\ pc' # "down"
                    /\ session' \in Names(users_')
                    /\ Quiet' => session' \in Names(OnDisk')
    BY DEF SessionInv
<1>1. session' = session /\ caller' = "window" /\ caller' = caller
      BY DEF Saving, sessionVars
<1>2. /\ session \in Names(users_) /\ pc # "down" /\ (Quiet => session \in Names(OnDisk))
      BY <1>1 DEF SessionInv
<1>3. users_' = users_ /\ pc' # "down"
      BY <1>2 DEF Saving, OpenTmp, OpenFails, WriteTmp, WriteShort, RenameTmp, RenameFails, CopyTmp,
                  Tick, memory
<1>4. CASE OpenTmp \/ OpenFails \/ WriteTmp \/ WriteShort \/ Tick
  <2>1. db' = db
        BY <1>4 DEF OpenTmp, OpenFails, WriteTmp, WriteShort, Tick, disk
  <2>2. Quiet' => Quiet
        BY <1>4, MishapHappens DEF IInv, OpenTmp, OpenFails, WriteTmp, WriteShort, Tick, Mishaps,
           Quiet, Happened
  <2> QED BY <1>1, <1>2, <1>3, <2>1, <2>2 DEF OnDisk
<1>5. CASE RenameTmp
  <2>1. Quiet' => db' = users_ /\ tmp # Absent
        BY <1>5 DEF IInv, SaveInv, RenameTmp, Quiet, Lossy, Happened, Mishaps
  <2> QED BY <1>1, <1>2, <1>3, <1>5, <2>1 DEF OnDisk, IInv, SaveInv, RenameTmp
<1>6. CASE RenameFails
  <2>1. ~Quiet'
        BY <1>6, MishapHappens DEF IInv, RenameFails, Mishaps
  <2> QED BY <1>1, <1>2, <1>3, <2>1
<1>7. CASE CopyTmp
  <2>1. ~Quiet'
        BY <1>7 DEF IInv, SaveInv, CopyTmp, Quiet, Lossy, Happened, Mishaps
  <2> QED BY <1>1, <1>2, <1>3, <2>1
<1> QED BY <1>4, <1>5, <1>6, <1>7 DEF Saving

(* A session begins with the name of the call that is answered.            *)
LEMMA AnsweredKeepsSession ==
  ASSUME IInv, SessionInv, Answered
  PROVE  SessionInv'
<1> SUFFICES ASSUME session' # Absent
             PROVE  /\ caller' = "window" /\ pc' # "down"
                    /\ session' \in Names(users_')
                    /\ Quiet' => session' \in Names(OnDisk')
    BY DEF SessionInv
<1>1. /\ pc = "return" /\ pc' = "idle" /\ UNCHANGED <<users_, db, mishaps, caller>>
      /\ caller = "window"
      /\ session' = IF call.status = "SUCCESS" THEN call.name ELSE session
      BY DEF Answered, Return, disk
<1>2. Quiet' = Quiet /\ OnDisk' = OnDisk
      BY <1>1 DEF Quiet, Happened, OnDisk
<1>3. CASE call.status = "SUCCESS"
  <2>1. call.name \in Names(users_)
        BY <1>1 DEF IInv, CallInv, SaveSteps
  <2>2. Quiet => db = users_
        BY <1>1 DEF IInv, SaveInv, Quiet, Lossy, Mishaps
  <2>3. users_ # Absent
        BY BoundAssumption DEF IInv, TypeOK, Records
  <2> QED BY <1>1, <1>2, <1>3, <2>1, <2>2, <2>3 DEF OnDisk
<1>4. CASE call.status # "SUCCESS"
      BY <1>1, <1>2, <1>4 DEF SessionInv
<1> QED BY <1>3, <1>4

LEMMA SessionKeeps ==
  ASSUME IInv, SessionInv, [SessionNext]_allVars
  PROVE  SessionInv'
<1>1. CASE HandleLogin \/ HandleEnrollment
      BY <1>1 DEF HandleLogin, HandleEnrollment, LoginShown, sessionVars, SessionInv
<1>2. CASE Cancel
      BY <1>2 DEF Cancel, LoginShown, SessionInv
<1>3. CASE LockStation
      BY <1>3 DEF LockStation, SessionInv
<1>4. CASE Restarting
      BY <1>4 DEF Restarting, Start, StartUnread, SessionInv
<1>5. CASE Library
      BY <1>5 DEF Library, sessionVars, SessionInv
<1>6. CASE UNCHANGED allVars
      BY <1>6 DEF allVars, vars, memory, disk, sessionVars, SessionInv, Quiet, Happened, OnDisk
<1> QED BY <1>1, <1>2, <1>3, <1>4, <1>5, <1>6, SavingKeepsSession, AnsweredKeepsSession
    DEF SessionNext

(* The window is one of the programs that UserAuthDB is about: the login,  *)
(* the form for a new account and the session use it as its specification  *)
(* allows, and every property of Spec is one of SessionSpec.               *)
THEOREM SessionImplementsSpec == SessionSpec => Spec
<1>1. SessionInit => Init
      BY DEF SessionInit
<1> QED BY <1>1, WindowIsAProgram, PTL DEF SessionSpec, SessionNext, Spec

(* Whoever works at the window has an account that a restart would find,   *)
(* unless a file operation failed.                                         *)
THEOREM SessionAlwaysBacked == SessionSpec => []SessionBacked
<1>1. SessionInit => SessionInv
      BY DEF SessionInit, SessionInv
<1>2. IInv /\ SessionInv /\ [SessionNext]_allVars => SessionInv'
      BY SessionKeeps
<1>3. SessionInv => SessionBacked
      BY DEF SessionInv, SessionBacked, Quiet, OnDisk, Names
<1>4. SessionSpec => SessionInit /\ [][SessionNext]_allVars
      BY DEF SessionSpec, SessionNext
<1> QED BY <1>1, <1>2, <1>3, <1>4, SessionImplementsSpec, AccountInvariant, PTL
=============================================================================
