-------------------------- MODULE SystemProtection --------------------------
(***************************************************************************)
(* Which targets are refused because the running system needs them:        *)
(* isMainSystemDrive, with the walk of resolveBlockDeviceSlaves over the   *)
(* block devices, isRootOrSystemPath and SystemProtectionGuard, as the     *)
(* Linux build has them.                                                   *)
(*                                                                         *)
(* A path or a name is a sequence of pieces, "/" one of them, cut where    *)
(* the code cuts or compares: /dev/sda2 is <<"/", "dev", "/", "sd", "a",   *)
(* "2">>. Paths are normal already ("." and ".." are gone).                *)
(***************************************************************************)
EXTENDS Integers, Sequences, SequencesExt, FiniteSets

CONSTANTS
  Worlds,      \* the machines looked at, see MCSystemProtection
  AskedPaths,  \* the paths asked about
  Pieces,      \* what paths and names are made of
  Fold         \* pieces in letters of either case, to the small ones

(* The lines of /proc/mounts are a list; devices are made of devices; a       *)
(* partition lies in the directory of its disk, and is named after it.        *)
ASSUME WorldsAssumption ==
  \A w \in Worlds :
    /\ w.mounts \in Seq({w.mounts[i] : i \in DOMAIN w.mounts})
    /\ \A d \in DOMAIN w.slaves : w.slaves[d] \subseteq DOMAIN w.slaves
    /\ \A p \in DOMAIN w.disk :
         /\ w.disk[p] \in w.above[p] \cap DOMAIN w.slaves
         /\ w.disk[p] \notin {<<"block">>, p}
         /\ IsPrefix(<<"/", "dev", "/">> \o w.disk[p], <<"/", "dev", "/">> \o p)

(* Paths are normal already: no two "/" follow each other.                    *)
ASSUME PathsAssumption ==
  \A path \in AskedPaths :
    path \in Seq(Pieces) /\ \A i \in 2..Len(path) : path[i - 1] = "/" => path[i] # "/"

VARIABLES
  world,          \* the machine
  target,         \* the path asked about
  real,           \* what it leads to, its canonical path
  lines,          \* the lines of /proc/mounts not read yet
  foundRootMount, \* a line was that of a mount of the system
  todo,           \* names of the walk still to be visited
  visited,        \* names visited in this walk
  out,            \* rootProtectedDisks
  answer          \* what the three functions say

protectionVars == <<world, target, real, lines, foundRootMount, todo, visited, out, answer>>

NoAnswer == [given |-> FALSE]
Answer(drive, platform, guard) ==
  [given |-> TRUE, drive |-> drive, platform |-> platform, guard |-> guard]

Root == <<"/">>
Dev == <<"/", "dev", "/">>
Within(path, dir) == path = dir \/ IsPrefix(dir \o Root, path)
Drop(path, n) == SubSeq(path, n + 1, Len(path))
FileName(path) == Drop(path, SelectLastInSeq(path, LAMBDA piece : piece = "/"))

(* The path from the working directory on, and with the symbolic link in it   *)
(* followed; a machine has no link that leads to another.                    *)
Full(path) == IF path # <<>> /\ path[1] = "/" THEN path ELSE world.cwd \o Root \o path

Followed(path) ==
  LET ahead == {l \in DOMAIN world.links : Within(path, l)}
  IN IF ahead = {} THEN path
     ELSE LET l == CHOOSE k \in ahead : TRUE IN world.links[l] \o Drop(path, Len(l))

Exists(path) == \E e \in world.exists : Followed(Full(path)) = e

(* Mutant: a path is made absolute, and no link in it followed.             *)
CanonicalAbsolute(path) == Full(path)

Canonical(path) == IF Exists(path) THEN Followed(Full(path)) ELSE Full(path)

-----------------------------------------------------------------------------
(* The walk.                                                               *)

ProtectionInit ==
  /\ world \in Worlds
  /\ target \in AskedPaths
  /\ real = Canonical(target)
  /\ lines = world.mounts
  /\ foundRootMount = FALSE /\ todo = {} /\ visited = {} /\ out = {}
  /\ answer = NoAnswer

SystemMounts == {"/", "/boot", "/boot/efi", "/etc", "/usr"}

(* A name without the directory of the device file.                         *)
Strip(path) ==
  IF ~IsPrefix(Dev, path) THEN path
  ELSE IF IsPrefix(Dev \o <<"mapper", "/">>, path) THEN Drop(path, 5) ELSE Drop(path, 3)

Both(name) == {name, Dev \o name}

(* Mutant: the device of every mount is taken for one of the system.        *)
ReadAnyMount ==
  /\ ~answer.given /\ world.readable
  /\ todo = {} /\ lines # <<>>
  /\ lines' = Tail(lines)
  /\ foundRootMount' = TRUE
  /\ out' = out \cup {Head(lines).dev}
  /\ todo' = {Strip(Head(lines).dev)} /\ visited' = {}
  /\ UNCHANGED <<world, target, real, answer>>

ReadMount ==
  /\ ~answer.given /\ world.readable
  /\ todo = {} /\ lines # <<>>
  /\ lines' = Tail(lines)
  /\ IF Head(lines).at \in SystemMounts
       THEN LET dev == Head(lines).dev
            IN /\ foundRootMount' = TRUE
               /\ out' = out \cup {dev, FileName(dev)}
               /\ todo' = {Strip(dev)}
               /\ visited' = {}
       ELSE UNCHANGED <<foundRootMount, out, todo, visited>>
  /\ UNCHANGED <<world, target, real, answer>>

(* The disk a partition belongs to, guessed from its name.                  *)
Guess(name) ==
  LET p == SelectLastInSeq(name, LAMBDA piece : piece = "p")
      digit == SelectInSeq(name, LAMBDA piece : piece \in {"1", "2", "3", "4"})
  IN CASE name[1] \in {"nvme", "mmcblk"} /\ p > 1 -> {SubSeq(name, 1, p - 1)}
       [] name[1] \in {"sd", "vd", "hd", "xvd"} /\ digit > 1 -> {SubSeq(name, 1, digit - 1)}
       [] OTHER -> {}

(* What a device file that is a link leads to.                              *)
LinkedTo(name) ==
  IF Dev \o name \in DOMAIN world.links
  THEN {FileName(world.links[Dev \o name])} \ {name} ELSE {}

(* Mutant: the first slave stands for all of them.                          *)
BeneathFirst(name) ==
  IF name \notin world.sys THEN Guess(name)
  ELSE {d \in world.slaves[name] : d = CHOOSE x \in world.slaves[name] : TRUE}
       \cup (world.above[name] \ {<<"block">>, name})

(* The devices it is made of, and the directory it lies in, in sysfs.        *)
Beneath(name) ==
  IF name \notin world.sys THEN Guess(name)
  ELSE world.slaves[name] \cup (world.above[name] \ {<<"block">>, name})
       \cup (IF name \in DOMAIN world.disk THEN Guess(name) ELSE {})

Reached(name) == LinkedTo(name) \cup Beneath(name)

(* One call of resolveBlockDeviceSlaves; the calls it makes wait in todo.    *)
Visit(name) ==
  /\ ~answer.given
  /\ name \in todo
  /\ visited' = visited \cup {name}
  /\ out' = out \cup UNION {Both(n) : n \in {name} \cup Reached(name)}
  /\ todo' = (todo \cup Reached(name)) \ (visited \cup {name})
  /\ UNCHANGED <<world, target, real, lines, foundRootMount, answer>>

-----------------------------------------------------------------------------
(* The verdicts.                                                           *)

(* Asked about the target, or about what it leads to.                        *)
IsMainSystemDrive(path) ==
  \/ path = <<>> \/ ~world.readable \/ ~foundRootMount
  \/ {path, FileName(path), FileName(IF path[1] = "/" THEN real ELSE path)} \cap out # {}
  \/ \E base \in out : IsPrefix(base, path) \/ IsPrefix(Dev \o base, path)

LinuxProtected ==
  {"root", "bin", "boot", "etc", "lib", "lib32", "lib64", "libx32", "proc", "run", "sbin",
   "sys", "usr", "var"}

DevTrees == {"pts", "shm", "mqueue", "hugepages"}

IsRootOrSystemPath ==
  \/ IsMainSystemDrive(target) \/ IsMainSystemDrive(real)
  \/ real \in {Root, <<"/", "dev">>}
  \/ \E d \in LinuxProtected : Within(real, <<"/", d>>)
  \/ \E d \in DevTrees : IsPrefix(Dev \o <<d>>, real)

(* Windows paths stay as they are; whatever the case of the letters.         *)
OnDrive(path) == path # <<>> /\ path[1] = "C:"

Normal(path) == [i \in DOMAIN path |-> IF path[i] \in DOMAIN Fold THEN Fold[path[i]] ELSE path[i]]

SystemPrefixes ==
  {"windows", "program files", "program files (x86)", "programdata",
   "system volume information", "$recycle.bin", "recovery", "boot", "bin", "sbin", "etc",
   "lib", "lib64", "proc", "sys", "dev", "root", "run", "usr", "var"}

ProhibitedFiles ==
  {"pagefile.sys", "hiberfil.sys", "swapfile.sys", "bootmgr", "bootnxt", "ntldr",
   "ntdetect.com", "vmlinuz", "initrd.img"}

(* Of the names here those that begin like the folder of settings.          *)
AppData == {"appdata", "appdata-old"}

ProfileRoots(onDrive) ==
  IF onDrive THEN {<<"/", "users">>} \cup {<<"/", "users", "/", u>> : u \in {"default", "public", "all users"}}
  ELSE {<<"/", "home">>, <<"/", "root">>}

IsProtected ==
  LET norm == Normal(IF OnDrive(target) THEN target ELSE real)
      sub == IF OnDrive(norm) THEN Tail(norm) ELSE norm
  IN \/ target = <<>>
     \/ IsMainSystemDrive(target) \/ IsRootOrSystemPath
     \/ norm \in {Root, <<"C:">>, <<"C:", "/">>}
     \/ \E d \in SystemPrefixes : Within(sub, <<"/", d>>)
     \/ \E f \in ProhibitedFiles : FileName(norm) = <<f>>
     \/ \E i \in 2..Len(norm) : norm[i - 1] = "/" /\ norm[i] \in AppData
     \/ sub \in ProfileRoots(OnDrive(norm))
     \/ norm = Normal(world.exe)

Decide ==
  /\ ~answer.given
  /\ ~world.readable \/ (todo = {} /\ lines = <<>>)
  /\ answer' = Answer(IsMainSystemDrive(target), IsRootOrSystemPath, IsProtected)
  /\ UNCHANGED <<world, target, real, lines, foundRootMount, todo, visited, out>>

ProtectionNext == ReadMount \/ (\E name \in todo : Visit(name)) \/ Decide

ProtectionSpec == ProtectionInit /\ [][ProtectionNext]_protectionVars
-----------------------------------------------------------------------------
(* What is so, whatever the code makes of it: the devices the machine has,   *)
(* what each is made of or a part of, and which of them carry the system.    *)
Devices == DOMAIN world.slaves
MadeOf(d) == world.slaves[d] \cup (IF d \in DOMAIN world.disk THEN {world.disk[d]} ELSE {})

SystemLines == {i \in DOMAIN world.mounts : world.mounts[i].at \in SystemMounts}
SystemSources == {world.mounts[i].dev : i \in SystemLines}

Mounted == {d \in Devices : \E m \in SystemSources : Canonical(m) = Dev \o d}

SystemDevices ==
  LET mounted == Mounted
      whole == {S \in SUBSET Devices : mounted \subseteq S /\ \A d \in S : MadeOf(d) \subseteq S}
  IN {d \in Devices : \A S \in whole : d \in S}

(* sysfs shows all devices, and each source of a system mount is named as    *)
(* the kernel names it, or by a link that keeps its name without /dev/.      *)
Legible ==
  /\ world.sys = Devices
  /\ \A m \in SystemSources, d \in Devices :
       Canonical(m) = Dev \o d => d \in {Strip(m)} \cup LinkedTo(Strip(m))

(* No device that carries the system, however many layers below the mounted   *)
(* one, and no partition of such a device, gets past isRootOrSystemPath, by    *)
(* whatever name it is asked about.                                         *)
SystemDiskRefused ==
  answer.given /\ Legible =>
    \A d \in SystemDevices, t \in Devices :
      /\ t = d \/ (t \in DOMAIN world.disk /\ world.disk[t] = d)
      /\ real = Dev \o t
      => answer.platform

ASSUME PiecesAssumption == {"/", "dev"} \cup LinuxProtected \cup DevTrees \subseteq Pieces

(* How the kernel and udev name things.  A device has a name of its own, of   *)
(* which its disk, if any, is guessed right; its device file is no link, and   *)
(* in no directory that is one; the directory it lies in is that of its disk,  *)
(* or is called like no device.  A source of a system mount that is called     *)
(* like a device is that device; a link in its place leads to one.            *)
ASSUME NamesAssumption ==
  \A w \in Worlds :
    LET devices == DOMAIN w.slaves
    IN /\ w.sys \subseteq devices
       /\ \A d \in devices :
            /\ d \in Seq(Pieces) /\ d # <<>> /\ d[1] \notin DevTrees
            /\ \A i \in DOMAIN d : d[i] # "/"
            /\ Guess(d) \subseteq {w.disk[p] : p \in {d} \cap DOMAIN w.disk}
            /\ \A l \in DOMAIN w.links : ~Within(Dev \o d, l)
            /\ \A a \in w.above[d] \ {<<"block">>, d} :
                 \/ a \in devices /\ d \in DOMAIN w.disk /\ a = w.disk[d]
                 \/ /\ a \in Seq(Pieces) \ devices /\ Guess(a) = {}
                    /\ Dev \o a \notin DOMAIN w.links
       /\ \A i \in DOMAIN w.mounts :
            w.mounts[i].at \in SystemMounts =>
              LET m == w.mounts[i].dev
                  n == Strip(m)
              IN /\ m \in Seq(Pieces)
                 /\ n \in devices => m = Dev \o n
                 /\ n \notin devices => Guess(n) = {}
                 /\ Dev \o n \in DOMAIN w.links =>
                      /\ m = Dev \o n /\ \A l \in DOMAIN w.links : Within(m, l) => l = m
                      /\ w.links[m] \in w.exists \cap {Dev \o d : d \in devices}

(* The names that are refused though they are those of no such device: the    *)
(* directories above them in sysfs, and what a source of a mount is called.   *)
SystemNames ==
  SystemDevices \cup (UNION {world.above[d] \ {<<"block">>} : d \in SystemDevices})
    \cup (UNION {{m, Strip(m), FileName(m)} : m \in SystemSources})

(* A path that goes on from such a name, or from the device file that has it.  *)
Spells(path) ==
  \E name \in SystemNames :
    FileName(path) = name \/ IsPrefix(name, path) \/ IsPrefix(Dev \o name, path)

(* A device that carries nothing of the system can be wiped, so that the walk  *)
(* must not take in more than it has to; save for one asked about by a path,   *)
(* or lying at one, that goes on from the name of one that does, as that of    *)
(* sdaa from that of sda.                                                   *)
OthersAllowed ==
  answer.given /\ world.readable /\ SystemSources # {} =>
    \A t \in Devices :
      real = Dev \o t /\ target # <<>> /\ ~Spells(target) /\ ~Spells(real) => ~answer.platform

(* What exists inside a directory of the system is refused, through whatever   *)
(* link and from whatever working directory it is named.                     *)
SystemPathsRefused ==
  answer.given /\ Exists(target) =>
    \A d \in LinuxProtected :
      Within(Followed(Full(target)), <<"/", d>>) => answer.platform /\ answer.guard
=============================================================================
