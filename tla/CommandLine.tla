----------------------------- MODULE CommandLine -----------------------------
(***************************************************************************)
(* The program forensivault_cli: its terminal, where a user answers        *)
(* prompts line by line until the input ends, and its one-shot commands.    *)
(* Erasing is the API's answer, success or not; the sanitization of an     *)
(* image runs step by step as ImageSanitizer says.                          *)
(*                                                                         *)
(* What only reads (carving, recovery, inspection, detection, benchmark)    *)
(* is the dialog around it.                                                 *)
(***************************************************************************)
EXTENDS ImageSanitizer, FiniteSets, FiniteSetsExt

CONSTANTS
  Folder, Image, System, Device, Missing,   \* what a path may lead to
  Entries,       \* the files in Folder, in the order of their names
  Newcomer,      \* a file that another program may put there
  Selections,    \* lines typed at the selection prompt
  MaxJobs        \* bound on the jobs chosen in the menu

(* What a line typed there is taken for; "?" stands for all that is refused. *)
Words == {"", "0", "all", "list", "q", "?"}

ASSUME CommandLineAssumption ==
  /\ Entries \in Seq(Range(Entries)) /\ Newcomer \notin Range(Entries)
  /\ IsInjective(<<Folder, Image, System, Device, Missing, Newcomer>>)
  /\ Range(Entries) \cap {Folder, Image, System, Device, Missing} = {}
  /\ Selections \subseteq [word : Words, ranges : Seq(Nat \X Nat)]
  /\ MaxJobs \in Nat

VARIABLES
  present,    \* the files and folders that exist
  at,         \* the prompt the program waits at, or what it is doing
  job,        \* the work chosen in the menu or on the command line
  ended,      \* the input has ended
  code,       \* the exit code of a command
  jobs,       \* jobs chosen in the menu
  destroyed   \* history: what this job has destroyed

dialogVars == <<present, at, job, ended, code, jobs, destroyed>>
vars == <<imageVars, dialogVars>>

Paths == {Folder, Image, System, Device, Missing} \cup Range(Entries)

NoLine == [word |-> "none", ranges |-> <<>>]

NoJob == [option |-> "none", target |-> Missing, listing |-> <<>>, line |-> NoLine,
          targets |-> <<>>, next |-> 1, strategy |-> "clear",
          answer |-> "", beside |-> Missing, ok |-> TRUE, unseen |-> {}]

Reading == {"scan-image", "inspect-drive", "carve", "fs-recover", "reconstruct",
            "erase-preview", "detect-drives", "benchmark-hash", "help"}
Exporting == {"audit-export", "report-pdf"}
Commands == {"erase", "sanitize", "unknown"} \cup Reading \cup Exporting

(* The program is started without arguments, or with --option n, or with a  *)
(* command.                                                                *)
Init ==
  /\ ImageInit
  /\ present = {Folder, Image, System, Device} \cup Range(Entries)
  /\ at \in {"menu", "option", "command"}
  /\ job = NoJob /\ ended = FALSE /\ code = 0 /\ jobs = 0 /\ destroyed = {}

Protected(path) == path = System

PhysicalDevice(path) == path = Device

Go(where) == at' = where /\ UNCHANGED <<imageVars, present, job, ended, code, jobs, destroyed>>

EndInput ==
  /\ ~ended /\ ended' = TRUE
  /\ UNCHANGED <<imageVars, present, at, job, code, jobs, destroyed>>

(* Mutant: the end of the input is taken for an empty line.                 *)
ReadLineEmptyAtEnd(lines) == IF ended THEN {""} ELSE lines

(* Once the input has ended every prompt is answered "exit".                *)
ReadLine(lines) == IF ended THEN {"exit"} ELSE lines

(* A path picked in fzf, or typed; none when the user gives up.             *)
SelectPath == IF ended THEN {Missing} ELSE Paths \cup {""}

-----------------------------------------------------------------------------
Menu ==
  /\ at = "menu"
  /\ \E choice \in ReadLine({"erase", "sanitize", "carve", "recover", "inspect",
                             "detect", "benchmark", "e", "exit", "?"}) :
       CASE choice = "exit" -> Go("off")
         [] choice \in {"detect", "benchmark", "e", "?"} -> Go("pause")
         [] OTHER -> /\ jobs < MaxJobs /\ jobs' = jobs + 1
                     /\ at' = "path"
                     /\ job' = [NoJob EXCEPT !.option = choice]
                     /\ UNCHANGED <<imageVars, present, ended, code, destroyed>>

(* --option goes to the work itself, and to the same pause.                 *)
Resume ==
  /\ at = "option"
  /\ \E choice \in {"erase", "sanitize", "carve", "recover", "inspect", "none"} :
       /\ at' = IF choice = "none" THEN "pause" ELSE "path"
       /\ job' = [NoJob EXCEPT !.option = choice]
  /\ UNCHANGED <<imageVars, present, ended, code, jobs, destroyed>>

(* The pause after a job: only "exit" ends the program, the end of the      *)
(* input with it.                                                          *)
Pause ==
  /\ at = "pause"
  /\ \E line \in ReadLine({"", "exit"}) :
       /\ at' = IF line = "exit" THEN "off" ELSE "menu"
       /\ job' = NoJob /\ destroyed' = {} /\ run' = Idle
  /\ UNCHANGED <<cells, named, meddling, present, ended, code, jobs>>

Choose(where, target) ==
  /\ at' = where /\ job' = [job EXCEPT !.target = target, !.targets = <<target>>]
  /\ UNCHANGED <<imageVars, present, ended, code, jobs, destroyed>>

(* Whether the path goes further, by the kind of job.                       *)
Allowed(option, path) ==
  /\ path \in present
  /\ option \in {"erase", "sanitize"} => ~Protected(path)
  /\ option = "sanitize" => ~PhysicalDevice(path)
  /\ option # "inspect"

AskPath ==
  /\ at = "path"
  /\ \E path \in SelectPath :
       /\ job.option = "sanitize" => path \notin Range(Entries)
       /\ IF ~Allowed(job.option, path) THEN Go("pause")
          ELSE Choose(CASE job.option = "erase" -> "proceed"
                        [] job.option = "sanitize" -> "standard"
                        [] OTHER -> "output", path)

(* Carving, or recovery that may offer carving instead.                     *)
AskOutput ==
  /\ at = "output"
  /\ IF job.option = "carve" THEN Go("pause")
     ELSE \/ Go("pause")
          \/ \E line \in ReadLine({"y", "n"}) :
               /\ at' = IF line = "y" THEN "path" ELSE "pause"
               /\ job' = [job EXCEPT !.option = "carve"]
               /\ UNCHANGED <<imageVars, present, ended, code, jobs, destroyed>>

(* What stands in a list at some places, in the order of the list.          *)
InOrder(places) ==
  CHOOSE order \in [1..Cardinality(places) -> places] :
    \A i, j \in DOMAIN order : i < j => order[i] < order[j]

Picked(list, places) == [i \in 1..Cardinality(places) |-> list[InOrder(places)[i]]]

(* The entries that are in the folder now.                                  *)
Listing ==
  LET names == Append(Entries, Newcomer)
  IN  Picked(names, {i \in DOMAIN names : names[i] \in present})

(* Without elevation the user is asked first; a folder is then listed.      *)
Proceed ==
  /\ at = "proceed"
  /\ \/ \E line \in ReadLine({"y", "n"}) : line # "y" /\ Go("pause")
     \/ /\ job.target = Folder
        /\ at' = "selection"
        /\ job' = [job EXCEPT !.listing = Listing]
        /\ UNCHANGED <<imageVars, present, ended, code, jobs, destroyed>>
     \/ job.target # Folder /\ Go("standard")

Span(r) == r[1]..r[2] \cup r[2]..r[1]

Asked(line) == UNION {Span(line.ranges[i]) : i \in DOMAIN line.ranges}

(* The numbers a line asks for, none if it is refused.                      *)
ParseItemSelection(line, max) ==
  CASE line.word \in {"", "0"} -> {0}
    [] line.word = "all" -> IF max = 0 THEN {0} ELSE 1..max
    [] line.word = "list" -> CASE Asked(line) = {} -> {0}
                               [] Asked(line) # {} /\ Asked(line) \subseteq 0..max -> Asked(line)
                               [] OTHER -> {}
    [] OTHER -> {}

Targets(numbers, target, listing) ==
  IF numbers \subseteq {0} THEN <<target>> ELSE Picked(listing, numbers \ {0})

(* A line that is refused is asked for again: at the end of the input that  *)
(* is "exit", for ever.                                                    *)
AskSelection ==
  /\ at = "selection"
  /\ \E line \in IF ended THEN {[word |-> "exit", ranges |-> <<>>]} ELSE Selections :
       LET numbers == ParseItemSelection(line, Len(job.listing))
       IN  CASE line.word = "q" -> Go("pause")
             [] line.word # "q" /\ numbers = {} -> UNCHANGED vars
             [] OTHER -> /\ at' = "standard"
                         /\ job' = [job EXCEPT !.line = line,
                                      !.targets = Targets(numbers, job.target, job.listing)]
                         /\ UNCHANGED <<imageVars, present, ended, code, jobs, destroyed>>

AskStandard ==
  /\ at = "standard"
  /\ \E line \in ReadLine(Strategies \cup {"q", "?"}) :
       CASE line = "q" -> Go("pause")
         [] line \in {"?", "exit"} -> UNCHANGED vars
         [] OTHER -> /\ at' = "confirm" /\ job' = [job EXCEPT !.strategy = line]
                     /\ UNCHANGED <<imageVars, present, ended, code, jobs, destroyed>>

AskConfirmation ==
  /\ at = "confirm"
  /\ \E line \in ReadLine({"DESTROY", "destroy"}) :
       IF line # "DESTROY" THEN Go("pause")
       ELSE /\ at' = IF job.option = "sanitize" THEN "sanitize" ELSE "erase"
            /\ job' = [job EXCEPT !.answer = line, !.beside = job.target]
            /\ UNCHANGED <<imageVars, present, ended, code, jobs, destroyed>>

-----------------------------------------------------------------------------
(* The exit code of a command that only reads: 1 without its argument, and   *)
(* of a few when they cannot open it; the others report that and end with 0. *)
ReadingCodes(cmd, path) ==
  (IF cmd \in {"detect-drives", "benchmark-hash", "help"} THEN {} ELSE {1})
    \cup (IF cmd \in {"carve", "fs-recover", "reconstruct"} THEN {0 : p \in present \cap {path}} ELSE {0})

(* The log of the new process, which is empty, or a report is written.      *)
ExportingCodes == {0, 1}

Exit(codes) ==
  /\ at' = "off" /\ code' \in codes
  /\ UNCHANGED <<imageVars, present, job, ended, jobs, destroyed>>

(* --erase and --sanitize-drive need --confirm, and have no other prompt.   *)
Destroy(cmd, path, s) ==
  /\ cmd = "sanitize" => path \notin Range(Entries)
  /\ at' = cmd
  /\ job' = [NoJob EXCEPT !.option = cmd, !.target = path, !.targets = <<path>>,
                          !.strategy = s, !.answer = "--confirm", !.beside = path]
  /\ UNCHANGED <<imageVars, present, ended, code, jobs, destroyed>>

Command ==
  /\ at = "command"
  /\ \E cmd \in Commands, path \in Paths :
       \/ cmd \in Reading /\ Exit(ReadingCodes(cmd, path))
       \/ cmd \in Exporting /\ Exit(ExportingCodes)
       \/ cmd = "unknown" /\ Exit({1})
       \/ cmd \in {"erase", "sanitize"} /\ Exit({1})
       \/ cmd \in {"erase", "sanitize"} /\ \E s \in Strategies : Destroy(cmd, path, s)

OneShot == job.answer = "--confirm"

Finish(ok) ==
  /\ at' = IF OneShot THEN "off" ELSE "pause"
  /\ code' = IF OneShot /\ ~ok THEN 1 ELSE 0
  /\ UNCHANGED <<ended, jobs>>

(* FileEraserAPI refuses a protected path; a folder goes with all that is   *)
(* in it, or some of it goes.  A file may be gone and the erasure called a  *)
(* failure, as when it kept another name or its name was taken again.  A    *)
(* look at the folder that fails is taken for its absence: a success then   *)
(* with the folder unseen, and what was put into it meanwhile.              *)
Erased(path) ==
  LET inside == present \cap (Range(Entries) \cup {Newcomer})
      Outcome(ok, gone, lost) == [ok |-> ok, gone |-> gone, unseen |-> lost]
  IN  IF Protected(path) \/ path \notin present THEN {Outcome(FALSE, {}, {})}
      ELSE IF path # Folder THEN {Outcome(TRUE, {path}, {}), Outcome(FALSE, {path}, {}), Outcome(FALSE, {}, {})}
      ELSE {Outcome(TRUE, {path} \cup inside, {})}
             \cup {Outcome(FALSE, gone, {}) : gone \in SUBSET inside}
             \cup {Outcome(TRUE, gone, {path}) : gone \in SUBSET inside}

AllSucceeded(before, ok) == before /\ ok

EraseNext ==
  /\ at = "erase"
  /\ \E answer \in Erased(job.targets[job.next]) :
       LET ok == AllSucceeded(job.ok, answer.ok)
       IN  /\ present' = present \ answer.gone
           /\ destroyed' = destroyed \cup answer.gone
           /\ job' = [job EXCEPT !.next = @ + 1, !.ok = ok, !.unseen = @ \cup answer.unseen]
           /\ IF job.next = Len(job.targets) THEN Finish(ok) ELSE UNCHANGED <<at, ended, code, jobs>>
  /\ UNCHANGED imageVars

(* DriveSanitizerAPI refuses what is protected or a device before it gives  *)
(* the image to the sanitizer, confirmed.                                   *)
StartSanitizing ==
  /\ at = "sanitize" /\ run.phase = "idle"
  /\ \/ /\ Protected(job.target) \/ PhysicalDevice(job.target)
        /\ Finish(FALSE) /\ job' = [job EXCEPT !.ok = FALSE]
        /\ UNCHANGED imageVars
     \/ /\ ~Protected(job.target) /\ ~PhysicalDevice(job.target)
        /\ Begin(job.strategy, job.target = Image, FALSE)
        /\ UNCHANGED <<at, job, ended, code, jobs>>
  /\ UNCHANGED <<present, destroyed>>

Sanitizing ==
  /\ at = "sanitize" /\ SanitizeStep
  /\ destroyed' = IF cells' # cells THEN destroyed \cup {Image} ELSE destroyed
  /\ UNCHANGED <<present, at, job, ended, code, jobs>>

EndSanitizing ==
  /\ at = "sanitize" /\ run.phase = "done"
  /\ Finish(run.report.verified) /\ job' = [job EXCEPT !.ok = run.report.verified]
  /\ UNCHANGED <<imageVars, present, destroyed>>

(* Another program puts a file into the folder.                             *)
Appear ==
  /\ at \in {"selection", "standard", "confirm", "erase", "window"}
  /\ Folder \in present /\ Newcomer \notin present
  /\ present' = present \cup {Newcomer}
  /\ UNCHANGED <<imageVars, at, job, ended, code, jobs, destroyed>>

Program ==
  \/ Menu \/ Resume \/ Pause
  \/ AskPath \/ AskOutput \/ Proceed \/ AskSelection \/ AskStandard \/ AskConfirmation
  \/ Command \/ EraseNext \/ StartSanitizing \/ Sanitizing \/ EndSanitizing

-----------------------------------------------------------------------------
(* Whether the user asked for the whole folder, and for which entries.      *)
AskedFor == IF job.line.word = "all" THEN DOMAIN job.listing ELSE Asked(job.line)

Whole == job.line.word \in {"none", "", "0"} \/ AskedFor \subseteq {0}

(* Only what the user confirmed is destroyed, by a word given while that    *)
(* very target was shown: of a folder the entries listed under the numbers  *)
(* typed (the terminal prints thirty of them and takes the numbers of the   *)
(* others as well), or ticked in the window, or the folder when no entry    *)
(* was named, however its contents change between the listing and the       *)
(* erasure.                                                               *)
ChosenOnly ==
  destroyed # {} =>
    /\ job.answer \in {"DESTROY", "--confirm"} /\ job.beside = job.target
    /\ \A f \in destroyed :
         IF Whole THEN f = job.target \/ job.target = Folder
         ELSE \E n \in AskedFor : n > 0 /\ f = job.listing[n]

(* A job that is called a success has destroyed all its targets; of an      *)
(* image, every cell it had when the passes began holds the last pass.      *)
(* This is the image that was opened, whatever lies at the name by then.    *)
(* The exception is a folder that could not be looked at when it should be  *)
(* gone: eraseFolder takes the failing look for its absence.               *)
SuccessTrue ==
  at \in {"pause", "off"} /\ job.answer # "" /\ job.ok =>
    IF job.option = "erase" THEN Range(job.targets) \subseteq destroyed \cup job.unseen
    ELSE /\ run.report.record = "SUCCESS"
         /\ run.report.passes = TotalPasses(job.strategy)
         /\ \A i \in 1..run.size :
              cells[run.fd][i] = FillPassBuffer(job.strategy, TotalPasses(job.strategy))

(* When the input ends the terminal finishes what it is doing and exits,    *)
(* unless it asks for entries or for a standard: those two prompts take the *)
(* "exit" that readLine answers then for a mistake.                        *)
EofLeaves == ended ~> at \in {"off", "selection", "standard"}
=============================================================================
