----------------------------- MODULE EraserViews -----------------------------
(***************************************************************************)
(* The two views of the window that destroy, ViewFileEraser and            *)
(* ViewDriveSanitizer, beside the terminal of CommandLine: both programs    *)
(* call the same APIs.  In the window the work runs in the background,      *)
(* while the user goes on editing the path, the boxes and the standard.     *)
(*                                                                         *)
(* A window shows one of the views; the other one is hidden and does        *)
(* nothing.  What the cards of results and previews show is left out.       *)
(***************************************************************************)
EXTENDS CommandLine

CONSTANT MaxEdits   \* bound on what the user does in the window

ASSUME EditsAssumption == MaxEdits \in Nat

VARIABLES
  view,    \* the view: path, listing, boxes, modal dialog
  edits    \* what the user did

allVars == <<vars, view, edits>>

NoWord == [text |-> "", beside |-> Missing]

(* whole is sanitizeEntireDirectory_, which outlives a change of the path.  *)
EmptyView(kind) ==
  [kind |-> kind, path |-> Missing, folder |-> FALSE, listing |-> <<>>, ticked |-> {},
   whole |-> TRUE, protected |-> FALSE, strategy |-> "clear", modal |-> FALSE, word |-> NoWord]

Open == view.kind # "none"

ViewsInit ==
  /\ edits = 0
  /\ \/ Init /\ view = EmptyView("none")
     \/ /\ ImageInit
        /\ present = {Folder, Image, System, Device} \cup Range(Entries)
        /\ at = "window" /\ job = NoJob /\ ended = FALSE
        /\ code = 0 /\ jobs = 0 /\ destroyed = {}
        /\ view \in {EmptyView("erase"), EmptyView("sanitize")}

-----------------------------------------------------------------------------
Edit(v) ==
  /\ edits < MaxEdits /\ edits' = edits + 1
  /\ v # view /\ view' = v
  /\ UNCHANGED vars

Behind == Open /\ ~view.modal

(* The eraser looks at every new path, and lists a folder with all boxes    *)
(* ticked.                                                                 *)
SelectTarget ==
  /\ Behind /\ view.kind = "erase"
  /\ \E path \in Paths :
       LET there == path \in present
           listing == IF there /\ path = Folder THEN Listing ELSE <<>>
       IN  Edit([view EXCEPT !.path = path, !.folder = there /\ path = Folder,
                   !.listing = listing, !.ticked = DOMAIN listing,
                   !.protected = there /\ Protected(path)])

(* The boxes are shown for a folder that has entries.                       *)
InspectDirectory ==
  /\ Behind /\ view.kind = "erase" /\ view.folder /\ view.listing # <<>>
  /\ \/ Edit([view EXCEPT !.whole = ~@])
     \/ ~view.whole /\ \E ticked \in SUBSET DOMAIN view.listing :
          Edit([view EXCEPT !.ticked = ticked])

(* The sanitizer looks at a path picked in a dialog or a list, but not at   *)
(* one typed or handed over by the view of devices.                         *)
SelectDevice ==
  /\ Behind /\ view.kind = "sanitize"
  /\ \E path \in Paths \ Range(Entries), picked \in BOOLEAN :
       Edit([view EXCEPT !.path = path,
               !.protected = IF picked THEN Protected(path) ELSE @])

SelectStandard ==
  /\ Behind /\ view.kind = "sanitize"
  /\ \E s \in Strategies : Edit([view EXCEPT !.strategy = s])

(* Neither view asks while its own task runs.                               *)
CanAct ==
  /\ Behind /\ at \in {"window", "pause"} /\ jobs < MaxJobs /\ ~view.protected
  /\ view.kind = "erase" => view.path \in present

(* Mutant: a word typed for an earlier target stays.                        *)
OpenModalWithWord == CanAct /\ Edit([view EXCEPT !.modal = TRUE])

OpenModal == CanAct /\ Edit([view EXCEPT !.modal = TRUE, !.word = NoWord])

(* In the dialog, which names the target, nothing else can be reached.      *)
TypeWord ==
  /\ Open /\ view.modal
  /\ \E w \in {"DESTROY", "destroy"} : Edit([view EXCEPT !.word = [text |-> w, beside |-> view.path]])

Cancel == Open /\ view.modal /\ Edit([view EXCEPT !.modal = FALSE])

(* The entries ticked, or what the path leads to.                           *)
Ticked ==
  IF view.ticked = {} THEN <<>> ELSE Targets(view.ticked, view.path, view.listing)

EraseTargets == IF view.folder /\ ~view.whole THEN Ticked ELSE <<view.path>>

(* The button is pressed: the background task gets copies of all it needs.  *)
Press(targets, line, strategy) ==
  /\ Open /\ view.modal /\ view.word.text = "DESTROY"
  /\ view' = [view EXCEPT !.modal = FALSE]
  /\ job' = [NoJob EXCEPT !.option = view.kind, !.target = view.path,
               !.listing = view.listing, !.line = line, !.targets = targets,
               !.strategy = strategy, !.answer = view.word.text, !.beside = view.word.beside]
  /\ jobs' = jobs + 1 /\ destroyed' = {} /\ run' = Idle
  /\ UNCHANGED <<cells, named, meddling, present, ended, code, edits>>

(* A task without targets ends at once, with success.                       *)
PressErase ==
  /\ view.kind = "erase"
  /\ Press(EraseTargets,
           IF view.folder /\ ~view.whole
           THEN [word |-> "list", ranges |-> SetToSeq({<<i, i>> : i \in view.ticked})]
           ELSE NoLine,
           "clear")
  /\ at' = IF EraseTargets = <<>> THEN "pause" ELSE "erase"

PressSanitize ==
  /\ view.kind = "sanitize"
  /\ Press(<<view.path>>, NoLine, view.strategy)
  /\ at' = "sanitize"

Work == EraseNext \/ StartSanitizing \/ Sanitizing \/ EndSanitizing

Window ==
  \/ SelectTarget \/ InspectDirectory \/ SelectDevice \/ SelectStandard
  \/ OpenModal \/ TypeWord \/ Cancel \/ PressErase \/ PressSanitize
  \/ Open /\ Work /\ UNCHANGED <<view, edits>>

Terminal == ~Open /\ Program /\ UNCHANGED <<view, edits>>

(* What happens around either program.                                      *)
Around ==
  /\ \/ ~Open /\ EndInput
     \/ Appear
     \/ Meddle /\ UNCHANGED dialogVars
  /\ UNCHANGED <<view, edits>>

Next == Window \/ Terminal \/ Around

(* The terminal goes on as long as it has something to do or lines to read. *)
Spec == ViewsInit /\ [][Next]_allVars /\ WF_allVars(Terminal)
=============================================================================
