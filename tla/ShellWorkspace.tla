--------------------------- MODULE ShellWorkspace ---------------------------
(***************************************************************************)
(* The shell's canvas workspace: ShellState (internal/appstate), the       *)
(* command bus that every button, shortcut and terminal line is dispatched *)
(* through, and the terminal's canvas commands (internal/terminal), on top *)
(* of the canvas catalogue.                                                *)
(*                                                                         *)
(* The same catalogue is written along two routes: by the editor, which    *)
(* saves its draft, and by whatever the user types in the terminal.  After *)
(* a terminal command the bus patches the editor's state from the text of  *)
(* the command (applyCanvasTerminalSideEffects), splitting it into words;  *)
(* the terminal itself splits some commands differently.  The words of a   *)
(* name therefore matter, and OneWord is the set of names without a space. *)
(* The words of a line are taken to be separated by single blanks (after a *)
(* tab the bus would not recognise "\canvas save").                        *)
(*                                                                         *)
(* A dispatch runs to completion on the GTK main loop: one action each. A  *)
(* dispatch that returns an error before it reaches the terminal changes   *)
(* nothing and is not an action here.                                      *)
(***************************************************************************)
EXTENDS CanvasStore

CONSTANTS
    OneWord,        \* the names that are a single word
    BadText,        \* a text ParseCanvasSpec refuses
    Edits,          \* Edits[s]: the specs one edit of spec s can produce
    NoCanvas,       \* activeCanvas is the empty string
    NoSpec          \* a draft or saved spec that is the empty string

ASSUME WorkspaceAssumption ==
    /\ OneWord \subseteq Names
    /\ NoCanvas \notin Names
    /\ NoSpec \notin Specs
    /\ BadText \notin Specs
    /\ Edits \in [Specs -> SUBSET Specs]

VARIABLES
    active,         \* activeCanvas
    saved,          \* canvasSavedSpec
    draft,          \* canvasDraftSpec
    dirty,          \* canvasDirty
    valid,          \* canvasValidation is the empty string
    lastResult      \* the kind of the last terminal result

editor == <<active, saved, draft, dirty, valid>>
vars == <<canvases, active, saved, draft, dirty, valid, lastResult>>

ResultKinds == {"none", "help", "query", "history", "error"}

TypeOK ==
    /\ StoreTypeOK
    /\ active \in Names \cup {NoCanvas}
    /\ saved \in Specs \cup {NoSpec}
    /\ draft \in Specs \cup {NoSpec}
    /\ dirty \in BOOLEAN
    /\ valid \in BOOLEAN
    /\ lastResult \in ResultKinds

Init ==
    /\ StoreInit
    /\ active = NoCanvas
    /\ saved = NoSpec
    /\ draft = NoSpec
    /\ dirty = FALSE
    /\ valid = TRUE
    /\ lastResult = "none"

\* validateCanvasSpec: an empty text and a text that does not parse have errors.
Validates(text) == text \in Specs

(***************************************************************************)
(* Loading and leaving a canvas                                            *)
(***************************************************************************)
ClearPanel ==
    /\ active' = NoCanvas
    /\ saved' = NoSpec
    /\ draft' = NoSpec
    /\ dirty' = FALSE
    /\ valid' = TRUE

\* Mutant: the message of the last validation stays.
ShowSpecUnvalidated(spec) ==
    /\ saved' = spec
    /\ draft' = spec
    /\ dirty' = FALSE
    /\ valid' = valid

ShowSpec(spec) ==
    /\ saved' = spec
    /\ draft' = spec
    /\ dirty' = FALSE
    /\ valid' = Validates(spec)

\* Mutant: the text found is shown without being normalized.
OpenCanvasUnread(n) ==
    /\ \E i \in Named(n) : ShowSpec(canvases[i].spec)
    /\ active' = n
    /\ UNCHANGED <<canvases, lastResult>>

\* SetActiveCanvas when the catalogue holds a readable canvas of that name.
OpenCanvas(n) ==
    /\ \E i \in Named(n) :
        /\ canvases[i].spec \in Specs
        /\ ShowSpec(canvases[i].spec)
    /\ active' = n
    /\ UNCHANGED <<canvases, lastResult>>

\* The text found does not normalize: the selection is cleared.
OpenUnreadable(n) ==
    /\ \E i \in Named(n) : canvases[i].spec \notin Specs
    /\ ClearPanel
    /\ UNCHANGED <<canvases, lastResult>>

\* Mutant: only the draft is cleared.
OpenMissingKeepsSaved(n) ==
    /\ CannotFind(n)
    /\ active' = n
    /\ draft' = NoSpec
    /\ dirty' = FALSE
    /\ valid' = FALSE
    /\ UNCHANGED <<canvases, saved, lastResult>>

\* Nothing found: the panel is cleared, but keeps the name it was asked for.
OpenMissing(n) ==
    /\ CannotFind(n)
    /\ active' = n
    /\ saved' = NoSpec
    /\ draft' = NoSpec
    /\ dirty' = FALSE
    /\ valid' = FALSE
    /\ UNCHANGED <<canvases, lastResult>>

\* ActionClearCanvas, and SetActiveCanvas with a blank name.
ClearActiveCanvas ==
    /\ ClearPanel
    /\ UNCHANGED <<canvases, lastResult>>

(***************************************************************************)
(* Editing the draft                                                       *)
(***************************************************************************)
\* Mutant: any edit makes the draft dirty, one that restores the saved text too.
PutDraftDirty(spec) ==
    /\ draft' = spec
    /\ dirty' = TRUE
    /\ valid' = Validates(spec)
    /\ UNCHANGED <<canvases, active, saved, lastResult>>

PutDraft(spec) ==
    /\ draft' = spec
    /\ dirty' = (spec # saved)
    /\ valid' = Validates(spec)
    /\ UNCHANGED <<canvases, active, saved, lastResult>>

\* SetCanvasDraft: a whole new text, refused unless it normalizes.
SetCanvasDraft(spec) ==
    /\ active # NoCanvas
    /\ PutDraft(spec)

\* applyCanvasDraftMutation under the move, add-node, set-fields, add-edge,
\* patch-edge and delete-edge dispatches; it needs a draft to start from.
EditDraft(spec) ==
    /\ active # NoCanvas
    /\ draft \in Specs
    /\ spec \in Edits[draft]
    /\ PutDraft(spec)

RevertCanvasDraft ==
    /\ active # NoCanvas
    /\ ShowSpec(saved)
    /\ UNCHANGED <<canvases, active, lastResult>>

(***************************************************************************)
(* The editor's Save: ActionSaveCanvas renders a "\canvas save" line from  *)
(* the active name and the draft, runs it, and commits the draft if the    *)
(* terminal reported no error.  A name of two words is cut in the rendered *)
(* line: its rest lands in the spec text, which no longer parses.          *)
(***************************************************************************)
CanSave == active # NoCanvas /\ valid

SaveCanvas ==
    /\ CanSave
    /\ active \in OneWord
    /\ SaveCanvasSpec(active, draft)
    /\ saved' = draft
    /\ dirty' = FALSE
    /\ lastResult' = "help"
    /\ UNCHANGED <<active, draft, valid>>

\* Mutant: the draft is committed whatever the terminal answered.
SaveCanvasFailsCommits ==
    /\ CanSave
    /\ active \notin OneWord \/ CannotSave(active, draft)
    /\ saved' = draft
    /\ dirty' = FALSE
    /\ lastResult' = "error"
    /\ UNCHANGED <<canvases, active, draft, valid>>

SaveCanvasFails ==
    /\ CanSave
    /\ active \notin OneWord \/ CannotSave(active, draft)
    /\ lastResult' = "error"
    /\ UNCHANGED <<canvases, editor>>

(***************************************************************************)
(* Canvas commands, typed in the terminal or rendered by the New, Rename   *)
(* and Delete buttons, with the editor state the bus patches afterwards.   *)
(***************************************************************************)
CommandFails ==
    /\ lastResult' = "error"
    /\ UNCHANGED <<canvases, editor>>

TerminalNew(n) ==
    \/ /\ CreateDraftCanvas(n)
       /\ lastResult' = "help"
       /\ UNCHANGED editor
    \/ /\ CannotCreate(n)
       /\ CommandFails

\* What was saved under the active name is taken for the draft.
FollowSave(n, text) ==
    /\ IF active = n THEN ShowSpec(text) ELSE UNCHANGED <<saved, draft, dirty, valid>>
    /\ UNCHANGED active

\* Both sides split the line at its first space, so the name is one word.
TerminalSave(n, text) ==
    \/ /\ SaveCanvasSpec(n, text)
       /\ lastResult' = "help"
       /\ FollowSave(n, text)
    \/ /\ CannotSave(n, text)
       /\ CommandFails

\* Mutant: the bus does not follow the rename.
TerminalRenameUnseen(old, new) ==
    \/ /\ {old, new} \subseteq OneWord
       /\ RenameCanvas(old, new)
       /\ lastResult' = "help"
       /\ UNCHANGED editor
    \/ /\ ~({old, new} \subseteq OneWord) \/ CannotFind(old)
       /\ CommandFails

FollowRename(old, new) ==
    /\ active' = IF active = old THEN new ELSE active
    /\ UNCHANGED <<saved, draft, dirty, valid>>

\* Exactly two words must follow, on both sides.
TerminalRename(old, new) ==
    \/ /\ {old, new} \subseteq OneWord
       /\ RenameCanvas(old, new)
       /\ lastResult' = "help"
       /\ FollowRename(old, new)
    \/ /\ ~({old, new} \subseteq OneWord) \/ CannotFind(old)
       /\ CommandFails

\* Mutant: any delete clears the panel.
TerminalDeleteClears(n) ==
    \/ /\ DeleteCanvas(n)
       /\ lastResult' = "help"
       /\ ClearPanel
    \/ /\ CannotFind(n)
       /\ CommandFails

\* The terminal takes the rest of the line as the name; the bus clears the
\* panel only for a name of one word.
FollowDelete(n) == IF n \in OneWord /\ active = n THEN ClearPanel ELSE UNCHANGED editor

TerminalDelete(n) ==
    \/ /\ DeleteCanvas(n)
       /\ lastResult' = "help"
       /\ FollowDelete(n)
    \/ /\ CannotFind(n)
       /\ CommandFails

(***************************************************************************)
(* Running canvases.  The database decides whether the SQL succeeds.       *)
(***************************************************************************)
\* "\canvas <identifier>" runs the stored spec of a canvas.
TerminalRun(n) ==
    /\ lastResult' \in {"error"} \cup {"query" : i \in Executable(n)}
    /\ UNCHANGED <<canvases, editor>>

\* The draft also has to be one that can be made SQL, which CanvasModel tells.
CanRun == active # NoCanvas /\ valid

\* ActionRunCanvas runs the SQL of the draft, saved or not.
RunActiveCanvas ==
    /\ CanRun
    /\ lastResult' \in {"query", "error"}
    /\ UNCHANGED <<canvases, editor>>

(***************************************************************************)
(* Other lines.  SQL is taken not to write the catalogue's own tables; the *)
(* vector commands' effects are the subject of VectorRebuild, and the      *)
(* artifact a vectorize leaves in the archive that of ProjectSession.      *)
(***************************************************************************)
Answers(kinds) == lastResult' \in kinds /\ UNCHANGED <<canvases, editor>>

TerminalQuery == Answers({"query", "error"})

TerminalHistory == Answers({"history", "error"})

\* Help, and any other word after a backslash.
TerminalHelp == Answers({"help", "error"})

\* UPDATE ... VECTORIZE ...
TerminalVectorize == Answers({"query", "error"})

\* "\vector list", "\vector rebuild" and "\vector search"
TerminalVector == Answers({"query", "error"})

TerminalOther ==
    TerminalQuery \/ TerminalHistory \/ TerminalHelp \/ TerminalVectorize \/ TerminalVector

Next ==
    \/ \E n \in Names :
        \/ OpenCanvas(n)
        \/ OpenUnreadable(n)
        \/ OpenMissing(n)
        \/ TerminalNew(n)
        \/ TerminalDelete(n)
        \/ TerminalRun(n)
    \/ \E old, new \in Names : TerminalRename(old, new)
    \/ \E n \in OneWord, text \in Specs \cup {BadText} : TerminalSave(n, text)
    \/ \E spec \in Specs : SetCanvasDraft(spec) \/ EditDraft(spec)
    \/ ClearActiveCanvas
    \/ RevertCanvasDraft
    \/ SaveCanvas
    \/ SaveCanvasFails
    \/ RunActiveCanvas
    \/ TerminalOther

Spec == Init /\ [][Next]_vars

(***************************************************************************)
(* Safety                                                                  *)
(***************************************************************************)
\* The Save button, the status line and the question whether work would be lost
\* all rest on canvasDirty, which five handlers maintain separately: it is set
\* exactly when the draft differs from the spec believed to be stored.
DirtyIffDifferent == dirty = (draft # saved)

\* canvasValidation describes the present draft and no earlier one: an open
\* canvas passes as valid exactly when its draft parses, and with no canvas open
\* nothing is left of the last one.  So runCanvasValidation never lets a text
\* through to "\canvas save" that the draft no longer is.
ValidationMatchesDraft ==
    IF active = NoCanvas
    THEN saved = NoSpec /\ draft = NoSpec /\ ~dirty /\ valid
    ELSE valid <=> Validates(draft)

\* Reverting gives back a canvas whenever one had been loaded: a spec once
\* recorded as saved is never left without a draft, and an empty draft is clean.
EmptyDraftIsClean == draft = NoSpec => saved = NoSpec /\ ~dirty

\* No two rows share the name of the canvas that is open.
ActiveIsUnique == \A i, j \in Named(active) : i = j

\* The editor's idea of what is stored is right: a row named as the active
\* canvas holds the spec the editor recorded as saved.
Agrees ==
    active \in OneWord /\ saved \in Specs =>
        \E i \in Named(active) : canvases[i].spec = saved

\* The bus patches canvasSavedSpec from the text of terminal commands instead of
\* reading the catalogue back.  As long as the active name stands for one row,
\* no dispatch of any kind makes the recorded spec and the stored one drift apart.
SavedAgreement == [][ActiveIsUnique /\ Agrees => Agrees']_vars

\* Whenever the editor stops calling a draft unsaved, and has not thrown it away,
\* the catalogue holds that draft under the name of the active canvas.
CleanMeansStored ==
    [][ dirty /\ ~dirty' /\ draft' = draft /\ active' = active
            => \E i \in Named(active)' : canvases'[i].spec = draft ]_vars

\* A canvas that parses is never replaced by text that does not: neither a save,
\* whatever follows the name on the line, nor a create that meets a taken id.
ValidSpecsStayValid ==
    [][ \A i \in Ids : Stored(i) /\ canvases[i].spec \in Specs
            => canvases'[i] = Absent \/ canvases'[i].spec \in Specs ]_vars

\* A command that writes the catalogue discards or replaces the open draft only
\* if it wrote a row of the open canvas: work on one canvas is not lost to a
\* command about another.
DraftFollowsOnlyItsCanvas ==
    [][ draft' # draft
            => \A i \in Ids : canvases'[i] # canvases[i] => i \in Named(active) ]_vars

\* What the catalogue promises, kept along both routes that write to it.
Catalog == INSTANCE VersionedCatalog
           WITH Texts <- Specs \cup {EmptySpec}, rows <- canvases

CatalogPromise == Catalog!Promise

(***************************************************************************)
(* A claim of the documents that the code does not keep                    *)
(***************************************************************************)
\* "normalize + validate before save": every spec the service stores is valid.
StoredSpecsAreValid == \A i \in Ids : Stored(i) => canvases[i].spec \in Specs

=============================================================================
