----------------------- MODULE ShellWorkspace_proofs -----------------------
(***************************************************************************)
(* Theorems about ShellWorkspace, for any set of names, ids and specs and  *)
(* any bounds.                                                             *)
(***************************************************************************)
EXTENDS ShellWorkspace, TLAPS

USE StoreAssumption, WorkspaceAssumption DEF StoreAssumption, WorkspaceAssumption

(***************************************************************************)
(* The catalogue's operations                                              *)
(***************************************************************************)
\* A write replaces the row it is given by one with the next version.
LEMMA RewriteIsTyped ==
    ASSUME StoreTypeOK, NEW i \in Ids, NEW row \in Rows, Rewrite(i, row)
    PROVE  /\ StoreTypeOK'
           /\ canvases' = [canvases EXCEPT ![i] =
                  [name |-> row.name, spec |-> row.spec, version |-> row.version + 1]]
           /\ canvases'[i] \in Rows
<1>1. row.version + 1 \in 1 .. MaxVersion
    BY DEF Rewrite, Rows
<1>2. [row EXCEPT !.version = row.version + 1] =
          [name |-> row.name, spec |-> row.spec, version |-> row.version + 1]
    BY DEF Rows
<1>3. [row EXCEPT !.version = row.version + 1] \in Rows
    BY <1>1 DEF Rows
<1> QED BY <1>2, <1>3 DEF StoreTypeOK, Rewrite

\* A row that is there is a row.
LEMMA NamedIsRow ==
    ASSUME StoreTypeOK, NEW n, NEW i \in Named(n)
    PROVE  i \in Ids /\ canvases[i] \in Rows /\ canvases[i].name = n
BY DEF StoreTypeOK, Named, Stored

LEMMA CreateIsTyped ==
    ASSUME StoreTypeOK, NEW n \in Names, CreateDraftCanvas(n)
    PROVE  StoreTypeOK'
<1>1. PICK k \in Attempts :
        canvases' = [canvases EXCEPT ![IdOf[n][k]] =
                        [name |-> n, spec |-> EmptySpec, version |-> 1]]
    BY DEF CreateDraftCanvas
<1>2. [name |-> n, spec |-> EmptySpec, version |-> 1] \in Rows
    BY DEF Rows
<1> QED BY <1>1, <1>2 DEF StoreTypeOK

\* A rename gives one row of the old name the new one and counts it.
LEMMA RenameEffect ==
    ASSUME StoreTypeOK, NEW old \in Names, NEW new \in Names, RenameCanvas(old, new)
    PROVE  \E i \in Named(old) :
               /\ i \in Ids
               /\ canvases' = [canvases EXCEPT ![i] =
                      [name |-> new, spec |-> canvases[i].spec,
                       version |-> canvases[i].version + 1]]
               /\ canvases'[i] \in Rows
               /\ StoreTypeOK'
<1>1. PICK i \in Named(old) : Rewrite(i, [canvases[i] EXCEPT !.name = new])
    BY DEF RenameCanvas
<1>2. i \in Ids /\ canvases[i] \in Rows
    BY NamedIsRow
<1>3. /\ [canvases[i] EXCEPT !.name = new] =
             [name |-> new, spec |-> canvases[i].spec, version |-> canvases[i].version]
      /\ [canvases[i] EXCEPT !.name = new] \in Rows
    BY <1>2 DEF Rows
<1> QED BY <1>1, <1>2, <1>3, RewriteIsTyped

LEMMA RenameIsTyped ==
    ASSUME StoreTypeOK, NEW old \in Names, NEW new \in Names, RenameCanvas(old, new)
    PROVE  StoreTypeOK'
BY RenameEffect

LEMMA DeleteIsTyped ==
    ASSUME StoreTypeOK, NEW n \in Names, DeleteCanvas(n)
    PROVE  StoreTypeOK'
BY DEF DeleteCanvas, StoreTypeOK

\* A save gives one row of the name the new text, which parses, and counts it.
LEMMA SaveEffect ==
    ASSUME StoreTypeOK, NEW n \in Names, NEW text, SaveCanvasSpec(n, text)
    PROVE  /\ text \in Specs
           /\ \E i \in Named(n) :
               /\ i \in Ids
               /\ canvases' = [canvases EXCEPT ![i] =
                      [name |-> n, spec |-> text, version |-> canvases[i].version + 1]]
               /\ canvases'[i] \in Rows
               /\ StoreTypeOK'
<1>1. PICK i \in Named(n) : Rewrite(i, [canvases[i] EXCEPT !.spec = text])
    BY DEF SaveCanvasSpec
<1>2. i \in Ids /\ canvases[i] \in Rows /\ canvases[i].name = n
    BY NamedIsRow
<1>3. text \in Specs
    BY DEF SaveCanvasSpec
<1>4. /\ [canvases[i] EXCEPT !.spec = text] =
             [name |-> n, spec |-> text, version |-> canvases[i].version]
      /\ [canvases[i] EXCEPT !.spec = text] \in Rows
    BY <1>2, <1>3 DEF Rows
<1> QED BY <1>1, <1>2, <1>3, <1>4, RewriteIsTyped

LEMMA SaveIsTyped ==
    ASSUME StoreTypeOK, NEW n \in Names, NEW text, SaveCanvasSpec(n, text)
    PROVE  StoreTypeOK' /\ text \in Specs
BY SaveEffect

\* Lines that are not canvas commands leave the canvas and the editor alone.
LEMMA OtherAnswers ==
    ASSUME TerminalOther
    PROVE  /\ lastResult' \in ResultKinds
           /\ canvases' = canvases /\ active' = active /\ saved' = saved
           /\ draft' = draft /\ dirty' = dirty /\ valid' = valid
BY DEF TerminalOther, TerminalQuery, TerminalHistory, TerminalHelp, TerminalVectorize,
       TerminalVector, Answers, ResultKinds, editor

(***************************************************************************)
(* Types                                                                   *)
(***************************************************************************)
\* Whatever is dispatched, the catalogue holds rows and the editor holds the
\* name of a canvas and texts that parse, or nothing.
THEOREM TypeCorrect == Spec => []TypeOK
<1>1. Init => TypeOK
    BY DEF Init, TypeOK, StoreInit, StoreTypeOK, ResultKinds
<1>2. TypeOK /\ [Next]_vars => TypeOK'
    <2> SUFFICES ASSUME TypeOK, [Next]_vars PROVE TypeOK'
        OBVIOUS
    <2>1. ASSUME NEW n \in Names, OpenCanvas(n) PROVE TypeOK'
        BY <2>1 DEF OpenCanvas, ShowSpec, Validates, TypeOK, StoreTypeOK
    <2>2. ASSUME NEW n \in Names, OpenUnreadable(n) PROVE TypeOK'
        BY <2>2 DEF OpenUnreadable, ClearPanel, TypeOK, StoreTypeOK
    <2>3. ASSUME NEW n \in Names, OpenMissing(n) PROVE TypeOK'
        BY <2>3 DEF OpenMissing, TypeOK, StoreTypeOK
    <2>4. ASSUME NEW n \in Names, TerminalNew(n) PROVE TypeOK'
        BY <2>4, CreateIsTyped
        DEF TerminalNew, CommandFails, TypeOK, StoreTypeOK, editor, ResultKinds
    <2>5. ASSUME NEW n \in Names, TerminalDelete(n) PROVE TypeOK'
        BY <2>5, DeleteIsTyped
        DEF TerminalDelete, FollowDelete, CommandFails, ClearPanel, TypeOK, StoreTypeOK, editor,
            ResultKinds
    <2>6. ASSUME NEW n \in Names, TerminalRun(n) PROVE TypeOK'
        BY <2>6 DEF TerminalRun, TypeOK, StoreTypeOK, editor, ResultKinds
    <2>7. ASSUME NEW old \in Names, NEW new \in Names, TerminalRename(old, new) PROVE TypeOK'
        BY <2>7, RenameIsTyped
        DEF TerminalRename, FollowRename, CommandFails, TypeOK, StoreTypeOK, editor, ResultKinds
    <2>8. ASSUME NEW n \in OneWord, NEW text, TerminalSave(n, text) PROVE TypeOK'
        BY <2>8, SaveIsTyped
        DEF TerminalSave, FollowSave, ShowSpec, Validates, CommandFails, TypeOK, StoreTypeOK,
            editor, ResultKinds
    <2>9. ASSUME NEW spec \in Specs, SetCanvasDraft(spec) \/ EditDraft(spec) PROVE TypeOK'
        BY <2>9 DEF SetCanvasDraft, EditDraft, PutDraft, Validates, TypeOK, StoreTypeOK
    <2>10. CASE ClearActiveCanvas
        BY <2>10 DEF ClearActiveCanvas, ClearPanel, TypeOK, StoreTypeOK
    <2>11. CASE RevertCanvasDraft
        <3>1. saved' = saved /\ draft' = saved /\ dirty' = FALSE /\ valid' \in BOOLEAN
            BY <2>11 DEF RevertCanvasDraft, ShowSpec, Validates, TypeOK
        <3> QED BY <2>11, <3>1 DEF RevertCanvasDraft, TypeOK, StoreTypeOK
    <2>12. CASE SaveCanvas
        BY <2>12, SaveIsTyped DEF SaveCanvas, CanSave, TypeOK, StoreTypeOK, ResultKinds
    <2>13. CASE SaveCanvasFails
        BY <2>13 DEF SaveCanvasFails, TypeOK, StoreTypeOK, editor, ResultKinds
    <2>14. CASE RunActiveCanvas
        BY <2>14 DEF RunActiveCanvas, TypeOK, StoreTypeOK, editor, ResultKinds
    <2>15. CASE TerminalOther
        BY <2>15, OtherAnswers DEF TypeOK, StoreTypeOK, editor, ResultKinds
    <2>16. CASE UNCHANGED vars
        BY <2>16 DEF vars, TypeOK, StoreTypeOK
    <2> QED
        BY <2>1, <2>2, <2>3, <2>4, <2>5, <2>6, <2>7, <2>8, <2>9, <2>10, <2>11, <2>12,
           <2>13, <2>14, <2>15, <2>16 DEF Next
<1> QED BY <1>1, <1>2, PTL DEF Spec

(***************************************************************************)
(* The editor                                                              *)
(***************************************************************************)
EditorInv ==
    /\ TypeOK
    /\ DirtyIffDifferent
    /\ ValidationMatchesDraft
    /\ EmptyDraftIsClean

\* The dirty flag, the validation message and the two texts always tell one story.
THEOREM EditorConsistent ==
    Spec => [](DirtyIffDifferent /\ ValidationMatchesDraft /\ EmptyDraftIsClean)
<1>1. Init => EditorInv
    BY DEF Init, EditorInv, TypeOK, DirtyIffDifferent, ValidationMatchesDraft,
           EmptyDraftIsClean, StoreInit, StoreTypeOK, ResultKinds
<1>2. EditorInv /\ TypeOK' /\ [Next]_vars => EditorInv'
    <2> SUFFICES ASSUME EditorInv, TypeOK', [Next]_vars PROVE EditorInv'
        OBVIOUS
    <2> USE DEF EditorInv, DirtyIffDifferent, ValidationMatchesDraft, EmptyDraftIsClean,
                Validates
    <2>1. CASE UNCHANGED editor
        BY <2>1 DEF editor
    <2>2. ASSUME NEW n \in Names, OpenCanvas(n) \/ OpenUnreadable(n) \/ OpenMissing(n)
          PROVE EditorInv'
        <3>1. CASE OpenCanvas(n)
            <4>1. PICK i \in Named(n) : canvases[i].spec \in Specs /\ ShowSpec(canvases[i].spec)
                BY <3>1 DEF OpenCanvas
            <4> QED BY <3>1, <4>1 DEF OpenCanvas, ShowSpec
        <3>2. CASE OpenUnreadable(n)
            BY <3>2 DEF OpenUnreadable, ClearPanel
        <3>3. CASE OpenMissing(n)
            BY <3>3 DEF OpenMissing
        <3> QED BY <2>2, <3>1, <3>2, <3>3
    <2>3. ASSUME NEW n \in Names, TerminalDelete(n) PROVE EditorInv'
        BY <2>1, <2>3 DEF TerminalDelete, FollowDelete, CommandFails, ClearPanel
    <2>4. ASSUME NEW old \in Names, NEW new \in Names, TerminalRename(old, new)
          PROVE EditorInv'
        BY <2>1, <2>4 DEF TerminalRename, FollowRename, CommandFails, TypeOK
    <2>5. ASSUME NEW n \in OneWord, NEW text, TerminalSave(n, text) PROVE EditorInv'
        <3>1. CASE CommandFails
            BY <2>1, <3>1 DEF CommandFails
        <3>2. CASE SaveCanvasSpec(n, text) /\ active' = active /\ active = n /\ ShowSpec(text)
            BY <3>2 DEF SaveCanvasSpec, ShowSpec
        <3>3. CASE UNCHANGED <<active, saved, draft, dirty, valid>>
            BY <2>1, <3>3 DEF editor
        <3> QED BY <2>5, <3>1, <3>2, <3>3 DEF TerminalSave, FollowSave
    <2>6. ASSUME NEW spec \in Specs, SetCanvasDraft(spec) \/ EditDraft(spec) PROVE EditorInv'
        BY <2>6 DEF SetCanvasDraft, EditDraft, PutDraft
    <2>7. CASE ClearActiveCanvas
        BY <2>7 DEF ClearActiveCanvas, ClearPanel
    <2>8. CASE RevertCanvasDraft
        BY <2>8 DEF RevertCanvasDraft, ShowSpec
    <2>9. CASE SaveCanvas
        BY <2>9 DEF SaveCanvas, CanSave, SaveCanvasSpec
    <2>10. ASSUME NEW n \in Names, TerminalNew(n) \/ TerminalRun(n) PROVE EditorInv'
        BY <2>1, <2>10 DEF TerminalNew, TerminalRun, CommandFails
    <2>11. CASE SaveCanvasFails \/ RunActiveCanvas \/ TerminalOther
        BY <2>1, <2>11, OtherAnswers DEF SaveCanvasFails, RunActiveCanvas
    <2>12. CASE UNCHANGED vars
        BY <2>1, <2>12 DEF vars, editor
    <2> QED
        BY <2>2, <2>3, <2>4, <2>5, <2>6, <2>7, <2>8, <2>9, <2>10, <2>11, <2>12 DEF Next
<1> QED BY <1>1, <1>2, TypeCorrect, PTL DEF Spec, EditorInv

\* A draft passes as valid exactly when it parses, so the text that is sent to be
\* saved is the text that was judged.
THEOREM DraftIsJudged == Spec => []ValidationMatchesDraft
BY EditorConsistent, PTL

\* There is something to revert to whenever a spec is recorded as saved.
THEOREM NothingIsUnsavedInAnEmptyDraft == Spec => []EmptyDraftIsClean
BY EditorConsistent, PTL

(***************************************************************************)
(* The catalogue                                                           *)
(***************************************************************************)
\* Every step leaves the catalogue alone or is one operation of the service.
StoreStep ==
    \/ UNCHANGED canvases
    \/ \E n \in Names : CreateDraftCanvas(n)
    \/ \E n \in Names : DeleteCanvas(n)
    \/ \E old, new \in Names : RenameCanvas(old, new)
    \/ \E n \in Names, text \in Specs : SaveCanvasSpec(n, text)

LEMMA NextIsStoreStep == ASSUME TypeOK, [Next]_vars PROVE StoreStep
<1>1. ASSUME NEW n \in Names,
             OpenCanvas(n) \/ OpenUnreadable(n) \/ OpenMissing(n) \/ TerminalRun(n)
      PROVE StoreStep
    BY <1>1 DEF OpenCanvas, OpenUnreadable, OpenMissing, TerminalRun, StoreStep
<1>2. ASSUME NEW n \in Names, TerminalNew(n) PROVE StoreStep
    BY <1>2 DEF TerminalNew, CommandFails, StoreStep
<1>3. ASSUME NEW n \in Names, TerminalDelete(n) PROVE StoreStep
    BY <1>3 DEF TerminalDelete, CommandFails, StoreStep
<1>4. ASSUME NEW old \in Names, NEW new \in Names, TerminalRename(old, new) PROVE StoreStep
    BY <1>4 DEF TerminalRename, CommandFails, StoreStep
<1>5. ASSUME NEW n \in OneWord, NEW text, TerminalSave(n, text) PROVE StoreStep
    BY <1>5, SaveIsTyped DEF TerminalSave, CommandFails, StoreStep, TypeOK
<1>6. ASSUME NEW spec \in Specs, SetCanvasDraft(spec) \/ EditDraft(spec) PROVE StoreStep
    BY <1>6 DEF SetCanvasDraft, EditDraft, PutDraft, StoreStep
<1>7. CASE SaveCanvas
    BY <1>7, SaveIsTyped DEF SaveCanvas, CanSave, StoreStep, TypeOK
<1>8. CASE ClearActiveCanvas \/ RevertCanvasDraft \/ SaveCanvasFails \/ RunActiveCanvas
             \/ TerminalOther \/ UNCHANGED vars
    BY <1>8, OtherAnswers
    DEF ClearActiveCanvas, RevertCanvasDraft, SaveCanvasFails, RunActiveCanvas, vars, StoreStep
<1> QED BY <1>1, <1>2, <1>3, <1>4, <1>5, <1>6, <1>7, <1>8 DEF Next

\* The catalogue's promise: one row a step, born at version 1 under a free name
\* and a free id, then renamed or given a new spec with its version counted, and
\* in the end removed, along the editor's route and the terminal's.
THEOREM ImplementsCatalog == Spec => CatalogPromise
<1>1. TypeOK /\ [Next]_vars => [Catalog!Step]_canvases
    <2> SUFFICES ASSUME TypeOK, [Next]_vars PROVE [Catalog!Step]_canvases
        OBVIOUS
    <2> USE DEF TypeOK
    <2>1. ASSUME NEW n \in Names, CreateDraftCanvas(n) PROVE Catalog!Step
        <3>1. PICK k \in Attempts :
                /\ FirstFree(n, k)
                /\ canvases' = [canvases EXCEPT ![IdOf[n][k]] =
                                   [name |-> n, spec |-> EmptySpec, version |-> 1]]
            BY <2>1 DEF CreateDraftCanvas
        <3>2. Catalog!Insert(IdOf[n][k], n, EmptySpec)
            BY <2>1, <3>1
            DEF CreateDraftCanvas, FirstFree, Named, Stored, Catalog!Insert, Catalog!Present
        <3> QED BY <3>2 DEF Catalog!Step
    <2>2. ASSUME NEW n \in Names, DeleteCanvas(n) PROVE Catalog!Step
        BY <2>2 DEF DeleteCanvas, Named, Stored, Catalog!Step, Catalog!Remove, Catalog!Present
    <2>3. ASSUME NEW old \in Names, NEW new \in Names, RenameCanvas(old, new)
          PROVE Catalog!Step
        <3>1. PICK i \in Named(old) : i \in Ids /\ Catalog!Rename(i, new)
            BY <2>3, RenameEffect DEF Named, Stored, Catalog!Rename, Catalog!Present
        <3> QED BY <3>1 DEF Catalog!Step
    <2>4. ASSUME NEW n \in Names, NEW text \in Specs, SaveCanvasSpec(n, text)
          PROVE Catalog!Step
        <3>1. PICK i \in Named(n) : i \in Ids /\ Catalog!Save(i, text)
            BY <2>4, SaveEffect, NamedIsRow DEF Named, Stored, Catalog!Save, Catalog!Present
        <3> QED BY <3>1 DEF Catalog!Step
    <2> QED BY <2>1, <2>2, <2>3, <2>4, NextIsStoreStep DEF StoreStep
<1> QED BY <1>1, TypeCorrect, PTL DEF Spec, CatalogPromise, Catalog!Promise

\* No command, whatever its words and whatever ids are taken, leaves a canvas
\* that could be run with a text that cannot.
THEOREM ValidStaysValid == Spec => ValidSpecsStayValid
<1> DEFINE Kept == \A i \in Ids : Stored(i) /\ canvases[i].spec \in Specs
                       => canvases'[i] = Absent \/ canvases'[i].spec \in Specs
<1>1. TypeOK /\ [Next]_vars => [Kept]_vars
    <2> SUFFICES ASSUME TypeOK, [Next]_vars,
                        NEW i \in Ids, Stored(i), canvases[i].spec \in Specs
                 PROVE  canvases'[i] = Absent \/ canvases'[i].spec \in Specs
        OBVIOUS
    <2> USE DEF TypeOK
    <2>1. ASSUME NEW n \in Names, CreateDraftCanvas(n) PROVE canvases'[i] = canvases[i]
        BY <2>1 DEF CreateDraftCanvas, FirstFree, StoreTypeOK
    <2>2. ASSUME NEW n \in Names, DeleteCanvas(n)
          PROVE canvases'[i] = Absent \/ canvases'[i] = canvases[i]
        BY <2>2 DEF DeleteCanvas, StoreTypeOK
    <2>3. ASSUME NEW old \in Names, NEW new \in Names, RenameCanvas(old, new)
          PROVE canvases'[i].spec = canvases[i].spec
        <3>1. PICK j \in Ids :
                canvases' = [canvases EXCEPT ![j] =
                    [name |-> new, spec |-> canvases[j].spec,
                     version |-> canvases[j].version + 1]]
            BY <2>3, RenameEffect
        <3> QED BY <3>1 DEF StoreTypeOK
    <2>4. ASSUME NEW n \in Names, NEW text \in Specs, SaveCanvasSpec(n, text)
          PROVE canvases'[i].spec \in Specs
        <3>1. PICK j \in Ids :
                canvases' = [canvases EXCEPT ![j] =
                    [name |-> n, spec |-> text, version |-> canvases[j].version + 1]]
            BY <2>4, SaveEffect
        <3> QED BY <3>1 DEF StoreTypeOK
    <2> QED BY <2>1, <2>2, <2>3, <2>4, NextIsStoreStep DEF StoreStep
<1> QED BY <1>1, TypeCorrect, PTL DEF Spec, ValidSpecsStayValid

(***************************************************************************)
(* Editor and catalogue                                                    *)
(***************************************************************************)
\* A save that succeeds leaves the text in a row of that name.
LEMMA SaveStores ==
    ASSUME StoreTypeOK, NEW n \in Names, NEW text, SaveCanvasSpec(n, text)
    PROVE  \E i \in Named(n)' : canvases'[i].spec = text
<1>1. PICK i \in Ids :
        /\ canvases' = [canvases EXCEPT ![i] =
               [name |-> n, spec |-> text, version |-> canvases[i].version + 1]]
        /\ canvases'[i] \in Rows
    BY SaveEffect
<1> QED BY <1>1 DEF Named, Stored, StoreTypeOK

\* An unsaved draft that a dispatch turns into a saved one without changing it
\* is in the catalogue, under the name of the open canvas.
THEOREM CleanIsStored == Spec => CleanMeansStored
<1> DEFINE Antecedent == dirty /\ ~dirty' /\ draft' = draft /\ active' = active
           Held == \E i \in Named(active)' : canvases'[i].spec = draft
<1>1. TypeOK /\ DirtyIffDifferent /\ EmptyDraftIsClean /\ [Next]_vars
          => [Antecedent => Held]_vars
    <2> SUFFICES ASSUME TypeOK, DirtyIffDifferent, EmptyDraftIsClean, [Next]_vars, Antecedent
                 PROVE  Held
        OBVIOUS
    <2> USE DEF TypeOK, DirtyIffDifferent, EmptyDraftIsClean
    <2>1. dirty' # dirty /\ draft # NoSpec /\ draft # saved
        OBVIOUS
    <2>2. ASSUME NEW n \in Names, OpenCanvas(n) PROVE Held
        <3>1. PICK i \in Named(n) : ShowSpec(canvases[i].spec)
            BY <2>2 DEF OpenCanvas
        <3>2. i \in Named(active)' /\ canvases'[i].spec = draft
            BY <2>2, <3>1 DEF OpenCanvas, ShowSpec, Named, Stored
        <3> QED BY <3>2
    <2>3. ASSUME NEW n \in Names, OpenUnreadable(n) \/ OpenMissing(n) PROVE FALSE
        BY <2>1, <2>3 DEF OpenUnreadable, OpenMissing, ClearPanel
    <2>4. ASSUME NEW n \in Names, TerminalNew(n) \/ TerminalDelete(n) \/ TerminalRun(n)
          PROVE FALSE
        BY <2>1, <2>4 DEF TerminalNew, TerminalDelete, FollowDelete, TerminalRun, CommandFails,
                          ClearPanel, editor
    <2>5. ASSUME NEW old \in Names, NEW new \in Names, TerminalRename(old, new) PROVE FALSE
        BY <2>1, <2>5 DEF TerminalRename, FollowRename, CommandFails, editor
    <2>6. ASSUME NEW n \in OneWord, NEW text, TerminalSave(n, text) PROVE Held
        <3>1. SaveCanvasSpec(n, text) /\ active = n /\ ShowSpec(text)
            BY <2>1, <2>6 DEF TerminalSave, FollowSave, CommandFails, editor
        <3> QED BY <3>1, SaveStores DEF ShowSpec
    <2>7. ASSUME NEW spec \in Specs, SetCanvasDraft(spec) \/ EditDraft(spec) PROVE FALSE
        BY <2>1, <2>7 DEF SetCanvasDraft, EditDraft, PutDraft
    <2>8. CASE SaveCanvas
        BY <2>8, SaveStores DEF SaveCanvas, CanSave
    <2>9. CASE ClearActiveCanvas \/ RevertCanvasDraft
        BY <2>1, <2>9 DEF ClearActiveCanvas, RevertCanvasDraft, ClearPanel, ShowSpec
    <2>10. CASE SaveCanvasFails \/ RunActiveCanvas \/ TerminalOther \/ UNCHANGED vars
        BY <2>1, <2>10, OtherAnswers DEF SaveCanvasFails, RunActiveCanvas, editor, vars
    <2> QED BY <2>2, <2>3, <2>4, <2>5, <2>6, <2>7, <2>8, <2>9, <2>10 DEF Next
<1> QED BY <1>1, TypeCorrect, EditorConsistent, PTL DEF Spec, CleanMeansStored

\* While the active name stands for one row, patching the recorded spec from the
\* text of the commands keeps it equal to what the catalogue holds.
THEOREM AgreementIsKept == Spec => SavedAgreement
<1>1. TypeOK /\ [Next]_vars => [ActiveIsUnique /\ Agrees => Agrees']_vars
    <2> SUFFICES ASSUME TypeOK, [Next]_vars, ActiveIsUnique, Agrees,
                        active' \in OneWord, saved' \in Specs
                 PROVE  \E i \in Named(active)' : canvases'[i].spec = saved'
        BY DEF Agrees
    <2> DEFINE Goal == \E i \in Named(active)' : canvases'[i].spec = saved'
    <2> USE DEF TypeOK
    <2>1. ASSUME UNCHANGED <<active, saved>>
          PROVE  \E i \in Named(active) : canvases[i].spec = saved
        BY <2>1 DEF Agrees
    <2>2. CASE UNCHANGED <<canvases, active, saved>>
        BY <2>1, <2>2 DEF Named, Stored
    <2>3. ASSUME NEW n \in Names, OpenCanvas(n) PROVE Goal
        <3>1. PICK i \in Named(n) : ShowSpec(canvases[i].spec)
            BY <2>3 DEF OpenCanvas
        <3>2. i \in Named(active)' /\ canvases'[i].spec = saved'
            BY <2>3, <3>1 DEF OpenCanvas, ShowSpec, Named, Stored
        <3> QED BY <3>2
    <2>4. ASSUME NEW n \in Names, OpenUnreadable(n) \/ OpenMissing(n) PROVE FALSE
        BY <2>4 DEF OpenUnreadable, OpenMissing, ClearPanel
    <2>5. ASSUME NEW n \in Names, TerminalNew(n) PROVE Goal
        <3>1. CASE CommandFails
            BY <2>2, <3>1 DEF CommandFails, editor
        <3>2. CASE CreateDraftCanvas(n) /\ UNCHANGED editor
            <4>1. PICK i \in Named(active) : canvases[i].spec = saved
                BY <2>1, <3>2 DEF editor
            <4>2. canvases'[i] = canvases[i]
                BY <3>2, <4>1 DEF CreateDraftCanvas, FirstFree, Named, StoreTypeOK
            <4> QED BY <3>2, <4>1, <4>2 DEF Named, Stored, editor
        <3> QED BY <2>5, <3>1, <3>2 DEF TerminalNew
    <2>6. ASSUME NEW n \in Names, TerminalDelete(n) PROVE Goal
        <3>1. CASE CommandFails
            BY <2>2, <3>1 DEF CommandFails, editor
        <3>2. CASE DeleteCanvas(n) /\ UNCHANGED editor /\ ~(n \in OneWord /\ active = n)
            <4>1. PICK i \in Named(active) : canvases[i].spec = saved
                BY <2>1, <3>2 DEF editor
            <4>2. active # n
                BY <3>2 DEF editor
            <4>3. canvases'[i] = canvases[i]
                BY <3>2, <4>1, <4>2 DEF DeleteCanvas, Named, StoreTypeOK
            <4> QED BY <3>2, <4>1, <4>3 DEF Named, Stored, editor
        <3> QED BY <2>6, <3>1, <3>2 DEF TerminalDelete, FollowDelete, ClearPanel
    <2>7. ASSUME NEW old \in Names, NEW new \in Names, TerminalRename(old, new) PROVE Goal
        <3>1. CASE CommandFails
            BY <2>2, <3>1 DEF CommandFails, editor
        <3>2. CASE /\ {old, new} \subseteq OneWord
                   /\ RenameCanvas(old, new)
                   /\ active' = IF active = old THEN new ELSE active
                   /\ UNCHANGED saved
            <4>1. PICK j \in Named(old) :
                    /\ j \in Ids
                    /\ canvases' = [canvases EXCEPT ![j] =
                           [name |-> new, spec |-> canvases[j].spec,
                            version |-> canvases[j].version + 1]]
                    /\ canvases'[j] \in Rows
                BY <3>2, RenameEffect
            <4>2. PICK i \in Named(active) : canvases[i].spec = saved
                BY <3>2 DEF Agrees
            <4>3. CASE active = old
                <5>1. i = j
                    BY <4>3 DEF ActiveIsUnique
                <5>2. j \in Named(new)' /\ canvases'[j].spec = saved'
                    BY <3>2, <4>1, <4>2, <5>1 DEF Named, Stored, StoreTypeOK
                <5> QED BY <3>2, <4>3, <5>2
            <4>4. CASE active # old
                <5>1. i # j /\ i \in Ids
                    BY <4>4 DEF Named
                <5>2. canvases'[i] = canvases[i]
                    BY <4>1, <5>1 DEF StoreTypeOK
                <5> QED BY <3>2, <4>2, <4>4, <5>2 DEF Named, Stored
            <4> QED BY <4>3, <4>4
        <3> QED BY <2>7, <3>1, <3>2 DEF TerminalRename, FollowRename
    <2>8. ASSUME NEW n \in OneWord, NEW text, TerminalSave(n, text) PROVE Goal
        <3>1. CASE CommandFails
            BY <2>2, <3>1 DEF CommandFails, editor
        <3>2. CASE SaveCanvasSpec(n, text) /\ active = n /\ ShowSpec(text) /\ UNCHANGED active
            BY <3>2, SaveStores DEF ShowSpec
        <3>3. CASE SaveCanvasSpec(n, text) /\ active # n /\ UNCHANGED <<active, saved>>
            <4>1. PICK i \in Named(active) : canvases[i].spec = saved
                BY <2>1, <3>3
            <4>2. canvases'[i] = canvases[i]
                BY <3>3, <4>1 DEF SaveCanvasSpec, Rewrite, Named, StoreTypeOK
            <4> QED BY <3>3, <4>1, <4>2 DEF Named, Stored
        <3> QED BY <2>8, <3>1, <3>2, <3>3 DEF TerminalSave, FollowSave
    <2>9. ASSUME NEW spec \in Specs, SetCanvasDraft(spec) \/ EditDraft(spec) PROVE Goal
        BY <2>2, <2>9 DEF SetCanvasDraft, EditDraft, PutDraft
    <2>10. CASE SaveCanvas
        BY <2>10, SaveStores DEF SaveCanvas, CanSave
    <2>11. CASE RevertCanvasDraft
        BY <2>2, <2>11 DEF RevertCanvasDraft, ShowSpec
    <2>12. CASE ClearActiveCanvas
        BY <2>12 DEF ClearActiveCanvas, ClearPanel
    <2>13. ASSUME NEW n \in Names, TerminalRun(n) PROVE Goal
        BY <2>2, <2>13 DEF TerminalRun, editor
    <2>14. CASE SaveCanvasFails \/ RunActiveCanvas \/ TerminalOther \/ UNCHANGED vars
        BY <2>2, <2>14, OtherAnswers DEF SaveCanvasFails, RunActiveCanvas, editor, vars
    <2> QED
        BY <2>3, <2>4, <2>5, <2>6, <2>7, <2>8, <2>9, <2>10, <2>11, <2>12, <2>13, <2>14 DEF Next
<1> QED BY <1>1, TypeCorrect, PTL DEF Spec, SavedAgreement

\* A command that writes the catalogue changes the draft only if it wrote a row of
\* the open canvas.
THEOREM DraftIsFollowed == Spec => DraftFollowsOnlyItsCanvas
<1> DEFINE Followed == draft' # draft
                => \A i \in Ids : canvases'[i] # canvases[i] => i \in Named(active)
<1>1. TypeOK /\ [Next]_vars => [Followed]_vars
    <2> SUFFICES ASSUME TypeOK, [Next]_vars, draft' # draft,
                        NEW i \in Ids, canvases'[i] # canvases[i]
                 PROVE  i \in Named(active)
        OBVIOUS
    <2> USE DEF TypeOK
    <2>1. draft' # draft /\ canvases' # canvases
        OBVIOUS
    <2>2. ASSUME NEW n \in Names, TerminalDelete(n) PROVE i \in Named(active)
        <3>1. DeleteCanvas(n) /\ active = n
            BY <2>1, <2>2 DEF TerminalDelete, FollowDelete, CommandFails, editor
        <3> QED BY <3>1 DEF DeleteCanvas, StoreTypeOK
    <2>3. ASSUME NEW n \in OneWord, NEW text, TerminalSave(n, text) PROVE i \in Named(active)
        <3>1. SaveCanvasSpec(n, text) /\ active = n
            BY <2>1, <2>3 DEF TerminalSave, FollowSave, CommandFails, editor
        <3>2. PICK j \in Named(n) :
                  canvases' = [canvases EXCEPT ![j] =
                      [name |-> n, spec |-> text, version |-> canvases[j].version + 1]]
            BY <3>1, SaveEffect
        <3> QED BY <3>1, <3>2 DEF StoreTypeOK
    <2>4. ASSUME NEW n \in Names,
                 OpenCanvas(n) \/ OpenUnreadable(n) \/ OpenMissing(n)
                    \/ TerminalNew(n) \/ TerminalRun(n)
          PROVE  FALSE
        BY <2>1, <2>4
        DEF OpenCanvas, OpenUnreadable, OpenMissing, TerminalNew, TerminalRun, CommandFails, editor
    <2>5. ASSUME NEW old \in Names, NEW new \in Names, TerminalRename(old, new) PROVE FALSE
        BY <2>1, <2>5 DEF TerminalRename, FollowRename, CommandFails, editor
    <2>6. ASSUME NEW spec \in Specs, SetCanvasDraft(spec) \/ EditDraft(spec) PROVE FALSE
        BY <2>1, <2>6 DEF SetCanvasDraft, EditDraft, PutDraft
    <2>7. ASSUME \/ ClearActiveCanvas \/ RevertCanvasDraft \/ SaveCanvas \/ SaveCanvasFails
                 \/ RunActiveCanvas \/ TerminalOther \/ UNCHANGED vars
          PROVE  FALSE
        BY <2>1, <2>7, OtherAnswers
        DEF ClearActiveCanvas, RevertCanvasDraft, SaveCanvas, SaveCanvasFails, RunActiveCanvas,
            vars, editor
    <2> QED BY <2>2, <2>3, <2>4, <2>5, <2>6, <2>7 DEF Next
<1> QED BY <1>1, TypeCorrect, PTL DEF Spec, DraftFollowsOnlyItsCanvas

(***************************************************************************)
(* Names that stay unique                                                  *)
(***************************************************************************)
NamesAreUnique ==
    \A i, j \in Ids :
        Stored(i) /\ Stored(j) /\ canvases[i].name = canvases[j].name => i = j

\* A canvas is given a name that another one has.
RenamedOnto(old, new) == old # new /\ Named(new) # {} /\ RenameCanvas(old, new)

\* Two canvases come to share a name in one way only, although creating and saving
\* write rows too, and an id can be somebody's name.
OnlyRenamesCollide ==
    [][ NamesAreUnique /\ ~NamesAreUnique'
            => \E old, new \in Names : RenamedOnto(old, new) ]_vars

LEMMA CreatingKeepsUnique ==
    ASSUME StoreTypeOK, NamesAreUnique, NEW n \in Names, CreateDraftCanvas(n)
    PROVE  NamesAreUnique'
<1>1. PICK k \in Attempts :
        canvases' = [canvases EXCEPT ![IdOf[n][k]] =
                        [name |-> n, spec |-> EmptySpec, version |-> 1]]
    BY DEF CreateDraftCanvas
<1>2. \A i \in Ids : Stored(i) => canvases[i].name # n
    BY DEF CreateDraftCanvas, Named
<1>3. IdOf[n][k] \in Ids
    OBVIOUS
<1>4. /\ canvases'[IdOf[n][k]].name = n
      /\ \A i \in Ids : i # IdOf[n][k] => canvases'[i] = canvases[i]
    BY <1>1, <1>3 DEF StoreTypeOK
<1> QED BY <1>2, <1>3, <1>4 DEF NamesAreUnique, Stored

\* Writing a row that is there, under the name it has, changes no name.
LEMMA RewritingKeepsUnique ==
    ASSUME StoreTypeOK, NamesAreUnique, NEW i \in Ids, Stored(i), NEW row,
           canvases' = [canvases EXCEPT ![i] = row], row.name = canvases[i].name
    PROVE  NamesAreUnique'
<1>1. /\ canvases'[i].name = canvases[i].name
      /\ \A j \in Ids : j # i => canvases'[j] = canvases[j]
    BY DEF StoreTypeOK
<1> QED BY <1>1 DEF NamesAreUnique, Stored

LEMMA RenamingKeepsUnique ==
    ASSUME StoreTypeOK, NamesAreUnique, NEW old \in Names, NEW new \in Names,
           RenameCanvas(old, new), ~RenamedOnto(old, new)
    PROVE  NamesAreUnique'
<1>1. PICK i \in Named(old) :
          /\ i \in Ids
          /\ canvases' = [canvases EXCEPT ![i] =
                 [name |-> new, spec |-> canvases[i].spec, version |-> canvases[i].version + 1]]
    BY RenameEffect
<1>2. Stored(i) /\ canvases[i].name = old
    BY <1>1 DEF Named
<1>3. CASE old = new
    BY <1>1, <1>2, <1>3, RewritingKeepsUnique
<1>4. CASE Named(new) = {}
    <2>1. \A j \in Ids : Stored(j) => canvases[j].name # new
        BY <1>4 DEF Named
    <2>2. /\ canvases'[i].name = new
          /\ \A j \in Ids : j # i => canvases'[j] = canvases[j]
        BY <1>1 DEF StoreTypeOK
    <2> QED BY <1>1, <2>1, <2>2 DEF NamesAreUnique, Stored
<1> QED BY <1>3, <1>4 DEF RenamedOnto

LEMMA UniqueUnlessRenamed ==
    ASSUME TypeOK, [Next]_vars, NamesAreUnique,
           \A old, new \in Names : ~RenamedOnto(old, new)
    PROVE  NamesAreUnique'
<1> USE DEF TypeOK
<1>1. CASE UNCHANGED canvases
    BY <1>1 DEF NamesAreUnique, Stored
<1>2. ASSUME NEW n \in Names, DeleteCanvas(n) PROVE NamesAreUnique'
    BY <1>2 DEF DeleteCanvas, NamesAreUnique, Stored, StoreTypeOK
<1>3. ASSUME NEW n \in Names, NEW text \in Specs, SaveCanvasSpec(n, text) PROVE NamesAreUnique'
    <2>1. PICK i \in Named(n) :
              /\ i \in Ids
              /\ canvases' = [canvases EXCEPT ![i] =
                     [name |-> n, spec |-> text, version |-> canvases[i].version + 1]]
        BY <1>3, SaveEffect
    <2>2. Stored(i) /\ canvases[i].name = n
        BY <2>1 DEF Named
    <2> QED BY <2>1, <2>2, RewritingKeepsUnique
<1> QED BY <1>1, <1>2, <1>3, CreatingKeepsUnique, RenamingKeepsUnique, NextIsStoreStep
        DEF StoreStep

\* Only renaming a canvas onto another, which the service does not refuse, makes
\* two canvases share a name.
THEOREM RenamesAloneCollide == Spec => OnlyRenamesCollide
<1>1. TypeOK /\ [Next]_vars
          => [ NamesAreUnique /\ ~NamesAreUnique'
                   => \E old, new \in Names : RenamedOnto(old, new) ]_vars
    BY UniqueUnlessRenamed
<1> QED BY <1>1, TypeCorrect, PTL DEF Spec, OnlyRenamesCollide

\* In a project whose canvases have different names, and as long as none is renamed
\* onto another, the editor is right about what is stored after every dispatch.
THEOREM EditorIsRightAboutUniqueNames ==
    Spec /\ NamesAreUnique /\ [][\A old, new \in Names : ~RenamedOnto(old, new)]_vars
        => [](NamesAreUnique /\ Agrees)
<1>1. Init => Agrees
    BY DEF Init, Agrees
<1>2. NamesAreUnique => ActiveIsUnique
    BY DEF NamesAreUnique, ActiveIsUnique, Named
<1>3. ASSUME TypeOK, [Next]_vars, NamesAreUnique,
             (\A old, new \in Names : ~RenamedOnto(old, new)) \/ UNCHANGED vars
      PROVE  NamesAreUnique'
    <2>1. CASE \A old, new \in Names : ~RenamedOnto(old, new)
        BY <1>3, <2>1, UniqueUnlessRenamed
    <2>2. CASE UNCHANGED vars
        BY <1>3, <2>2 DEF vars, NamesAreUnique, Stored
    <2> QED BY <1>3, <2>1, <2>2
<1>4. [ActiveIsUnique /\ Agrees => Agrees']_vars /\ ActiveIsUnique /\ Agrees => Agrees'
    BY DEF vars, Agrees, Named, Stored
<1>5. Spec => [][ActiveIsUnique /\ Agrees => Agrees']_vars
    BY AgreementIsKept DEF SavedAgreement
<1> QED BY <1>1, <1>2, <1>3, <1>4, <1>5, TypeCorrect, PTL DEF Spec

=============================================================================
