---------------------------- MODULE CanvasStore ----------------------------
(***************************************************************************)
(* The canvas catalogue: the table quackcess_canvases, the repository that *)
(* reads and writes it (internal/catalog/canvas.go) and the artifact       *)
(* service the terminal commands go through (internal/canvasservice).      *)
(*                                                                         *)
(* A row is known by its primary key, the id; its name is what people type.*)
(* The schema does not make names unique.  A spec is a canonical text: a   *)
(* member of Specs is a text that ParseCanvasSpec accepts, already in the  *)
(* form MarshalCanvasSpec gives it, and EmptySpec is the text with no node *)
(* that CreateDraftCanvas stores and ParseCanvasSpec refuses.              *)
(*                                                                         *)
(* The service runs on the one thread of the shell, so an operation is one *)
(* step: its operators come in pairs, the effect when it succeeds and the  *)
(* condition under which it returns an error and writes nothing.           *)
(***************************************************************************)
EXTENDS Integers

CONSTANTS
    Names,              \* canvas names: trimmed and not empty
    Ids,                \* primary keys
    Specs,              \* canonical texts of valid canvases
    EmptySpec,          \* the text of a canvas without nodes
    Absent,             \* no row has this id
    MaxAttempts,        \* ids CreateDraftCanvas tries before it gives up (10)
    IdOf,               \* IdOf[n][k]: the id tried for name n at attempt k
    MaxVersion,         \* bound on the version counter, for model checking
    InitialCatalogues   \* what the database may hold when the shell opens it

Attempts == 0 .. (MaxAttempts - 1)

Rows == [name : Names, spec : Specs \cup {EmptySpec}, version : 1 .. MaxVersion]

ASSUME StoreAssumption ==
    /\ MaxAttempts \in Nat \ {0}
    /\ MaxVersion \in Nat \ {0}
    /\ EmptySpec \notin Specs
    /\ Absent \notin Rows
    /\ IdOf \in [Names -> [Attempts -> Ids]]
    /\ InitialCatalogues \subseteq [Ids -> Rows \cup {Absent}]

VARIABLE canvases       \* the rows of quackcess_canvases, by id

StoreTypeOK == canvases \in [Ids -> Rows \cup {Absent}]

StoreInit == canvases \in InitialCatalogues

(***************************************************************************)
(* Lookups.  FindByName orders by the very column it filters on and takes  *)
(* one row, so among rows of equal name the database may return any.       *)
(***************************************************************************)
Stored(i) == canvases[i] # Absent

Named(n) == {i \in Ids : Stored(i) /\ canvases[i].name = n}

\* findByNameOrID: an id wins over a name.
NamedOrId(n) == IF n \in Ids /\ Stored(n) THEN {n} ELSE Named(n)

\* Mutant: the service forgets to bump the version.
RewriteUncounted(i, row) == canvases' = [canvases EXCEPT ![i] = row]

(***************************************************************************)
(* CanvasRepository.Update with the version the service has bumped.        *)
(***************************************************************************)
Rewrite(i, row) ==
    /\ row.version < MaxVersion
    /\ canvases' = [canvases EXCEPT ![i] = [row EXCEPT !.version = @ + 1]]

(***************************************************************************)
(* CreateDraftCanvas: refuse a name in use, then take the first id of the  *)
(* name's sequence that the primary key accepts.                           *)
(***************************************************************************)
FirstFree(n, k) ==
    /\ ~Stored(IdOf[n][k])
    /\ \A j \in Attempts : j < k => Stored(IdOf[n][j])

\* Mutant: the row is upserted under the first id, free or not.
CreateByUpsert(n) ==
    /\ Named(n) = {}
    /\ canvases' = [canvases EXCEPT ![IdOf[n][0]] =
                        [name |-> n, spec |-> EmptySpec, version |-> 1]]

CreateDraftCanvas(n) ==
    /\ Named(n) = {}
    /\ \E k \in Attempts :
        /\ FirstFree(n, k)
        /\ canvases' = [canvases EXCEPT ![IdOf[n][k]] =
                            [name |-> n, spec |-> EmptySpec, version |-> 1]]

CannotCreate(n) == Named(n) # {} \/ \A k \in Attempts : Stored(IdOf[n][k])

(***************************************************************************)
(* RenameCanvas does not ask whether the new name is free.                 *)
(***************************************************************************)
RenameCanvas(old, new) ==
    \E i \in Named(old) : Rewrite(i, [canvases[i] EXCEPT !.name = new])

DeleteCanvas(n) ==
    \E i \in Named(n) : canvases' = [canvases EXCEPT ![i] = Absent]

CannotFind(n) == Named(n) = {}

(***************************************************************************)
(* SaveCanvasSpec parses the text first; a text that parses is stored in   *)
(* canonical form.                                                         *)
(***************************************************************************)
SaveCanvasSpec(n, spec) ==
    /\ spec \in Specs
    /\ \E i \in Named(n) : Rewrite(i, [canvases[i] EXCEPT !.spec = spec])

CannotSave(n, spec) == spec \notin Specs \/ Named(n) = {}

(***************************************************************************)
(* GetForExecution: the rows whose spec "\canvas <identifier>" may run.    *)
(***************************************************************************)
Executable(n) == {i \in NamedOrId(n) : canvases[i].spec \in Specs}

=============================================================================
