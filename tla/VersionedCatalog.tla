-------------------------- MODULE VersionedCatalog --------------------------
(***************************************************************************)
(* What the project's canvas catalogue promises, whoever writes to it: a   *)
(* step touches one row.  A row is born at version 1 under a name nobody   *)
(* uses and an id nobody holds; from then on it is either renamed or given *)
(* a new spec, never both at once, and each such write is counted by its   *)
(* version; in the end it is removed.  ShellWorkspace implements this.     *)
(***************************************************************************)
EXTENDS Integers

CONSTANTS
    Ids,        \* primary keys
    Names,      \* what a row is called
    Texts,      \* what a row may contain
    Absent      \* no row has this id

VARIABLE rows

Present(i) == rows[i] # Absent

Insert(i, n, s) ==
    /\ ~Present(i)
    /\ \A j \in Ids : Present(j) => rows[j].name # n
    /\ rows' = [rows EXCEPT ![i] = [name |-> n, spec |-> s, version |-> 1]]

Rename(i, n) ==
    /\ Present(i)
    /\ rows' = [rows EXCEPT ![i] =
                   [name |-> n, spec |-> rows[i].spec, version |-> rows[i].version + 1]]

Save(i, s) ==
    /\ Present(i)
    /\ rows' = [rows EXCEPT ![i] =
                   [name |-> rows[i].name, spec |-> s, version |-> rows[i].version + 1]]

Remove(i) ==
    /\ Present(i)
    /\ rows' = [rows EXCEPT ![i] = Absent]

Step ==
    \E i \in Ids :
        \/ \E n \in Names, s \in Texts : Insert(i, n, s)
        \/ \E n \in Names : Rename(i, n)
        \/ \E s \in Texts : Save(i, s)
        \/ Remove(i)

Promise == [][Step]_rows

=============================================================================
