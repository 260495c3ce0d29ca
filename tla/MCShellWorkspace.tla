-------------------------- MODULE MCShellWorkspace --------------------------
(***************************************************************************)
(* An instance of ShellWorkspace for TLC.  Its names have one slug, "a",   *)
(* so that they compete for the same ids; one of them is two words.        *)
(***************************************************************************)
EXTENDS ShellWorkspace

CONSTANTS s1, s2        \* specs

MCNames == {"a", "A", "a !"}
MCOneWord == {"a", "A"}
MCIds == {"canvas-a", "canvas-a-1"}
MCIdOf == [n \in MCNames |-> [k \in 0 .. 1 |-> IF k = 0 THEN "canvas-a" ELSE "canvas-a-1"]]
MCSpecs == {s1, s2}
MCEdits == [s \in MCSpecs |-> MCSpecs]

EmptyCatalogue(ids) == [i \in ids |-> Absent]

MCInitialCatalogues == {EmptyCatalogue(MCIds)}

=============================================================================
