---------------------------- MODULE MCMcpServer ----------------------------
(***************************************************************************)
(* Instances of McpServer for TLC: a principal that may call every tool    *)
(* and one that may only read.                                             *)
(***************************************************************************)
EXTENDS McpServer, TLC

CONSTANTS agent, guest

MCPrincipals == {agent, guest}
MCGranted == [p \in MCPrincipals |->
                 IF p = agent THEN Tools \cup {"no.such.tool"} ELSE {"artifact.get"}]

Asks(tool, p) == [tool |-> tool, principal |-> p]

\* Calls of every kind, at most one of them a rebuild that is served.
MixedArrivals ==
    {r \in [Calls -> {Asks("vector.rebuild", agent), Asks("vector.rebuild", guest),
                     Asks("artifact.set", agent), Asks("no.such.tool", agent)}] :
        \A b, c \in Calls : r[b] = r[c] => b = c}

\* Calls that work on the artifact.  Which goroutine brings which request makes
\* no difference, so the calls are numbers and each mixture comes in one order.
Rank == [t \in Tools |-> CASE t = "artifact.set" -> 1
                            [] t = "artifact.get" -> 2
                            [] OTHER -> 3]

ArtifactArrivals ==
    {r \in [Calls -> {Asks("artifact.set", agent), Asks("artifact.get", guest),
                     Asks("artifact.delete", agent)}] :
        \A b, c \in Calls : b < c => Rank[r[b].tool] <= Rank[r[c].tool]}

Symmetry == Permutations(Calls) \cup Permutations(Subscribers)

=============================================================================
