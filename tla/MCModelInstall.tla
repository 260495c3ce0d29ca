--------------------------- MODULE MCModelInstall ---------------------------
(***************************************************************************)
(* `install` with the provider URL whose path is /v1/embeddings, the       *)
(* default, and every provider that lists its models in one of the four    *)
(* ways next to the endpoint and perhaps at the root, and starts downloads *)
(* at any of the paths asked.                                              *)
(***************************************************************************)
EXTENDS ModelInstall, ProviderPaths

Endpoint == <<"v1", "embeddings">>

MCListPaths == << <<"v1", "models">>, <<"v1", "api", "tags">>,
                 <<"models">>, <<"api", "tags">> >>

MCPullPaths == << <<"v1", "api", "pull">>, <<"api", "pull">> >>

\* They are the paths main.go makes of the default URL.
ASSUME DefaultPaths ==
    MCListPaths = ListPathsOf(Endpoint) /\ MCPullPaths = PullPathsOf(Endpoint)

\* No path is asked twice, wherever the endpoint is.
ASSUME PathsAreDistinct ==
    \A endpoint \in {<< >>, <<"embeddings">>, <<"v1">>, Endpoint, <<"x", "embeddings">>,
                     <<"x", "v1", "embeddings">>, <<"api", "embeddings">>} :
        IsInjective(ListPathsOf(endpoint)) /\ IsInjective(PullPathsOf(endpoint))

MCProviders ==
    {[lists |-> <<near, "none", far, "none">>, downloads |-> pulls,
      embeds |-> embeds, polite |-> polite] :
        near \in Kinds, far \in {"none", "full", "own"}, pulls \in SUBSET {1, 2},
        embeds \in BOOLEAN, polite \in BOOLEAN}

=============================================================================
