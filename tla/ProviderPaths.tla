--------------------------- MODULE ProviderPaths ---------------------------
(***************************************************************************)
(* Where `install` looks for the model list and the download of an         *)
(* embedding provider, given the URL it sends texts to (the functions      *)
(* modelCatalogBasePaths, modelListCandidatePaths and                      *)
(* modelDownloadCandidatePaths of cmd/quackcess/main.go).  A path is the   *)
(* sequence of its segments, "/" the empty one.                            *)
(***************************************************************************)
EXTENDS Sequences, SequencesExt

EndsWith(path, word) == path # << >> /\ Last(path) = word

Base(endpoint) == IF EndsWith(endpoint, "embeddings") THEN Front(endpoint) ELSE endpoint

\* modelCatalogBasePaths: next to the endpoint, then at the root.
BasePaths(endpoint) ==
    IF Base(endpoint) = << >> THEN << << >> >> ELSE <<Base(endpoint), << >> >>

Beside(base, suffixes) == [i \in DOMAIN suffixes |-> base \o suffixes[i]]

\* The suffixes under one base; those of "v1" are not repeated under a v1.
Under(base, suffixes) ==
    IF EndsWith(base, "v1") THEN Beside(base, suffixes)
    ELSE Beside(base, suffixes) \o Beside(base \o <<"v1">>, suffixes)

\* Every base in turn, paths seen before left out.
CandidatePaths(endpoint, suffixes) ==
    LET all == FlattenSeq([i \in DOMAIN BasePaths(endpoint) |->
                              Under(BasePaths(endpoint)[i], suffixes)])
        firsts == {i \in DOMAIN all : \A j \in 1 .. i - 1 : all[j] # all[i]}
    IN  [k \in 1 .. Cardinality(firsts) |->
            all[CHOOSE i \in firsts : Cardinality(firsts \cap 1 .. i) = k]]

ListPathsOf(endpoint) == CandidatePaths(endpoint, << <<"models">>, <<"api", "tags">> >>)

PullPathsOf(endpoint) == CandidatePaths(endpoint, << <<"api", "pull">> >>)

=============================================================================
