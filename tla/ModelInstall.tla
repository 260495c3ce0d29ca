---------------------------- MODULE ModelInstall ----------------------------
(***************************************************************************)
(* `quackcess install` (runInstall in cmd/quackcess/main.go): make sure    *)
(* that the embedding provider has the configured model.  It looks for the *)
(* model in the provider's lists, falls back to asking for one embedding   *)
(* when no list can be had, asks the provider to download a model it does  *)
(* not find, and looks again.  `init` runs it after creating a project,    *)
(* and whoever sees it fail may run it again.                              *)
(*                                                                         *)
(* The provider is outside.  What is modelled of it is what the requests   *)
(* of install can tell: it lists its models at some of the paths tried, in *)
(* a form install reads or not; it may be asked for downloads; a download  *)
(* goes on whether or not the client still waits for its answer.  A model  *)
(* it has loaded it keeps.  The request of a step and its answer are one   *)
(* step.  The cpu backend needs no provider and nothing happens there.     *)
(***************************************************************************)
EXTENDS Naturals, Sequences

CONSTANTS
    ListPaths,      \* the paths a model list is asked for at, in order
    PullPaths,      \* the paths a download is asked for at, in order
    Providers       \* the providers install may meet

\* How a path answers a request for the model list:
\*   none  - not found, or in a form parseProviderModelList does not recognise
\*   full  - with every model the provider has, this and others
\*   own   - with this model, or with an empty list, which is not recognised
\*   hides - with other models, or with this one under another name
Kinds == {"none", "full", "own", "hides"}

\* downloads: the pull paths that start one; embeds: whether the endpoint answers
\* the probe, which carries no key, with a vector of the configured dimension once
\* the model is loaded; polite: paths it does not know are answered with an error.
ProviderType == [lists : [1 .. Len(ListPaths) -> Kinds],
                 downloads : SUBSET (1 .. Len(PullPaths)),
                 embeds : BOOLEAN, polite : BOOLEAN]

ASSUME InstallAssumption ==
    /\ ListPaths \in Seq(Seq(STRING))
    /\ PullPaths \in Seq(Seq(STRING))
    /\ Providers \subseteq ProviderType

VARIABLES
    provider,       \* the provider, always the same
    model,          \* what it has of the model
    net,            \* whether requests reach it and are answered
    pc,             \* what install is doing
    tried,          \* the candidate path it tries next
    pulled,         \* a download has been asked for and answered well
    hadIt,          \* history: the model was loaded when this run began
    trouble         \* history: a request of this run was not answered

outside == <<provider, model, net>>
vars == <<provider, model, net, pc, tried, pulled, hadIt, trouble>>

Ended == {"ready", "failed"}
Phases == {"idle", "list", "probe", "pull"} \cup Ended

TypeOK ==
    /\ provider \in Providers
    /\ model \in {"absent", "loading", "loaded"}
    /\ net \in BOOLEAN
    /\ pc \in Phases
    /\ tried \in Nat \ {0}
    /\ pulled \in BOOLEAN
    /\ hadIt \in BOOLEAN
    /\ trouble \in BOOLEAN

Init ==
    /\ provider \in Providers
    /\ model \in {"absent", "loading", "loaded"}
    /\ net \in BOOLEAN
    /\ pc = "idle"
    /\ tried = 1
    /\ pulled = FALSE
    /\ hadIt = FALSE
    /\ trouble = FALSE

Loaded == model = "loaded"

(***************************************************************************)
(* Moves of install                                                        *)
(***************************************************************************)
\* Mutant: candidates counted from zero.
GotoZero(phase) ==
    /\ pc' = phase
    /\ tried' = 0
    /\ UNCHANGED <<pulled, hadIt>>

Goto(phase) ==
    /\ pc' = phase
    /\ tried' = 1
    /\ UNCHANGED <<pulled, hadIt>>

\* The loop over the candidate paths goes on.
Continue == tried' = tried + 1 /\ UNCHANGED <<pc, pulled, hadIt>>

Answered == net /\ UNCHANGED trouble

Unanswered == ~net /\ trouble' = TRUE

\* runInstall begins, for the first time or again.
Start ==
    /\ pc \in Ended \cup {"idle"}
    /\ pc' = "list"
    /\ tried' = 1
    /\ pulled' = FALSE
    /\ hadIt' = Loaded
    /\ trouble' = FALSE
    /\ UNCHANGED outside

(***************************************************************************)
(* isEmbeddingModelListed, fetchProviderModels: the first list that is     *)
(* recognised decides.                                                     *)
(***************************************************************************)
Recognised(i) ==
    \/ provider.lists[i] \in {"full", "hides"}
    \/ provider.lists[i] = "own" /\ Loaded

Shows(i) == provider.lists[i] \in {"full", "own"} /\ Loaded

\* There are paths left to ask for a list.
Listing == pc = "list" /\ tried \in 1 .. Len(ListPaths)

ListSays ==
    /\ Listing
    /\ Answered
    /\ Recognised(tried)
    /\ \/ Shows(tried) /\ Goto("ready")
       \/ ~Shows(tried) /\ ~pulled /\ Goto("pull")
       \/ ~Shows(tried) /\ pulled /\ Goto("failed")
    /\ UNCHANGED outside

\* Mutant: the first path that gives no list ends the search.
NoListHereStops ==
    /\ Listing
    /\ \/ Answered /\ ~Recognised(tried)
       \/ Unanswered
    /\ Goto("pull")
    /\ UNCHANGED outside

NoListHere ==
    /\ Listing
    /\ \/ Answered /\ ~Recognised(tried)
       \/ Unanswered
    /\ Continue
    /\ UNCHANGED outside

\* errEmbeddingModelsUnavailable: ask for an embedding instead.
NoListAnywhere ==
    /\ pc = "list"
    /\ tried \notin 1 .. Len(ListPaths)
    /\ Goto("probe")
    /\ UNCHANGED <<outside, trouble>>

(***************************************************************************)
(* probeEmbeddingModel                                                     *)
(***************************************************************************)
ProbeSucceeds ==
    /\ pc = "probe"
    /\ Answered
    /\ provider.embeds /\ Loaded
    /\ Goto("ready")
    /\ UNCHANGED outside

\* An error, or vectors of another dimension: before a download that is a
\* reason to ask for one, after it the end.
ProbeFails ==
    /\ pc = "probe"
    /\ \/ Answered /\ ~(provider.embeds /\ Loaded)
       \/ Unanswered
    /\ Goto(IF pulled THEN "failed" ELSE "pull")
    /\ UNCHANGED outside

(***************************************************************************)
(* installEmbeddingModel                                                   *)
(***************************************************************************)
Pulling == pc = "pull" /\ tried \in 1 .. Len(PullPaths)

\* Mutant: a good answer to the request is taken for the model.
PullAcceptedTrusts ==
    /\ Pulling
    /\ Answered
    /\ \/ tried \in provider.downloads /\ model' = "loaded"
       \/ tried \notin provider.downloads /\ ~provider.polite /\ UNCHANGED model
    /\ pc' = "ready"
    /\ UNCHANGED <<tried, pulled, hadIt, provider, net>>

\* The provider answers without an error, when it has downloaded the model or
\* because it answers so to everything; isEmbeddingModelAvailable looks again.
PullAccepted ==
    /\ Pulling
    /\ Answered
    /\ \/ tried \in provider.downloads /\ model' = "loaded"
       \/ tried \notin provider.downloads /\ ~provider.polite /\ UNCHANGED model
    /\ pc' = "list"
    /\ tried' = 1
    /\ pulled' = TRUE
    /\ UNCHANGED <<hadIt, provider, net>>

\* Mutant: the first path that refuses ends the run.
PullRefusedStops ==
    /\ Pulling
    /\ Answered
    /\ tried \notin provider.downloads /\ provider.polite
    /\ Goto("failed")
    /\ UNCHANGED outside

\* The path is unknown, or the provider does not have this model to give there.
PullRefused ==
    /\ Pulling
    /\ Answered
    /\ tried \notin provider.downloads /\ provider.polite
    /\ Continue
    /\ UNCHANGED outside

Begun(m) == IF m = "absent" THEN "loading" ELSE m

\* The client gives up waiting, after QUACKCESS_VECTOR_TIMEOUT_SECONDS; the
\* provider goes on downloading.
PullTimesOut ==
    /\ Pulling
    /\ Answered
    /\ tried \in provider.downloads
    /\ model' = Begun(model)
    /\ Continue
    /\ UNCHANGED <<provider, net>>

\* The request or its answer is lost.
PullLost ==
    /\ Pulling
    /\ Unanswered
    /\ model' \in {model} \cup {Begun(model) : i \in {tried} \cap provider.downloads}
    /\ Continue
    /\ UNCHANGED <<provider, net>>

\* Every path failed.
PullFails ==
    /\ pc = "pull"
    /\ tried \notin 1 .. Len(PullPaths)
    /\ Goto("failed")
    /\ UNCHANGED <<outside, trouble>>

Step ==
    \/ ListSays \/ NoListHere \/ NoListAnywhere
    \/ ProbeSucceeds \/ ProbeFails
    \/ PullAccepted \/ PullRefused \/ PullTimesOut \/ PullLost \/ PullFails

(***************************************************************************)
(* The provider and the network                                            *)
(***************************************************************************)
inside == <<pc, tried, pulled, hadIt, trouble>>

DownloadEnds ==
    /\ model = "loading"
    /\ model' = "loaded"
    /\ UNCHANGED <<provider, net, inside>>

DownloadBreaks ==
    /\ model = "loading"
    /\ ~net
    /\ model' = "absent"
    /\ UNCHANGED <<provider, net, inside>>

NetChanges == net' = ~net /\ UNCHANGED <<provider, model, inside>>

Next == Start \/ Step \/ DownloadEnds \/ DownloadBreaks \/ NetChanges

Spec == Init /\ [][Next]_vars

\* A run goes on to its end, since every request has a timeout; a provider that
\* downloads gets done.  Nobody need run install again.
FairSpec == Spec /\ WF_vars(Step) /\ WF_vars(DownloadEnds)

(***************************************************************************)
(* Properties                                                              *)
(***************************************************************************)
\* Once loaded, the model can be told from outside: the first list that is
\* recognised shows it, or there is no list and the probe tells.
Visible ==
    \/ \E i \in 1 .. Len(ListPaths) :
        /\ provider.lists[i] \in {"full", "own"}
        /\ \A j \in 1 .. i - 1 : provider.lists[j] = "none"
    \/ /\ \A i \in 1 .. Len(ListPaths) : provider.lists[i] = "none"
       /\ provider.embeds

\* "vector model ready" is said only of a model the provider has, however a pull
\* was answered; that its vectors have the configured dimension is known unless a
\* list was believed.
ReadyMeansLoaded ==
    pc = "ready" =>
        /\ Loaded
        /\ provider.embeds \/ \E i \in 1 .. Len(ListPaths) : Shows(i)

\* A model that is there and can be told is found: as long as the requests of a
\* run are answered no download is asked for, at none of the paths and fallbacks,
\* and the run does not fail.
ServedModelIsFound ==
    hadIt /\ Visible /\ ~trouble => pc \notin {"pull", "failed"}

\* Running install again is worth it: if from some time on requests are answered
\* and install is run again and again, it ends in success one day, although every
\* run may have stopped waiting for a download, or have lost one.  The provider
\* has to have the download at the first path it answers well.
RerunsSucceed ==
    /\ Visible
    /\ \E i \in provider.downloads : provider.polite \/ i = 1
    /\ <>[]net
    /\ []<>(pc = "list")
    => <>(pc = "ready")

=============================================================================
