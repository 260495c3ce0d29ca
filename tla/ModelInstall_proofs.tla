------------------------ MODULE ModelInstall_proofs ------------------------
(***************************************************************************)
(* What holds of `install` for every list of candidate paths and every set *)
(* of providers: it calls ready only a model the provider has, it finds a  *)
(* model that was there and can be told, and it ends after a number of     *)
(* requests that its paths settle.                                         *)
(***************************************************************************)
EXTENDS ModelInstall, TLAPS

(***************************************************************************)
(* Types                                                                   *)
(***************************************************************************)
Counted == tried \in Nat \ {0}

\* What the provider has and what install does, the flags aside.
Staged ==
    /\ provider \in Providers
    /\ model \in {"absent", "loading", "loaded"}
    /\ pc \in Phases

Flagged == net \in BOOLEAN /\ pulled \in BOOLEAN /\ hadIt \in BOOLEAN /\ trouble \in BOOLEAN

LEMMA TypesSplit == TypeOK <=> Counted /\ Staged /\ Flagged
  BY DEF TypeOK, Counted, Staged, Flagged

LEMMA InitTyped == Init => TypeOK
<1>1. Init => Counted
  BY DEF Init, Counted
<1>2. Init => Staged
  BY DEF Init, Staged, Phases
<1>3. Init => Flagged
  BY Zenon DEF Init, Flagged
<1>. QED
  BY <1>1, <1>2, <1>3, TypesSplit

LEMMA CountedStep == Counted /\ [Next]_vars => Counted'
  BY DEF Counted, Next, Step, vars, inside, outside, Start, ListSays, NoListHere, NoListAnywhere,
         ProbeSucceeds, ProbeFails, PullAccepted, PullRefused, PullTimesOut, PullLost, PullFails,
         DownloadEnds, DownloadBreaks, NetChanges, Goto, Continue

LEMMA StagedStep == Staged /\ [Next]_vars => Staged'
  BY DEF Staged, Phases, Ended, Next, Step, vars, inside, outside, Start, ListSays, NoListHere,
         NoListAnywhere, ProbeSucceeds, ProbeFails, PullAccepted, PullRefused, PullTimesOut,
         PullLost, PullFails, Begun, DownloadEnds, DownloadBreaks, NetChanges, Goto, Continue

LEMMA FlaggedStep == Flagged /\ [Next]_vars => Flagged'
<1>. SUFFICES ASSUME Flagged, [Next]_vars PROVE Flagged'
  OBVIOUS
<1>. USE DEF Flagged
<1>1. CASE Start
  BY <1>1, Zenon DEF Start, outside, Loaded
<1>2. CASE ListSays \/ NoListHere \/ NoListAnywhere
  BY <1>2, Zenon DEF ListSays, NoListHere, NoListAnywhere, Goto, Continue, Answered,
                     Unanswered, outside
<1>3. CASE ProbeSucceeds \/ ProbeFails
  BY <1>3, Zenon DEF ProbeSucceeds, ProbeFails, Goto, Answered, Unanswered, outside
<1>4. CASE PullAccepted \/ PullRefused \/ PullTimesOut \/ PullLost \/ PullFails
  BY <1>4, Zenon DEF PullAccepted, PullRefused, PullTimesOut, PullLost, PullFails,
                     Goto, Continue, Answered, Unanswered, outside
<1>5. CASE DownloadEnds \/ DownloadBreaks
  BY <1>5, Zenon DEF DownloadEnds, DownloadBreaks, inside
<1>6. CASE NetChanges
  BY <1>6, Zenon DEF NetChanges, inside
<1>7. CASE UNCHANGED vars
  BY <1>7, Zenon DEF vars
<1>. QED
  BY <1>1, <1>2, <1>3, <1>4, <1>5, <1>6, <1>7 DEF Next, Step

LEMMA NextTyped == TypeOK /\ [Next]_vars => TypeOK'
<1>1. TypeOK' <=> Counted' /\ Staged' /\ Flagged'
  BY DEF TypeOK, Counted, Staged, Flagged
<1>. QED
  BY <1>1, TypesSplit, CountedStep, StagedStep, FlaggedStep

\* Every variable keeps its type.
THEOREM TypeCorrect == Spec => []TypeOK
<1>. QED
  BY InitTyped, NextTyped, PTL DEF Spec

(***************************************************************************)
(* Ready means loaded                                                      *)
(***************************************************************************)
\* No step changes the provider or takes from it a model it has.
LEMMA ModelsStay ==
    ASSUME [Next]_vars
    PROVE  provider' = provider /\ (Loaded => Loaded')
<1>. USE DEF Loaded
<1>1. CASE Start \/ ListSays \/ NoListHere \/ NoListAnywhere \/ ProbeSucceeds \/ ProbeFails
  BY <1>1 DEF Start, ListSays, NoListHere, NoListAnywhere, ProbeSucceeds, ProbeFails, outside
<1>2. CASE PullAccepted \/ PullRefused \/ PullTimesOut \/ PullLost \/ PullFails
  BY <1>2 DEF PullAccepted, PullRefused, PullTimesOut, PullLost, PullFails, Begun, outside
<1>3. CASE DownloadEnds \/ DownloadBreaks \/ NetChanges
  BY <1>3 DEF DownloadEnds, DownloadBreaks, NetChanges
<1>4. CASE UNCHANGED vars
  BY <1>4 DEF vars
<1>. QED
  BY <1>1, <1>2, <1>3, <1>4 DEF Next, Step

LEMMA ReadyStep == ReadyMeansLoaded /\ [Next]_vars => ReadyMeansLoaded'
<1>. SUFFICES ASSUME ReadyMeansLoaded, [Next]_vars, pc' = "ready"
              PROVE  /\ Loaded'
                     /\ \/ provider.embeds'
                        \/ \E i \in 1 .. Len(ListPaths) : Shows(i)'
  BY DEF ReadyMeansLoaded
<1>1. provider' = provider /\ (Loaded => Loaded')
  BY ModelsStay
<1>2. SUFFICES Loaded /\ (provider.embeds \/ \E i \in 1 .. Len(ListPaths) : Shows(i))
  BY <1>1, <1>2 DEF Shows
<1>3. CASE pc = "ready"
  BY <1>3 DEF ReadyMeansLoaded
<1>4. CASE ListSays
  BY <1>4 DEF ListSays, Listing, Shows, Goto
<1>5. CASE ProbeSucceeds
  BY <1>5 DEF ProbeSucceeds
<1>6. CASE Start \/ NoListHere \/ NoListAnywhere \/ ProbeFails
  BY <1>3, <1>6 DEF Start, NoListHere, NoListAnywhere, ProbeFails, Goto, Continue
<1>7. CASE PullAccepted \/ PullRefused \/ PullTimesOut \/ PullLost \/ PullFails
  BY <1>3, <1>7 DEF PullAccepted, PullRefused, PullTimesOut, PullLost, PullFails, Goto, Continue
<1>8. CASE DownloadEnds \/ DownloadBreaks \/ NetChanges \/ UNCHANGED vars
  BY <1>3, <1>8 DEF DownloadEnds, DownloadBreaks, NetChanges, inside, vars
<1>. QED
  BY <1>4, <1>5, <1>6, <1>7, <1>8 DEF Next, Step

\* "vector model ready" is said only of a model the provider has.
THEOREM ReadyIsTrue == Spec => []ReadyMeansLoaded
<1>1. Init => ReadyMeansLoaded
  BY DEF Init, ReadyMeansLoaded
<1>. QED
  BY <1>1, ReadyStep, PTL DEF Spec

(***************************************************************************)
(* A model that is served is found                                         *)
(***************************************************************************)
\* The lists of a run without trouble that were passed over have nothing of any
\* model, so that the first that has something is still to come; a probe is made
\* when there is none.
Untroubled == hadIt /\ Visible /\ ~trouble

PassedOver ==
    /\ pc = "list" =>
        \A j \in 1 .. Len(ListPaths) : j < tried => provider.lists[j] = "none"
    /\ pc = "probe" =>
        \A j \in 1 .. Len(ListPaths) : provider.lists[j] = "none"

FoundInv ==
    /\ TypeOK
    /\ hadIt => Loaded
    /\ Untroubled => pc \notin {"pull", "failed"} /\ PassedOver

LEMMA VisibleStays == ASSUME [Next]_vars PROVE Visible' = Visible
  BY ModelsStay DEF Visible

\* Only the start of a run clears its trouble or looks at the model again.
LEMMA RunsRemember ==
    ASSUME [Next]_vars, ~Start
    PROVE  hadIt' = hadIt /\ (trouble => trouble')
<1>1. CASE ListSays \/ NoListHere \/ NoListAnywhere \/ ProbeSucceeds \/ ProbeFails
  BY <1>1 DEF ListSays, NoListHere, NoListAnywhere, ProbeSucceeds, ProbeFails, Goto, Continue,
              Answered, Unanswered
<1>2. CASE PullAccepted \/ PullRefused \/ PullTimesOut \/ PullLost \/ PullFails
  BY <1>2 DEF PullAccepted, PullRefused, PullTimesOut, PullLost, PullFails, Goto, Continue,
              Answered, Unanswered
<1>3. CASE DownloadEnds \/ DownloadBreaks \/ NetChanges \/ UNCHANGED vars
  BY <1>3 DEF DownloadEnds, DownloadBreaks, NetChanges, inside, vars
<1>. QED
  BY <1>1, <1>2, <1>3 DEF Next, Step

\* The first list with something of a model is the one that shows it.
LEMMA FirstListShows ==
    ASSUME TypeOK, Visible, Loaded, Listing, Recognised(tried),
           \A j \in 1 .. Len(ListPaths) : j < tried => provider.lists[j] = "none"
    PROVE  Shows(tried)
<1>. tried \in 1 .. Len(ListPaths) /\ provider.lists[tried] # "none"
  BY DEF Listing, Recognised
<1>1. PICK i \in 1 .. Len(ListPaths) :
          /\ provider.lists[i] \in {"full", "own"}
          /\ \A j \in 1 .. i - 1 : provider.lists[j] = "none"
  BY DEF Visible
<1>2. Len(ListPaths) \in Nat
  BY InstallAssumption
<1>3. ~(i < tried) /\ ~(tried < i)
  BY <1>1, <1>2
<1>. QED
  BY <1>1, <1>2, <1>3 DEF Shows

LEMMA FoundStep == FoundInv /\ [Next]_vars => FoundInv'
<1>. SUFFICES ASSUME FoundInv, [Next]_vars PROVE FoundInv'
  OBVIOUS
<1>1. TypeOK /\ TypeOK'
  BY NextTyped DEF FoundInv
<1>2. provider' = provider /\ (Loaded => Loaded') /\ Visible' = Visible
  BY ModelsStay, VisibleStays
<1>3. CASE Start
  <2>1. (hadIt' => Loaded') /\ pc' = "list" /\ tried' = 1
    BY <1>3 DEF Start, outside, Loaded
  <2>2. Len(ListPaths) \in Nat
    BY InstallAssumption
  <2>3. PassedOver'
    BY <2>1, <2>2 DEF PassedOver
  <2>. QED
    BY <1>1, <2>1, <2>3 DEF FoundInv
<1>4. CASE ~Start
  <2>1. hadIt' => Loaded'
    BY <1>2, <1>4, RunsRemember DEF FoundInv
  <2>. SUFFICES ASSUME Untroubled'
                PROVE  pc' \notin {"pull", "failed"} /\ PassedOver'
    BY <1>1, <2>1 DEF FoundInv
  <2>2. Untroubled
    BY <1>2, <1>4, RunsRemember DEF Untroubled
  <2>3. pc \notin {"pull", "failed"} /\ PassedOver /\ Loaded /\ Visible /\ trouble' = FALSE
    BY <1>1, <2>2 DEF FoundInv, Untroubled, TypeOK
  <2>4. CASE ListSays
    <3>1. Shows(tried)
      BY <1>1, <2>3, <2>4, FirstListShows DEF ListSays, Listing, PassedOver
    <3>. QED
      BY <2>4, <3>1 DEF ListSays, Goto, PassedOver
  <2>5. CASE NoListHere
    <3>1. provider.lists[tried] = "none" /\ Listing /\ tried' = tried + 1 /\ pc' = pc
      <4>1. tried \in 1 .. Len(ListPaths) /\ ~Recognised(tried)
        BY <2>3, <2>5 DEF NoListHere, Listing, Unanswered
      <4>2. provider.lists[tried] \in Kinds
        BY <1>1, <4>1, InstallAssumption DEF TypeOK, ProviderType
      <4>. QED
        BY <2>3, <2>5, <4>1, <4>2 DEF NoListHere, Continue, Recognised, Kinds
    <3>2. \A j \in 1 .. Len(ListPaths) : j < tried + 1 => provider.lists[j] = "none"
      BY <1>1, <2>3, <3>1 DEF PassedOver, Listing, TypeOK
    <3>. QED
      BY <1>2, <3>1, <3>2 DEF PassedOver, Listing
  <2>6. CASE NoListAnywhere
    <3>1. \A j \in 1 .. Len(ListPaths) : provider.lists[j] = "none"
      BY <1>1, <2>3, <2>6, InstallAssumption DEF NoListAnywhere, PassedOver, TypeOK
    <3>. QED
      BY <1>2, <2>6, <3>1 DEF NoListAnywhere, Goto, PassedOver
  <2>7. CASE ProbeSucceeds
    BY <2>7 DEF ProbeSucceeds, Goto, PassedOver
  <2>8. CASE ProbeFails
    <3>1. provider.embeds
      BY <2>3, <2>8 DEF ProbeFails, PassedOver, Visible
    <3>. QED
      BY <2>3, <2>8, <3>1 DEF ProbeFails, Unanswered
  <2>9. CASE PullAccepted \/ PullRefused \/ PullTimesOut \/ PullLost \/ PullFails
    BY <2>3, <2>9 DEF PullAccepted, PullRefused, PullTimesOut, PullLost, PullFails, Pulling
  <2>10. CASE DownloadEnds \/ DownloadBreaks \/ NetChanges \/ UNCHANGED vars
    BY <1>2, <2>3, <2>10 DEF DownloadEnds, DownloadBreaks, NetChanges, inside, vars, PassedOver
  <2>. QED
    BY <1>4, <2>4, <2>5, <2>6, <2>7, <2>8, <2>9, <2>10 DEF Next, Step
<1>. QED
  BY <1>3, <1>4

\* A model that was there when the run began, and that the provider shows or
\* serves, is found without a download as long as requests are answered.
THEOREM ServedIsFound == Spec => []ServedModelIsFound
<1>1. Init => FoundInv
  BY InitTyped DEF Init, FoundInv, Untroubled
<1>2. FoundInv => ServedModelIsFound
  BY DEF FoundInv, Untroubled, ServedModelIsFound
<1>. QED
  BY <1>1, <1>2, FoundStep, PTL DEF Spec

(***************************************************************************)
(* The requests of a run                                                   *)
(***************************************************************************)
\* A second look, after a download was answered well, is the last.
SecondLook == IF pulled THEN 0 ELSE Len(PullPaths) + Len(ListPaths) + 1

\* The most requests a run still makes: the lists not yet asked for, the probe, the
\* pulls not yet tried, and the lists and the probe of the second look.
RequestsLeft ==
    CASE pc = "list" -> Len(ListPaths) + 1 - tried + 1 + SecondLook
      [] pc = "probe" -> 1 + SecondLook
      [] pc = "pull" -> Len(PullPaths) + 1 - tried + Len(ListPaths) + 1
      [] OTHER -> 0

MostRequests == 2 * Len(ListPaths) + Len(PullPaths) + 2

RequestsAreCounted == RequestsLeft \in 0 .. MostRequests

\* Each request brings a run nearer to its end, whatever the provider and the
\* network do: only turning from the lists to the probe is no request, and only a
\* new run has more to do than before.
RequestsRunOut ==
    [][ /\ Step => \/ RequestsLeft' < RequestsLeft
                   \/ NoListAnywhere /\ RequestsLeft' = RequestsLeft
        /\ RequestsLeft' > RequestsLeft => Start ]_vars

\* The loops over the candidate paths stop behind the last.
PathInv ==
    /\ Counted
    /\ pc = "list" => tried <= Len(ListPaths) + 1
    /\ pc = "pull" => tried <= Len(PullPaths) + 1

LEMMA LengthsAreNumbers == Len(ListPaths) \in Nat /\ Len(PullPaths) \in Nat
BY InstallAssumption DEF InstallAssumption

LEMMA PathStep == PathInv /\ [Next]_vars => PathInv'
<1> SUFFICES ASSUME PathInv, [Next]_vars PROVE PathInv'
    OBVIOUS
<1> DEFINE L == Len(ListPaths)
           P == Len(PullPaths)
<1>1. L \in Nat /\ P \in Nat
    BY LengthsAreNumbers
<1>2. Counted'
    BY CountedStep DEF PathInv
<1> USE DEF PathInv, Counted
<1>3. CASE pc' \notin {"list", "pull"}
    BY <1>2, <1>3
<1>4. CASE tried' = 1
    BY <1>1, <1>2, <1>4
<1>5. CASE NoListHere \/ PullRefused \/ PullTimesOut \/ PullLost
    <2>1. pc' = pc /\ tried' = tried + 1
        BY <1>5 DEF NoListHere, PullRefused, PullTimesOut, PullLost, Continue
    <2>2. \/ pc = "list" /\ tried \in 1 .. L
          \/ pc = "pull" /\ tried \in 1 .. P
        BY <1>5 DEF NoListHere, PullRefused, PullTimesOut, PullLost, Listing, Pulling
    <2> HIDE DEF L, P
    <2>3. tried' <= IF pc = "list" THEN L + 1 ELSE P + 1
        BY <1>1, <2>1, <2>2
    <2> QED BY <1>2, <2>1, <2>2, <2>3 DEF L, P
<1>6. CASE UNCHANGED <<pc, tried>>
    BY <1>2, <1>6
<1> QED BY <1>3, <1>4, <1>5, <1>6
        DEF Next, Step, Start, ListSays, NoListAnywhere, ProbeSucceeds, ProbeFails, PullAccepted,
            PullFails, Goto, DownloadEnds, DownloadBreaks, NetChanges, inside, vars

LEMMA PathInvariant == Spec => []PathInv
<1>1. Init => PathInv
    BY DEF Init, PathInv, Counted
<1> QED BY <1>1, PathStep, PTL DEF Spec

LEMMA LeftIsCounted == PathInv => RequestsAreCounted
<1> SUFFICES ASSUME PathInv PROVE RequestsAreCounted
    OBVIOUS
<1> DEFINE L == Len(ListPaths)
           P == Len(PullPaths)
<1>1. L \in Nat /\ P \in Nat
    BY LengthsAreNumbers
<1>2. tried \in Nat \ {0} /\ (pc = "list" => tried <= L + 1) /\ (pc = "pull" => tried <= P + 1)
    BY DEF PathInv, Counted
<1>3. SecondLook \in 0 .. P + L + 1
    BY <1>1 DEF SecondLook
<1>4. /\ pc = "list" => RequestsLeft = L + 1 - tried + 1 + SecondLook
      /\ pc = "probe" => RequestsLeft = 1 + SecondLook
      /\ pc = "pull" => RequestsLeft = P + 1 - tried + L + 1
      /\ pc \notin {"list", "probe", "pull"} => RequestsLeft = 0
    BY DEF RequestsLeft
<1>5. MostRequests = 2 * L + P + 2
    BY DEF MostRequests
<1> HIDE DEF L, P
<1> QED BY <1>1, <1>2, <1>3, <1>4, <1>5 DEF RequestsAreCounted

LEMMA StepUsesOneUp ==
    ASSUME PathInv, Step
    PROVE  \/ RequestsLeft' < RequestsLeft
           \/ NoListAnywhere /\ RequestsLeft' = RequestsLeft
<1> DEFINE L == Len(ListPaths)
           P == Len(PullPaths)
<1>1. L \in Nat /\ P \in Nat
    BY LengthsAreNumbers
<1>2. tried \in Nat \ {0} /\ (pc = "list" => tried <= L + 1) /\ (pc = "pull" => tried <= P + 1)
    BY DEF PathInv, Counted
<1>3. /\ pc = "list" => RequestsLeft = L + 1 - tried + 1 + SecondLook
      /\ pc = "probe" => RequestsLeft = 1 + SecondLook
      /\ pc = "pull" => RequestsLeft = P + 1 - tried + L + 1
    BY DEF RequestsLeft
<1>4. /\ pc' = "list" => RequestsLeft' = L + 1 - tried' + 1 + SecondLook'
      /\ pc' = "probe" => RequestsLeft' = 1 + SecondLook'
      /\ pc' = "pull" => RequestsLeft' = P + 1 - tried' + L + 1
      /\ pc' \in Ended => RequestsLeft' = 0
    BY DEF RequestsLeft, Ended
<1>5. /\ SecondLook = IF pulled THEN 0 ELSE P + L + 1
      /\ SecondLook' = IF pulled' THEN 0 ELSE P + L + 1
    BY DEF SecondLook
<1> HIDE DEF L, P
<1>6. SecondLook \in Nat
    BY <1>1, <1>5
<1>7. CASE ListSays
    <2>1. pc = "list" /\ tried \in 1 .. L
        BY <1>7 DEF ListSays, Listing, L
    <2>2. \/ pc' \in Ended
          \/ pc' = "pull" /\ tried' = 1 /\ ~pulled
        BY <1>7 DEF ListSays, Goto, Ended
    <2> QED BY <1>1, <1>3, <1>4, <1>5, <1>6, <2>1, <2>2
<1>8. CASE NoListHere
    <2>1. pc = "list" /\ pc' = "list" /\ tried' = tried + 1 /\ pulled' = pulled
        BY <1>8 DEF NoListHere, Listing, Continue
    <2> QED BY <1>1, <1>2, <1>3, <1>4, <1>5, <1>6, <2>1
<1>9. CASE NoListAnywhere
    <2>1. pc = "list" /\ tried \notin 1 .. L /\ pc' = "probe" /\ pulled' = pulled
        BY <1>9 DEF NoListAnywhere, Goto, L
    <2> QED BY <1>1, <1>2, <1>3, <1>4, <1>5, <1>6, <1>9, <2>1
<1>10. CASE ProbeSucceeds \/ ProbeFails
    <2>1. /\ pc = "probe"
          /\ \/ pc' \in Ended
             \/ pc' = "pull" /\ tried' = 1 /\ ~pulled
        BY <1>10 DEF ProbeSucceeds, ProbeFails, Goto, Ended
    <2> QED BY <1>1, <1>3, <1>4, <1>5, <1>6, <2>1
<1>11. CASE PullAccepted
    <2>1. pc = "pull" /\ tried \in 1 .. P /\ pc' = "list" /\ tried' = 1 /\ pulled' = TRUE
        BY <1>11 DEF PullAccepted, Pulling, P
    <2> QED BY <1>1, <1>3, <1>4, <1>5, <2>1
<1>12. CASE PullRefused \/ PullTimesOut \/ PullLost
    <2>1. pc = "pull" /\ pc' = "pull" /\ tried' = tried + 1
        BY <1>12 DEF PullRefused, PullTimesOut, PullLost, Pulling, Continue
    <2> QED BY <1>1, <1>2, <1>3, <1>4, <2>1
<1>13. CASE PullFails
    <2>1. pc = "pull" /\ pc' \in Ended
        BY <1>13 DEF PullFails, Goto, Ended
    <2> QED BY <1>1, <1>2, <1>3, <1>4, <2>1
<1> QED BY <1>7, <1>8, <1>9, <1>10, <1>11, <1>12, <1>13 DEF Step

\* A run of install makes at most two rounds of list requests, one round of pulls
\* and two probes, whatever it is answered and however often it is not answered.
THEOREM RunsAreBounded == Spec => []RequestsAreCounted /\ RequestsRunOut
<1>1. PathInv /\ RequestsAreCounted /\ RequestsAreCounted' /\ [Next]_vars
          => [ /\ Step => \/ RequestsLeft' < RequestsLeft
                          \/ NoListAnywhere /\ RequestsLeft' = RequestsLeft
               /\ RequestsLeft' > RequestsLeft => Start ]_vars
    <2> SUFFICES ASSUME PathInv, RequestsAreCounted, RequestsAreCounted', [Next]_vars, ~Start
                 PROVE  ~ (RequestsLeft' > RequestsLeft)
        BY StepUsesOneUp
    <2>1. RequestsLeft \in Nat /\ RequestsLeft' \in Nat
        BY LengthsAreNumbers DEF RequestsAreCounted, MostRequests
    <2>2. CASE Step
        BY <2>1, <2>2, StepUsesOneUp
    <2>3. CASE UNCHANGED <<pc, tried, pulled>>
        BY <2>1, <2>3 DEF RequestsLeft, SecondLook
    <2> QED BY <2>2, <2>3
            DEF Next, DownloadEnds, DownloadBreaks, NetChanges, inside, vars
<1> QED BY <1>1, LeftIsCounted, PathInvariant, PTL DEF Spec, RequestsRunOut

=============================================================================
