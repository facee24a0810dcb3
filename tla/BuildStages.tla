------------------------------ MODULE BuildStages ------------------------------
(***************************************************************************)
(* The first two stages of a build as DefaultBuildStages of jobs/pipeline.py *)
(* runs them: resolve, and with what it returns, download.  In BuildQueue a  *)
(* stage only returns or raises; here is what it does in between.            *)
(***************************************************************************)
EXTENDS CompatibleResolver, WheelDownloader

vars == <<resolverVars, downloadVars>>

Init == ResolverInit /\ DownloadInit

\* The pipeline goes on to the download: only the packages of the resolution
\* are left of the search, their number being pip's.
Hand ==
    /\ phase = "stopped" /\ code = "resolved"
    /\ \E count \in 0 .. MaxPackages + 1 : StartDownload(count)
    /\ phase' = "done"
    /\ attempts' = <<>> /\ observed' = {} /\ options' = <<>> /\ left' = {}
    /\ chosen' = Originals /\ viable' = {}
    /\ pin' = 1 /\ source' = 1 /\ accepted' = 0 /\ visited' = 0
    /\ truncated' = FALSE /\ incomplete' = FALSE /\ passedOver' = FALSE
    /\ bounded' = FALSE /\ UNCHANGED code

Resolve == ResolverNext /\ UNCHANGED downloadVars

Download == (DownloadStep \/ RequestCancel) /\ UNCHANGED resolverVars

\* The build is over for these stages.
Over ==
    \/ phase = "stopped" /\ code # "resolved"
    \/ step = "ended"

Rest == Over /\ UNCHANGED vars

Next == Resolve \/ Hand \/ Download \/ Rest

Spec == Init /\ [][Next]_vars

-----------------------------------------------------------------------------
Option == [versions : Seq(Versions), eligible : Seq(SUBSET Sources)]

SearchTypeOK ==
    /\ phase \in {"originals", "pin", "discover", "frontier", "try", "end",
                  "stopped", "done"}
    /\ code \in {"none", "resolved", "raised", "TIMEOUT", "ATTEMPT_LIMIT",
                 "RESOURCE_LIMIT", "EXHAUSTED"}
    /\ attempts \in Seq([Pins -> Versions] \X Sources) /\ Len(attempts) <= MaxAttempts
    /\ pin \in Pins \cup {1} /\ source \in SourceIndexes
    /\ \A o \in observed : o[1] \in Sources /\ o[2] \in UNION {Releases[p] : p \in Pins}
    /\ accepted \in 0 .. MaxObservations
    /\ visited \in 0 .. MaxCombinations
    /\ options \in Seq(Option) /\ Len(options) <= Len(Originals)
    /\ \A p \in 1 .. Len(options) :
          /\ Len(options[p].versions) <= MaxCandidates
          /\ Len(options[p].eligible) = Len(options[p].versions)
    /\ left \subseteq UNION {[1 .. p -> 0 .. MaxCandidates] : p \in Pins}
    /\ chosen \in [Pins -> Versions] /\ viable \subseteq SourceIndexes
    /\ {truncated, incomplete, bounded, passedOver} \subseteq BOOLEAN

\* The types, and the limits: no more strict attempts, observations and
\* combinations than the limits allow, and options up to the candidate limit.
TypeOK == SearchTypeOK /\ DownloadTypeOK

\* The places in the options that the versions of an attempt stand for, 0
\* being the original.
PlaceOf(versions, p) ==
    IF versions[p] = Originals[p] THEN 0
    ELSE CHOOSE n \in 1 .. Len(options[p].versions) : options[p].versions[n] = versions[p]

\* All choices the discovered options leave, the originals among them.
Selections == {c \in [Pins -> 0 .. MaxCandidates] :
              \A p \in Pins :
                 c[p] <= IF p <= Len(options) THEN Len(options[p].versions) ELSE 0}

Open(c, s) ==
    \A p \in Pins : c[p] > 0 => SourceOrder[s] \in options[p].eligible[c[p]]

LastChanged(c) == Max({0} \cup {p \in Pins : c[p] > 0})

\* c on source s is to be tried before d on source t: nothing is replaced
\* that can be kept from the last pin on, then the candidates in their order
\* of preference from the first pin on, then the sources in their order.
Sooner(c, s, d, t) ==
    \/ LastChanged(c) < LastChanged(d)
    \/ LastChanged(c) = LastChanged(d) /\ Before(c, d)
    \/ c = d /\ s < t

Tried(c, s) ==
    \E n \in 1 .. Len(attempts) : attempts[n] = <<VersionsOf(c), SourceOrder[s]>>

\* The last attempt.
LastPlaces == [p \in Pins |-> PlaceOf(attempts[Len(attempts)][1], p)]
LastSource == CHOOSE s \in SourceIndexes : SourceOrder[s] = attempts[Len(attempts)][2]

\* What resolves is what the search should prefer: when an attempt resolves,
\* the source it resolved on lists every replacement in it, and every choice
\* that is to be tried sooner and is open to its source was tried and failed.
ChosenFirst ==
    phase = "stopped" /\ code = "resolved" =>
        /\ Open(LastPlaces, LastSource)
        /\ \A c \in Selections, s \in SourceIndexes :
              Open(c, s) /\ Sooner(c, s, LastPlaces, LastSource) => Tried(c, s)

\* EXHAUSTED is said only of a search that used up what it discovered: every
\* pin was looked up, every choice its options leave was tried on every
\* source open to it, no source was left unasked and no entry unread for want
\* of observations.  It is not a promise about what an index holds: the code
\* says EXHAUSTED too when a provider stopped at candidates_bounded's limit,
\* listed more than _MAX_PROVIDER_RELEASES or raised, and of options beyond
\* the candidate limit.
ExhaustedIsComplete ==
    code = "EXHAUSTED" =>
        /\ Len(options) = Len(Originals)
        /\ \A c \in Selections, s \in SourceIndexes : Open(c, s) => Tried(c, s)
        /\ ~passedOver
=============================================================================
