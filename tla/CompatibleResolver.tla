-------------------------- MODULE CompatibleResolver --------------------------
(***************************************************************************)
(* CompatibleResolver.resolve of resolver/compatible.py: first the          *)
(* requirements as they are on every package source, then, pin by pin, the  *)
(* releases the sources list for the pin are looked up and every combination *)
(* of allowed replacements up to that pin is tried, until one resolves, a    *)
(* limit is met or nothing is left.                                         *)
(*                                                                         *)
(* A version is <<major, minor, micro, final>>, final being 0 for a          *)
(* prerelease.  What pip says of an attempt and what an index lists are      *)
(* chosen freely.  Of a release, python is what its Requires-Python says of   *)
(* the target and wheels the kinds of files it lists.  Rejections and         *)
(* version changes are reports and left out.                                 *)
(***************************************************************************)
EXTENDS PackageSources, FiniteSets

CONSTANTS
    Originals,        \* original version of each relaxable pin, a sequence
    Releases,         \* pin -> releases an index may list of it
    Malformed,        \* an entry of an index that is no release
    MaxReleases,      \* _MAX_PROVIDER_RELEASES
    MaxObservations,  \* max_observations
    MaxCombinations,  \* max_combinations
    MaxCandidates,    \* ResolveLimits.max_candidates_per_requirement
    MaxAttempts,      \* ResolveLimits.max_resolution_attempts
    MaxListed         \* bound: entries an index lists of one package

Pins == 1 .. Len(Originals)
Versions == Nat \X Nat \X Nat \X {0, 1}

ASSUME ResolverAssumption ==
    /\ Originals \in Seq(Versions)
    /\ \A pin \in Pins : IsFiniteSet(Releases[pin])
    /\ \A pin \in Pins : \A r \in Releases[pin] \ {Malformed} :
          /\ r.version \in Versions /\ r.yanked \in BOOLEAN
          /\ r.python \in {"any", "includes", "excludes", "malformed"}
          /\ r.wheels \subseteq {"target", "foreign", "malformed", "too many"}
    /\ {MaxReleases, MaxObservations, MaxCombinations, MaxCandidates, MaxAttempts}
           \subseteq Nat \ {0}
    /\ MaxListed \in Nat

VARIABLES
    phase,      \* what resolve does next
    code,       \* how it ended, "none" while it runs
    attempts,   \* the strict attempts made, as <<versions, source>>
    pin,        \* the pin whose candidates are looked up or tried
    source,     \* index in SourceOrder of the next source to ask
    observed,   \* what the sources listed for the pin: <<source, release>>
    accepted,   \* _ObservationBudget.accepted
    truncated,  \* _ObservationBudget.truncated
    incomplete, \* discovery_incomplete of the pin
    options,    \* _CandidateOptions of the pins looked up so far
    left,       \* combinations of the frontier that were not visited yet
    visited,    \* _CombinationBudget.visited
    chosen,     \* the combination being tried, as versions per pin
    viable,     \* indexes of the sources it is still to be tried on
    bounded,    \* the provider has candidates_bounded
    passedOver  \* an entry within MaxReleases was not looked at, or a source
                \* not asked, for want of observations

resolverVars == <<phase, code, attempts, pin, source, observed, accepted,
                  truncated, incomplete, options, left, visited, chosen,
                  viable, bounded, passedOver>>

ResolverInit ==
    /\ phase = "originals" /\ code = "none"
    /\ attempts = <<>>
    /\ pin = 1 /\ source = 1
    /\ observed = {} /\ accepted = 0
    /\ truncated = FALSE /\ incomplete = FALSE
    /\ options = <<>>
    /\ left = {} /\ visited = 0
    /\ chosen = Originals /\ viable = {}
    /\ bounded \in BOOLEAN
    /\ passedOver = FALSE

-----------------------------------------------------------------------------
(* Which releases may replace a pin, and in which order (candidates.py).    *)

IsPrerelease(v) == v[4] = 0

_within_boundary(original, v) ==
    v[1] = original[1] /\ (original[1] = 0 => v[2] = original[2])

Newer(v, w) ==
    \E i \in 1 .. 4 : v[i] > w[i] /\ \A j \in 1 .. i - 1 : v[j] = w[j]

\* same_minor_higher, same_minor_lower, higher_minors, lower_minors.
Group(original, v) ==
    CASE v[2] = original[2] /\ Newer(v, original) -> 1
      [] v[2] = original[2] /\ ~Newer(v, original) -> 2
      [] v[2] > original[2] -> 3
      [] v[2] < original[2] -> 4

\* Upwards among the higher versions, downwards among the lower ones.
Preferred(original, v, w) ==
    \/ Group(original, v) < Group(original, w)
    \/ /\ Group(original, v) = Group(original, w)
       /\ IF Group(original, v) \in {1, 3} THEN Newer(w, v) ELSE Newer(v, w)

Candidates(original, available) ==
    {v \in available :
        /\ v # original
        /\ IsPrerelease(v) => IsPrerelease(original)
        /\ _within_boundary(original, v)}

ordered_candidates(original, available) ==
    LET all == Candidates(original, available)
    IN  [n \in 1 .. Cardinality(all) |->
           CHOOSE v \in all :
              Cardinality({w \in all : Preferred(original, w, v)}) = n - 1]

\* The source itself lists the original as yanked.
OriginalYanked(obs, original, s) ==
    \E o \in obs :
        o[1] = s /\ o[2].version = original /\ o[2].yanked

\* No Requires-Python, or one that holds of the target's Python.
_python_compatible(release) == release.python \in {"any", "includes"}

\* A file that is a wheel of the release and fits the target; malformed and
\* foreign names are skipped, too many names refused altogether.
_has_target_wheel(release) ==
    "target" \in release.wheels /\ "too many" \notin release.wheels

FitsTarget(release) == _python_compatible(release) /\ _has_target_wheel(release)

\* The sources that list version v in a form that may replace the pin.
EligibleSources(obs, original, v) ==
    {s \in Sources :
        \E o \in obs :
            /\ o[1] = s /\ o[2].version = v /\ FitsTarget(o[2])
            /\ o[2].yanked => OriginalYanked(obs, original, s)}

_candidate_options_for_observations(obs, original) ==
    LET available == {v \in {o[2].version : o \in obs} :
                         EligibleSources(obs, original, v) # {}}
        ordered   == ordered_candidates(original, available)
        accept    == IF Len(ordered) < MaxCandidates
                       THEN Len(ordered) ELSE MaxCandidates
        versions  == SubSeq(ordered, 1, accept)
    IN  [versions |-> versions,
         eligible |-> [n \in 1 .. accept |-> EligibleSources(obs, original, versions[n])]]

-----------------------------------------------------------------------------
(* Stopping: the result, or CompatibilityResolutionError with its code.     *)

Stop(how) == phase' = "stopped" /\ code' = how

\* Where _guard is called.
Guarded ==
    \/ phase \in {"originals", "pin", "discover", "try"}
    \/ phase = "frontier" /\ left # {}

Deadline ==
    /\ Guarded
    /\ Stop("TIMEOUT")
    /\ UNCHANGED <<attempts, pin, source, observed, accepted, truncated, incomplete, options,
                   left, visited, chosen, viable, bounded, passedOver>>

AttemptLimit ==
    /\ Guarded /\ Len(attempts) >= MaxAttempts
    /\ Stop("ATTEMPT_LIMIT")
    /\ UNCHANGED <<attempts, pin, source, observed, accepted, truncated, incomplete, options,
                   left, visited, chosen, viable, bounded, passedOver>>

Guard == Len(attempts) < MaxAttempts

\* _attempt: pip resolves the chosen versions or not, the deadline passes
\* while it runs, or something else than a ResolverError comes out of it.
Strict(s, Fails) ==
    \/ attempts' = Append(attempts, <<chosen, SourceOrder[s]>>) /\ Fails
    \/ /\ attempts' = Append(attempts, <<chosen, SourceOrder[s]>>)
       /\ \E how \in {"resolved", "TIMEOUT"} : Stop(how)
    \/ UNCHANGED attempts /\ Stop("raised")

TryOriginals ==
    /\ phase = "originals" /\ Guard
    /\ Strict(source, phase' = (IF source < Len(SourceOrder) THEN "originals"
                                ELSE IF Originals = <<>> THEN "end" ELSE "pin")
                      /\ UNCHANGED code)
    /\ source' = IF source < Len(SourceOrder) THEN source + 1 ELSE 1
    /\ UNCHANGED <<pin, observed, accepted, truncated, incomplete, options, left, visited,
                   chosen, viable, bounded, passedOver>>

-----------------------------------------------------------------------------
(* _discover_candidates of one pin.                                         *)

\* Mutant: one observation too many.
remainingPlusOne == MaxObservations - accepted + 1

\* _ObservationBudget.remaining.
remaining == MaxObservations - accepted

StartPin ==
    /\ phase = "pin" /\ Guard
    /\ phase' = "discover"
    /\ source' = 1 /\ observed' = {}
    /\ UNCHANGED <<code, attempts, pin, accepted, truncated, incomplete, options, left,
                   visited, chosen, viable, bounded, passedOver>>

\* Mutant: one pin is replaced at a time.
FrontierOnePin(p, opts) ==
    {c \in [1 .. p -> 0 .. MaxCandidates] :
        /\ \A i \in 1 .. p - 1 : c[i] = 0
        /\ c[p] \in 1 .. Len(opts[p].versions)}

\* The combinations a pin adds: options (or the original, as 0) of the pins
\* before it, and one option of its own.
Frontier(p, opts) ==
    {c \in [1 .. p -> 0 .. MaxCandidates] :
        /\ \A i \in 1 .. p : c[i] <= Len(opts[i].versions)
        /\ c[p] > 0}

\* The observations of the pin become its options, and its frontier starts.
Discovered(seen, cutShort) ==
    LET opts == Append(options, _candidate_options_for_observations(seen, Originals[pin]))
    IN  /\ phase' = "frontier"
        /\ options' = opts
        /\ incomplete' = cutShort
        /\ left' = Frontier(pin, opts)

\* No observation is left before this source is asked.
OutOfObservations ==
    /\ phase = "discover" /\ Guard /\ remaining = 0
    /\ truncated' = TRUE
    /\ Stop("RESOURCE_LIMIT")
    /\ UNCHANGED <<attempts, pin, source, observed, accepted, incomplete, options, left,
                   visited, chosen, viable, bounded, passedOver>>

\* Sources are left and no observation for them.
SourcesLeft == MaxObservations = accepted' /\ source < Len(SourceOrder)

\* The smallest of a set of numbers.
Least(numbers) == CHOOSE n \in numbers : \A m \in numbers : n <= m

\* What comes after a source was asked: the next one, or the options.
AfterSource(limitHit) ==
    IF source = Len(SourceOrder) \/ MaxObservations = accepted'
      THEN /\ LET last == source = Len(SourceOrder)
              IN  /\ truncated' = (limitHit \/ ~last)
                  /\ Discovered(observed', limitHit \/ ~last)
           /\ UNCHANGED source
      ELSE /\ truncated' = limitHit
           /\ source' = source + 1
           /\ UNCHANGED <<phase, options, incomplete, left>>

\* What an index may list: one version more than once too, as '1.0' and
\* '1.0.0' are the same version.
Listings(p) == {listed \in SUBSET Releases[p] : Cardinality(listed) <= MaxListed}

\* The provider answers.  Entries are looked at up to MaxReleases of them and
\* as far as the observations go; only an entry that reserve() refuses marks
\* the budget truncated, and a provider with candidates_bounded returns no
\* more entries than are left.
Discover ==
    /\ phase = "discover" /\ Guard /\ remaining > 0
    /\ \E listed \in Listings(pin) : \E seen \in SUBSET listed :
          LET refused == /\ ~bounded
                         /\ Cardinality(listed) > remaining /\ remaining < MaxReleases
          IN  /\ Cardinality(seen) = Least({Cardinality(listed), remaining, MaxReleases})
              /\ accepted' = accepted + Cardinality(seen)
              /\ observed' = observed \cup {<<SourceOrder[source], r>> : r \in seen \ {Malformed}}
              /\ AfterSource(truncated \/ refused)
              /\ passedOver' = (passedOver \/ SourcesLeft
                                  \/ (/\ ~bounded
                                      /\ seen # listed /\ Cardinality(seen) < MaxReleases))
    /\ UNCHANGED <<code, attempts, pin, visited, chosen, viable, bounded>>

\* The provider raises, perhaps after some entries: the source counts as
\* listing nothing, and what was reserved stays reserved.
DiscoverRaises ==
    /\ phase = "discover" /\ Guard /\ remaining > 0
    /\ \E reserved \in 0 .. Least({MaxListed, remaining, MaxReleases}) :
          accepted' = accepted + reserved
    /\ UNCHANGED observed
    /\ AfterSource(truncated)
    /\ passedOver' = (passedOver \/ SourcesLeft)
    /\ UNCHANGED <<code, attempts, pin, visited, chosen, viable, bounded>>

-----------------------------------------------------------------------------
(* _attempt_candidate_frontier: itertools.product over the options of the   *)
(* pins before, the options of this pin innermost.                          *)

Before(c, d) ==
    \E i \in DOMAIN c : c[i] < d[i] /\ \A j \in 1 .. i - 1 : c[j] = d[j]

\* Mutant: the options of the first pin vary fastest.
NextCombinationFirstFastest ==
    CHOOSE c \in left : \A d \in left \ {c} :
        \E i \in DOMAIN c : c[i] < d[i] /\ \A j \in i + 1 .. Len(c) : c[j] = d[j]

NextCombination == CHOOSE c \in left : \A d \in left \ {c} : Before(c, d)

VersionsOf(c) ==
    [p \in Pins |-> IF p \in DOMAIN c /\ c[p] > 0
                      THEN options[p].versions[c[p]] ELSE Originals[p]]

_source_supports_substitutions(s, c) ==
    \A p \in DOMAIN c : c[p] > 0 => SourceOrder[s] \in options[p].eligible[c[p]]

\* The pairs tried in the frontiers, after the originals on every source.
attempted == {attempts[n] : n \in Len(SourceOrder) + 1 .. Len(attempts)}

Combine ==
    /\ phase = "frontier" /\ left # {} /\ Guard
    /\ visited < MaxCombinations
    /\ LET c == NextCombination
           supporting == {s \in SourceIndexes :
                            /\ <<VersionsOf(c), SourceOrder[s]>> \notin attempted
                            /\ _source_supports_substitutions(s, c)}
       IN  /\ chosen' = VersionsOf(c)
           /\ viable' = supporting
           /\ left' = left \ {c}
           /\ phase' = IF supporting = {} THEN "frontier" ELSE "try"
    /\ visited' = visited + 1
    /\ UNCHANGED <<code, attempts, pin, source, observed, accepted, truncated,
                   incomplete, options, bounded, passedOver>>

OutOfCombinations ==
    /\ phase = "frontier" /\ left # {} /\ Guard
    /\ visited >= MaxCombinations
    /\ Stop("RESOURCE_LIMIT")
    /\ UNCHANGED <<attempts, pin, source, observed, accepted, truncated, incomplete, options,
                   left, visited, chosen, viable, bounded, passedOver>>

TryCandidate ==
    /\ phase = "try" /\ Guard
    /\ \E s \in viable :
          /\ \A t \in viable : s <= t
          /\ viable' = viable \ {s}
          /\ Strict(s, phase' = (IF viable' = {} THEN "frontier" ELSE "try")
                       /\ UNCHANGED code)
    /\ UNCHANGED <<pin, source, observed, accepted, truncated, incomplete, options, left,
                   visited, chosen, bounded, passedOver>>

\* The frontier is exhausted: on to the next pin, unless the pins cannot be
\* looked up completely.
FrontierEnds ==
    /\ phase = "frontier" /\ left = {}
    /\ IF incomplete \/ (remaining = 0 /\ pin < Len(Originals))
         THEN Stop("RESOURCE_LIMIT") /\ truncated' = TRUE /\ UNCHANGED pin
         ELSE /\ IF pin < Len(Originals)
                   THEN phase' = "pin" /\ pin' = pin + 1
                   ELSE phase' = "end" /\ UNCHANGED pin
              /\ UNCHANGED <<code, truncated>>
    /\ UNCHANGED <<attempts, source, observed, accepted, incomplete, options, left, visited,
                   chosen, viable, bounded, passedOver>>

Exhaust ==
    /\ phase = "end"
    /\ Stop(IF truncated THEN "RESOURCE_LIMIT" ELSE "EXHAUSTED")
    /\ UNCHANGED <<attempts, pin, source, observed, accepted, truncated, incomplete, options,
                   left, visited, chosen, viable, bounded, passedOver>>

Search ==
    \/ TryOriginals \/ StartPin
    \/ OutOfObservations \/ Discover \/ DiscoverRaises
    \/ Combine \/ OutOfCombinations \/ TryCandidate \/ FrontierEnds \/ Exhaust
    \/ AttemptLimit

ResolverNext == Search \/ Deadline
=============================================================================
