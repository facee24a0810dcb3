---------------------------- MODULE MCBuildStages ----------------------------
(* An instance with two pins, of a release and of a 0.x version, and two     *)
(* package sources.                                                         *)
EXTENDS BuildStages

CONSTANTS s1, s2

Release(version, yanked, python, files) ==
    [version |-> version, yanked |-> yanked, python |-> python, wheels |-> files]

MCSourceOrder == <<s1, s2>>

MCOriginals == << <<1, 1, 0, 1>>, <<0, 1, 1, 1>> >>

\* Of the first pin: the original, yanked; its next micro version, yanked
\* or not; a prerelease of that; a lower minor version; no release.
\* Of the second: higher and lower micro versions, one with too many files
\* and one for another Python, another minor version.
MCReleases ==
    << {Release(<<1, 1, 0, 1>>, TRUE, "any", {"target"}),
        Release(<<1, 1, 2, 1>>, FALSE, "includes", {"target", "foreign"}),
        Release(<<1, 1, 2, 1>>, TRUE, "any", {"target"}),
        Release(<<1, 1, 2, 0>>, FALSE, "any", {"target"}),
        Release(<<1, 0, 9, 1>>, FALSE, "any", {"target", "malformed"}), Malformed},
       {Release(<<0, 1, 2, 1>>, FALSE, "any", {"target"}),
        Release(<<0, 1, 0, 1>>, FALSE, "any", {"target"}),
        Release(<<0, 1, 3, 1>>, FALSE, "excludes", {"target"}),
        Release(<<0, 2, 0, 1>>, FALSE, "malformed", {"target", "too many"})} >>
=============================================================================
