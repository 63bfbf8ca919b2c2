--------------------------- MODULE MCReleaseHost ---------------------------
EXTENDS ReleaseHost

\* Three releases; the second is built with another embedding image.
MCReleases == {"r1", "r2", "r3"}
MCEmb == [r \in MCReleases |-> IF r = "r2" THEN "e2" ELSE "e1"]
=============================================================================
