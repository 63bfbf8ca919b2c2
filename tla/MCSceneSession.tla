--------------------------- MODULE MCSceneSession --------------------------
EXTENDS SceneSession, PublicChecks

\* The daily schedule of two days and two characters.
MCDaily == <<[a |-> "cafe", b |-> "park"], [a |-> "park", b |-> "cafe"]>>

\* Everything happens with a; b is only visited.
MCKinds == [a |-> {"chat", "resolve", "open", "join", "keep", "cancel"},
            b |-> {"join", "transition"}]

\* Only the scene of a is decided about on a new day.
MCWishes == [a |-> {"continue", "start"}, b |-> {}]
=============================================================================
