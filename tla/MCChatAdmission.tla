-------------------------- MODULE MCChatAdmission --------------------------
(* Model-checking instances of ChatAdmission: who asks for what, and how.  *)
EXTENDS ChatAdmission, TLC

CONSTANTS a1, a2, a3, r1, r2, s1, s2

\* Two reconnects of one UUID beside another UUID, of the same subject or not.
ReconnectRequest == a1 :> r1 @@ a2 :> r1 @@ a3 :> r2
OneSubject       == r1 :> s1 @@ r2 :> s1
Apart            == r1 :> s1 @@ r2 :> s2
ReconnectModes   == a1 :> {"v1"} @@ a2 :> {"v2"} @@ a3 :> {"v2"}

\* Two UUIDs of one subject, each answered in any way.
PairRequest      == a1 :> r1 @@ a2 :> r2
AnyMode          == [a \in Attempt |-> {"v1", "v2", "unsafe"}]

=============================================================================
