-------------------------- MODULE MCKorailCategory --------------------------
(***************************************************************************)
(* A small instance of KorailCategory for TLC: five stations, two of one   *)
(* name, and an outsider that shares a name with a third.                  *)
(***************************************************************************)
EXTENDS KorailCategory, TLC

CONSTANTS s1, s2, s3, s4, s5, out

MCStations == {s1, s2, s3, s4, s5}
MCOutsiders == {out}
MCNames == {"A", "B", "C", "D"}
MCNameOf == s1 :> "A" @@ s2 :> "A" @@ s3 :> "B" @@ s4 :> "C" @@ s5 :> "D" @@ out :> "B"

\* The two of one name can be exchanged, and so can those whose name is theirs.
Symmetry == Permutations({s1, s2}) \cup Permutations({s4, s5})
=============================================================================
