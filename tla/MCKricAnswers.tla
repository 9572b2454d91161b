--------------------------- MODULE MCKricAnswers ---------------------------
(***************************************************************************)
(* A small instance of KricAnswers for TLC: two routes, one of which has a *)
(* sequence number twice; whole arrays of up to four rows, defective ones  *)
(* of up to two.                                                           *)
(***************************************************************************)
EXTENDS KricAnswers

MCRows == {"a1", "a1again", "a2", "b1", "b2"}
MCRouteOf == [r \in MCRows |-> IF r \in {"b1", "b2"} THEN "b" ELSE "a"]
MCSequenceOf == [r \in MCRows |-> IF r \in {"a2", "b2"} THEN 2 ELSE 1]
MCArrays ==
    BoundedSeq(MCRows, 4) \cup BoundedSeq({"a1", "b1", "incomplete", "noObject"}, 2)
MCItems == {Bad, <<>>, <<"a1">>, <<"a2", "b1", "a1">>, <<"b1", "incomplete">>}
=============================================================================
