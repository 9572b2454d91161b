------------------------- MODULE MCMaritimeAnswers -------------------------
(***************************************************************************)
(* A small instance of MaritimeAnswers for TLC: lists of up to two rows    *)
(* under counts that are right, too small, too large and negative.         *)
(***************************************************************************)
EXTENDS MaritimeAnswers

MCRows == {"a", "b"}
MCRowLists == {<<"a">>, <<"a", "b">>, <<"b", "incomplete">>}
MCTotals == {-1, 0, 1, 2}
=============================================================================
