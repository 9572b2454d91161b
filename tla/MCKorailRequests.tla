-------------------------- MODULE MCKorailRequests --------------------------
(***************************************************************************)
(* A small instance of KorailRequests for TLC.                             *)
(***************************************************************************)
EXTENDS KorailRequests
=============================================================================
