---------------------------- MODULE MCFileTables ----------------------------
(***************************************************************************)
(* A small instance of FileTables for TLC: up to three rows below a        *)
(* header, limits that the largest sheets and the largest declared sizes   *)
(* exceed, one row known to be exchanged.                                  *)
(***************************************************************************)
EXTENDS FileTables, TLC

CONSTANTS maglev, other

MCHeaders ==
    {<<"key", "lon", "lat">>, <<"more", "key">>, <<"key", "lat", "lon", "more">>,
     <<"lat", "key", "lon", "lat">>, <<"key", "lon", Blank, "lat">>, <<"lon", "lat">>, <<>>}

\* Exchanged and right coordinates of both stations, impossible ones, and rows
\* that lack something, up to everything.
MCLines ==
    {<<maglev, 37, 126>>, <<maglev, 126, 37>>, <<maglev, 38, 126>>, <<other, 37, 126>>,
     <<other, 37, 126, other>>, <<other, other, 37>>, <<Blank, 126, 37>>, <<other, Blank, 37>>,
     <<38, other, 126, 37>>, <<other>>, <<Blank, Blank>>, <<>>}

MCKnown == maglev :> <<37, 126>>
=============================================================================
