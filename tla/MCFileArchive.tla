---------------------------- MODULE MCFileArchive ----------------------------
(***************************************************************************)
(* A small instance of FileArchive for TLC: a file as it should be, and    *)
(* one that is longer than the limit and that no parser accepts in part.   *)
(***************************************************************************)
EXTENDS FileArchive, TLC

CONSTANTS sound, long

MCFiles == {sound, long}

LengthOf == sound :> 2 @@ long :> 3
MCLength == [f \in Files |-> LengthOf[f]]

\* A workbook is readable only as a whole. Of a CSV file the first rows are.
MCReadable ==
    [o \in Parsing |->
        IF o = "guideline" THEN {<<sound, 1>>, <<sound, 2>>} ELSE {<<sound, 2>>}]
=============================================================================
