----------------------------- MODULE MCDolSplit -----------------------------
(***************************************************************************)
(* The executable with two files of the user, and REL modules.             *)
(***************************************************************************)
EXTENDS DolSplit

\* The executable has both files; symbols.txt is not there yet.
MCFiles == {Splits(Dol), Symbols(Dol)}
MCPresent == {Splits(Dol)}
=============================================================================
