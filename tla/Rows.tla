--------------------------------- MODULE Rows ---------------------------------
(***************************************************************************)
(* What a session does with the rows it has loaded.                        *)
(*                                                                         *)
(* A request loads a row, sets attributes of its copy and flushes.  The    *)
(* statement names only the columns whose value differs from the one that  *)
(* was loaded: the others keep what other requests have committed in the   *)
(* meantime.  It meets no row when the row has been deleted, and the       *)
(* request fails then.                                                     *)
(***************************************************************************)

\* Mutant of Written: the statement names every column.
WrittenWhole(row, copy, image) == image

Written(row, copy, image) ==
  [c \in DOMAIN row |-> IF image[c] # copy[c] THEN image[c] ELSE row[c]]

\* A row with another value in a column, or as it is when the request leaves the
\* field out (None).
Given(row, column, value) == IF value = "none" THEN row ELSE [row EXCEPT ![column] = value]
=============================================================================
