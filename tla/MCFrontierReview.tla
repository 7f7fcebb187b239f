-------------------------- MODULE MCFrontierReview --------------------------
(***************************************************************************)
(* Three functions of one file, of which the second is cut into parts that *)
(* share packets with its neighbours when 3 lines fit, and which all fit   *)
(* together when 6 do; and one of another file without source.             *)
(***************************************************************************)
EXTENDS FrontierReview

MCFunctions == 1..4
MCFile == [f \in MCFunctions |-> IF f = 4 THEN "other" ELSE "main"]
MCLines == [f \in MCFunctions |-> CASE f = 2 -> 4 [] f = 4 -> 0 [] OTHER -> 1]
MCBudgets == {3, 6}
=============================================================================
