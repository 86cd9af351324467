--------------------------- MODULE FileReplacement ---------------------------
(***************************************************************************)
(* What a user of snzip is promised about each file named on the command   *)
(* line, whatever happens to the process: the file is there unchanged      *)
(* until all of its conversion is on disk, and only then does it go.       *)
(*                                                                         *)
(* kept[n] says that item n is there as it was, converted[n] that its      *)
(* conversion is there and complete.  Writing the conversion may make it   *)
(* complete, and doing it again may make it incomplete, but only while     *)
(* the original is kept.                                                   *)
(***************************************************************************)
CONSTANT Items

VARIABLES kept, converted

TypeOK == kept \in [Items -> BOOLEAN] /\ converted \in [Items -> BOOLEAN]

Init == kept = [n \in Items |-> TRUE] /\ converted \in [Items -> BOOLEAN]

Rewrite(n) ==
  /\ kept[n]
  /\ converted' = [converted EXCEPT ![n] = ~@]
  /\ UNCHANGED kept

Remove(n) ==
  /\ kept[n] /\ converted[n]
  /\ kept' = [kept EXCEPT ![n] = FALSE]
  /\ UNCHANGED converted

Next == \E n \in Items : Rewrite(n) \/ Remove(n)

Spec == Init /\ [][Next]_<<kept, converted>>

(* Each item is kept or converted: nothing is lost.                        *)
Safe == \A n \in Items : kept[n] \/ converted[n]
=============================================================================
