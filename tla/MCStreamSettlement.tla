------------------------- MODULE MCStreamSettlement -------------------------
(* StreamSettlement with two requests.  They meet only in the drain, so    *)
(* one upstream sends every kind of chunk and the other only work to bill. *)
(* Usage prices above the hold, so the clamp of billActual is exercised.   *)
EXTENDS StreamSettlement

CONSTANTS q1, q2

MCRequests == {q1, q2}
MCChunks ==
  [r \in MCRequests |->
     {[evidence |-> Worked, failed |-> FALSE]} \cup
     IF r = q1 THEN [evidence : {Seen}, failed : BOOLEAN] ELSE {}]
=============================================================================
