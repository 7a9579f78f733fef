----------------------------- MODULE MCOutcomes -----------------------------
(* Outcomes for two requests on one token, which pays for both or for one. *)
(* With both paid every way of settling meets every other; with one, what  *)
(* the first has reserved or spent refuses the second at its balance gate or *)
(* at openHold.  The upstream refuses the operator in and out of the usual *)
(* status, the model, and everyone.                                        *)
EXTENDS Outcomes, TLC

CONSTANTS r1, r2, t1

MCRequests == {r1, r2}
MCTokens == {t1}
MCFlaws == {{}, {"content_length"}, {"no_token"}, {"json", "model"}, {"model", "premium"},
            {"premium"}, {"max_tokens"}}
MCSymmetry == Permutations(MCRequests)
MCTokenOf == [r \in MCRequests |-> t1]
MCOpenings == [MCTokens -> {2, 4}]
Reply(status, tag) == [status |-> status, tag |-> tag]
MCReplies == {Reply(401, ""), Reply(402, ""), Reply(400, "auth"), Reply(400, "billing"),
              Reply(400, "model"), Reply(529, "")}
=============================================================================
