------------------------------- MODULE Finra --------------------------------
(* The audit workflow (exp/finra): service fetchData with ID 0 fetches the *)
(* market data (item 1), the one with ID 1 the portfolio (item 2);         *)
(* runAuditRule waits for both and checks the margin.                      *)
EXTENDS Transfer

App == [flow     |-> <<"source", "fetchData", "runAuditRule", "sink">>,
        parallel |-> "fetchData",
        wait     |-> {"runAuditRule", "sink"},
        broker   |-> {"source", "sink"},
        sync     |-> FALSE]

upstream_num(stage, num) == IF stage = "runAuditRule" THEN 2 ELSE 1

Items(num) == {1, 2}

source(env) == Returns(<< >>, << >>)

(* The market data are handed over by protocol, the portfolio inside the   *)
(* event.  body tells the two kinds of event apart.                        *)
public_data_dispatcher ==
    [ES |-> "store", RPC |-> "inline", RRPC |-> "store",
     DMERGE |-> "object", DMERGE_PUSH |-> "object"]

fetch_market_data(env) ==
    LET sent == Send(Way(public_data_dispatcher, env), env, << >>,
                     <<"whole_data", 0>>, << {1} >>)
    IN  IF sent.ok THEN [sent EXCEPT !.fields = Update(@, [body |-> "marketData"])]
                   ELSE Raises

fetchData(env) ==
    CASE env.id = 0 -> fetch_market_data(env)
      [] env.id = 1 -> Returns(<< >>, [body |-> "valid"])
      [] OTHER      -> Raises

(* Mutant: the data stored in redis are looked for in the event. *)
PublicInEvent ==
    [ES |-> "inline", RPC |-> "inline", RRPC |-> "inline",
     DMERGE |-> "object", DMERGE_PUSH |-> "object"]

(* dispatcher: under RRPC the receiver does not look where the sender puts *)
(* the data.                                                               *)
handle_public ==
    [ES |-> "store", RPC |-> "inline", RRPC |-> "inline",
     DMERGE |-> "object", DMERGE_PUSH |-> "object"]

(* checkMarginBalance fails without prices, portfolio is unbound without a *)
(* portfolio event.                                                        *)
runAuditRule(env, metas) ==
    LET read == [n \in DOMAIN metas |->
                   IF metas[n].fields.body = "marketData"
                   THEN Take(Way(handle_public, env), env, metas[n], TRUE)
                   ELSE << {2} >>]
        bodies == {metas[n].fields.body : n \in DOMAIN metas}
    IN  IF bodies = {"marketData", "valid"} THEN Reading(read, Returns(read, << >>))
                                            ELSE Raises

sink(env, metas) == Returns(<< >>, << >>)

handler(stage, env, metas) ==
    CASE stage = "source"       -> source(env)
      [] stage = "fetchData"    -> fetchData(env)
      [] stage = "runAuditRule" -> runAuditRule(env, metas)
      [] stage = "sink"         -> sink(env, metas)
=============================================================================
