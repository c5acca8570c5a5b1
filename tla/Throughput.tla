----------------------------- MODULE Throughput -----------------------------
(* The throughput test (exp/thpt): the functions of the micro-benchmark    *)
(* call each other over HTTP.  A process posts its result to the next      *)
(* service and answers when that one has answered; meanwhile it serves     *)
(* nobody else.                                                            *)
EXTENDS Transfer

App == [flow     |-> <<"splitter", "producer", "consumer">>,
        parallel |-> "consumer",
        wait     |-> {},
        broker   |-> {"splitter"},
        sync     |-> TRUE]

producer_dispatcher ==
    [ES |-> "store", RPC |-> "inline", DMERGE |-> "object", MITOSIS |-> "object",
     DMERGE_PUSH |-> "object", ESRDMA |-> "object"]

splitter(env) == Returns(<< >>, << >>)

producer(env) ==
    Send(Way(producer_dispatcher, env), env, << >>, <<"obj.txt", 0>>, << {1} >>)

(* The consumer needs the fields of the event, but under ES and DMERGE it  *)
(* only spends the time of a fetch: it uses a local copy, or nothing.      *)
consumer(env, meta) ==
    LET way   == Way(producer_dispatcher, env)
        field == CASE way = "store"  -> "s3_obj_key"
                   [] way = "inline" -> "payload"
                   [] way = "object" -> "route"
                   [] OTHER -> "none"
    IN  IF field \in DOMAIN meta.fields THEN Returns(<< >>, << >>) ELSE Raises

handler(stage, env, metas) ==
    CASE stage = "splitter" -> splitter(env)
      [] stage = "producer" -> producer(env)
      [] stage = "consumer" -> consumer(env, metas[1])
=============================================================================
