------------------------------- MODULE Micro --------------------------------
(* The micro-benchmark (exp/micro): the producer makes a list, every       *)
(* consumer reads it, the sink waits for all consumers.                    *)
EXTENDS Transfer

App == [flow     |-> <<"splitter", "producer", "consumer", "sink">>,
        parallel |-> "consumer",
        wait     |-> {"sink"},
        broker   |-> {"splitter"},
        sync     |-> FALSE]

upstream_num(stage, num) == num

dispatcher ==
    [ES |-> "store", RPC |-> "inline", DMERGE |-> "object", DMERGE_PUSH |-> "object"]

splitter(env) == Returns(<< >>, << >>)

(* producer_es takes a random key, which is a new one in each workflow.    *)
(* Under DMERGE_PUSH the heap is pushed twice, which changes nothing.      *)
producer(env) == Send(Way(dispatcher, env), env, << >>, <<"Data", env.wf>>, << {1} >>)

consumer(env, meta) ==
    LET read == << Take(Way(dispatcher, env), env, meta, TRUE) >>
    IN  Reading(read, Returns(read, << >>))

sink(env, metas) == Returns(<< >>, << >>)

handler(stage, env, metas) ==
    CASE stage = "splitter" -> splitter(env)
      [] stage = "producer" -> producer(env)
      [] stage = "consumer" -> consumer(env, metas[1])
      [] stage = "sink"     -> sink(env, metas)
=============================================================================
