------------------------------- MODULE Digits -------------------------------
(* The digit recognition workflow (exp/digital-minist): the splitter cuts  *)
(* the test data into WORKER_NUM parts, predict ID classifies part ID,     *)
(* combine waits for all predictions.                                      *)
EXTENDS Transfer

CONSTANT Rows   \* number of rows of the test data

App == [flow     |-> <<"splitter", "predict", "combine">>,
        parallel |-> "predict",
        wait     |-> {"combine"},
        broker   |-> {"splitter"},
        sync     |-> FALSE]

upstream_num(stage, num) == num

Items(num) == 1 .. Rows

(* numpy.array_split: the first Rows % num parts have one row more. *)
array_split(num) ==
    LET start(i) == i * (Rows \div num) + (IF i < Rows % num THEN i ELSE Rows % num) IN
    [i \in 1 .. num |-> start(i - 1) + 1 .. start(i)]

dispatcher ==
    [ES |-> "store", RPC |-> "inline", RRPC |-> "store",
     DMERGE |-> "object", DMERGE_PUSH |-> "object"]

(* splitter_es stores every part under a key of its own, and the model     *)
(* (not modelled: it is the same file everywhere).                         *)
splitter(env) ==
    LET parts == array_split(env.num) IN
    IF Way(dispatcher, env) = "store"
    THEN [Returns(<< >>, [s3_obj_key_data |-> env.num])
          EXCEPT !.puts = [k \in {<<"digit", i>> : i \in 0 .. env.num - 1} |->
                             << parts[k[2] + 1] >>]]
    ELSE Send(Way(dispatcher, env), env, << >>, <<"digit", 0>>, parts)

(* execute_body: an array made from an empty list has one dimension, and   *)
(* data[:, 1:] raises.                                                     *)
Columns(way, data) == IF way = "object" /\ data = << {} >> THEN Missing ELSE data

predict(env, meta) ==
    LET way  == Way(dispatcher, env)
        mine == IF way = "store"
                THEN IF env.id < meta.fields.s3_obj_key_data
                     THEN redis_get(<<"digit", env.id>>) ELSE Missing
                ELSE Columns(way, Part(Take(way, env, meta, TRUE), env.id))
    IN  Reading(<< mine >>, Send(way, env, << mine >>, <<"y_pred", env.id>>, mine))

combine(env, metas) ==
    LET read == [n \in DOMAIN metas |-> Take(Way(dispatcher, env), env, metas[n], TRUE)]
    IN  Reading(read, Returns(read, << >>))

handler(stage, env, metas) ==
    CASE stage = "splitter" -> splitter(env)
      [] stage = "predict"  -> predict(env, metas[1])
      [] stage = "combine"  -> combine(env, metas)
=============================================================================
