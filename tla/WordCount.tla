----------------------------- MODULE WordCount ------------------------------
(* The word count workflow (exp/wordcount): the splitter cuts a text into  *)
(* MAPPER_NUM parts, mapper ID counts the words of part ID, the reducer    *)
(* waits for all of them and adds the counts up.                           *)
EXTENDS Transfer

CONSTANT Lines   \* number of lines of the text

(* Mutant: the reducer does not wait. *)
AppNoWait == [flow     |-> <<"splitter", "mapper", "reducer">>,
              parallel |-> "mapper",
              wait     |-> {},
              broker   |-> {"splitter"},
              sync     |-> FALSE]

(* handler_dispatch, and the flow of service.yaml: wait tells the stages   *)
(* that wait for all their upstream events, broker those whose events come *)
(* through the broker.                                                     *)
App == [flow     |-> <<"splitter", "mapper", "reducer">>,
        parallel |-> "mapper",
        wait     |-> {"reducer"},
        broker   |-> {"splitter"},
        sync     |-> FALSE]

upstream_num(stage, num) == num

Items(num) == 1 .. Lines

(* Mutant: the lines are divided by the number of mappers, rounding down. *)
SplitDown(num) ==
    [i \in 1 .. num |-> {l \in 1 .. Lines : /\ l > (i - 1) * (Lines \div num)
                                            /\ l <= i * (Lines \div num)}]

(* splitter.execute_body: slices of ceil(total / num) lines *)
split(num) ==
    LET per_file == (Lines + num - 1) \div num IN
    [i \in 1 .. num |-> {l \in 1 .. Lines : l > (i - 1) * per_file /\ l <= i * per_file}]

splitter_dispatcher ==
    [ES |-> "store", RPC |-> "inline", RRPC |-> "inline",
     DMERGE |-> "object", DMERGE_PUSH |-> "object"]

splitter(env) ==
    Send(Way(splitter_dispatcher, env), env, << >>, <<"text.txt", 0>>, split(env.num))

(* The result of every mapper has the same key. *)
mapper(env, meta) ==
    LET way  == Way(splitter_dispatcher, env)
        mine == Part(Take(way, env, meta, FALSE), env.id)
    IN  Reading(<< mine >>, Send(way, env, << mine >>, <<"/tmp/wc.txt", 0>>, mine))

reducer(env, metas) ==
    LET way  == Way(splitter_dispatcher, env)
        read == [n \in DOMAIN metas |-> Take(way, env, metas[n], FALSE)]
    IN  Reading(read, Returns(read, << >>))

handler(stage, env, metas) ==
    CASE stage = "splitter" -> splitter(env)
      [] stage = "mapper"   -> mapper(env, metas[1])
      [] stage = "reducer"  -> reducer(env, metas)
=============================================================================
