---------------------------- MODULE MLPipeline ------------------------------
(* The training workflow (exp/ml-pipeline): pca reduces the training data  *)
(* and divides a list of 16 hyper-parameters into bundles, trainer ID      *)
(* trains the models of bundle ID, combinemodels waits for all trainers.   *)
(* A hyper-parameter is its place in the list: all of them have the same   *)
(* value.                                                                  *)
EXTENDS Transfer

App == [flow     |-> <<"source", "pca", "trainer", "combinemodels", "sink">>,
        parallel |-> "trainer",
        wait     |-> {"combinemodels"},
        broker   |-> {"source", "sink"},
        sync     |-> FALSE]

upstream_num(stage, num) == num

HyperParams == 16
Items(num) == 1 .. HyperParams

(* source sends TRAINER_NUM along. *)
source(env) == Returns(<< >>, [trainer_num |-> env.num])

(* Mutant: the lists of a bundle are not emptied for the next one, so that *)
(* all bundles share them.                                                 *)
BundlesShared(num) ==
    LET size == CHOOSE count \in 1 .. HyperParams :
                    /\ count * num >= HyperParams
                    /\ (count - 1) * num < HyperParams
    IN  [b \in 1 .. HyperParams \div size |-> 1 .. HyperParams]

(* pca.post_handle: a bundle is closed as soon as count >= 16 / num; what  *)
(* is left over when the list ends is dropped.                             *)
post_handle(num) ==
    LET size == CHOOSE count \in 1 .. HyperParams :
                    /\ count * num >= HyperParams
                    /\ (count - 1) * num < HyperParams
    IN  [b \in 1 .. HyperParams \div size |-> (b - 1) * size + 1 .. b * size]

(* pca_rrpc leaves out the profile entry that pca reads next. *)
pca_dispatcher ==
    [ES |-> "store", RPC |-> "inline", RRPC |-> "KeyError",
     DMERGE |-> "object", DMERGE_PUSH |-> "object"]

(* The reduced training data are one item, which every trainer needs. *)
pca(env, meta) ==
    LET sent == Send(Way(pca_dispatcher, env), env, << >>,
                     <<"ML_Pipeline/train_pca_transform_2.txt", 0>>, << {1} >>)
    IN  IF sent.ok
        THEN [sent EXCEPT !.fields =
                Update(@, [indeces |-> post_handle(meta.fields.trainer_num)])]
        ELSE Raises

trainer_dispatcher ==
    [ES |-> "store", RPC |-> "inline", RRPC |-> "object",
     DMERGE |-> "object", DMERGE_PUSH |-> "object"]

(* train_tree, in child processes that trainer joins: the models are       *)
(* stored under the mod_index of the bundle, so that each hyper-parameter  *)
(* of it replaces the models of the one before.                            *)
train_tree(mod_index, bundle) ==
    Dict(<<"lightGBM_model", mod_index>>, {h \in bundle : \A g \in bundle : g <= h})

(* trainer_es, trainer_rpc, trainer_dmerge: the trainer reads its bundle   *)
(* and the data.  What the event says of the training is left out, as      *)
(* nobody reads it: return_dict has one key, the common value of the       *)
(* hyper-parameters, whose accuracy each training replaces.                *)
trainer(env, meta) ==
    LET bundle == Part(meta.fields.indeces, env.id)
        data   == Take(Way(trainer_dispatcher, env), env, meta, FALSE)
    IN  Reading(<< bundle, data >>,
                [Returns(<< bundle, data >>, << >>)
                 EXCEPT !.puts = train_tree(env.id + 1, bundle[1])])

(* combinemodels takes the last event on and averages the profiles; it     *)
(* reads no result of the trainers.                                        *)
combinemodels(env, metas) == Returns(<< >>, << >>)

sink(env) == Returns(<< >>, << >>)

handler(stage, env, metas) ==
    CASE stage = "source"        -> source(env)
      [] stage = "pca"           -> pca(env, metas[1])
      [] stage = "trainer"       -> trainer(env, metas[1])
      [] stage = "combinemodels" -> combinemodels(env, metas)
      [] stage = "sink"          -> sink(env)
=============================================================================
