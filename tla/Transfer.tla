------------------------------ MODULE Transfer ------------------------------
(***************************************************************************)
(* How a function of a workflow hands its result to the next one (util.py  *)
(* of the workflows).  PROTOCOL picks one of three ways:                   *)
(*   store:  the result goes to redis, the event names its key;            *)
(*   inline: the result travels inside the event;                          *)
(*   object: the result stays in the sender's heap (global_obj), which the *)
(*           sender registers; the event names the object, and the         *)
(*           receiver pulls the heap and reads the object there.           *)
(*                                                                         *)
(* What is handed over is a sequence of shares, a share being a set of     *)
(* work items (lines of a text, rows of a table, ...) numbered from 1.     *)
(***************************************************************************)
EXTENDS Naturals, Sequences

VARIABLES
    store,  \* redis: key -> what was put there last
    heap    \* heap[s]: the process of service s, as seen from outside

(* epoch:   its incarnation; the hint of an earlier one is unregistered    *)
(* gen:     number of the object global_obj holds, 0 before the first push *)
(* visible: does that object lie in the pages the registration described?  *)
FreshHeap(epoch) == [epoch |-> epoch, gen |-> 0, visible |-> TRUE]

Garbage == << >>       \* what is found where an object was
Missing == << {0} >>   \* an exception: KeyError, IndexError, failed assert

(* {key: value}, and dict.update(new) *)
Dict(key, value) == [k \in {key} |-> value]

Update(dict, new) ==
    [k \in DOMAIN dict \cup DOMAIN new |-> IF k \in DOMAIN new THEN new[k] ELSE dict[k]]

(* data[id] of a Python list or dictionary *)
Part(data, id) ==
    IF data \in {Garbage, Missing} THEN data
    ELSE IF id < Len(data) THEN << data[id + 1] >> ELSE Missing

(* An environment env of a handler: protocol, svc (the service that runs   *)
(* it), id and num (its ID and the number of parallel workers), wf, and    *)
(* pulled (does a pull of a registered heap succeed?).                     *)

-----------------------------------------------------------------------------
(* redis; loading the None of an unknown key raises. *)
redis_get(key) == IF key \in DOMAIN store THEN store[key] ELSE Missing

(* push: the object the sender has just put into global_obj. *)
push(env, data) == [svc   |-> env.svc,
                    epoch |-> heap[env.svc].epoch,
                    gen   |-> heap[env.svc].gen + 1,
                    data  |-> data]

(* Mutant: the object is held by a local variable only, so that it is      *)
(* collected when the handler returns.                                     *)
PushedLocal(svc, visible) ==
    [heap[svc] EXCEPT !.gen = @ + 1, !.visible = FALSE]

(* The sender's heap after it.  call_register describes the heap the first *)
(* time only and returns the same hint later.                              *)
Pushed(svc, visible) ==
    [heap[svc] EXCEPT !.gen = @ + 1, !.visible = visible]

(* pull returns 0 *)
pull(env, obj) == env.pulled /\ obj.epoch = heap[obj.svc].epoch

(* id_deref at the address the event names *)
fetch(obj) ==
    IF heap[obj.svc].gen = obj.gen /\ heap[obj.svc].visible
    THEN obj.data ELSE Garbage

-----------------------------------------------------------------------------
(* What a handler did: read is what it took from its events, puts what it  *)
(* stored, push whether it pushed an object, fields what its event carries *)
(* (fields no later handler reads are left out).                           *)
Returns(read, fields) ==
    [ok |-> TRUE, read |-> read, puts |-> << >>, push |-> FALSE,
     fields |-> fields]

Raises == [Returns(<< >>, << >>) EXCEPT !.ok = FALSE]

(* A handler whose reads may raise. *)
Reading(read, result) ==
    IF \E n \in DOMAIN read : read[n] = Missing THEN Raises ELSE result

(* dispatcher[protocol] *)
Way(dispatcher, env) ==
    IF env.protocol \in DOMAIN dispatcher THEN dispatcher[env.protocol]
                                          ELSE "KeyError"

(* The result data of a handler that has read `read' *)
Send(way, env, read, key, data) ==
    CASE way = "store"  -> [Returns(read, [s3_obj_key |-> key])
                            EXCEPT !.puts = Dict(key, data)]
      [] way = "inline" -> Returns(read, [payload |-> data])
      [] way = "object" -> [Returns(read, [route |-> push(env, data)])
                            EXCEPT !.push = TRUE]
      [] OTHER          -> Raises

(* What a handler takes from the event meta; `checked' handlers assert     *)
(* that the pull returned 0, the others read whatever is there.            *)
Take(way, env, meta, checked) ==
    LET has(f) == f \in DOMAIN meta.fields IN
    CASE way = "store"  /\ has("s3_obj_key") -> redis_get(meta.fields.s3_obj_key)
      [] way = "inline" /\ has("payload")    -> meta.fields.payload
      [] way = "object" /\ has("route")      ->
            IF pull(env, meta.fields.route) THEN fetch(meta.fields.route)
            ELSE IF checked THEN Missing ELSE Garbage
      [] OTHER -> Missing
=============================================================================
