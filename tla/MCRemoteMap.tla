---------------------------- MODULE MCRemoteMap ----------------------------
(* Instances of RemoteMap: producer p and RPC thread w1 on machine m1,     *)
(* consumers c and d and RPC thread w2 on machine m2.                      *)
EXTENDS RemoteMapRefinement, TLC

CONSTANTS m1, m2, p, c, d, w1, w2

MCHome == [t \in Threads |-> IF t \in {p, w1} THEN m1 ELSE m2]

AnyMachine   == [h \in Handlers |-> Machines]
OtherMachine == [h \in Handlers |-> Machines \ {MCHome[h]}]

(* p produces, the others consume. *)
UsesPull == [h \in Handlers |-> IF h = p THEN {"register"}
                                ELSE {"connect", "pull"}]

(* Every process gives its heap to the other machine. *)
UsesGive == [h \in Handlers |-> {"connect", "give"}]

(* The consumers' pulls and gives share the caller of their CPU. *)
UsesMixed == [h \in Handlers |-> IF h = p THEN {"register", "connect"}
                                 ELSE {"connect", "pull", "give"}]

(* c and d run on the same machine and make the same calls. *)
ConsumerSymmetry == Permutations({c, d})
=============================================================================
