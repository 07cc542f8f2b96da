------------------------------ MODULE MCStores ------------------------------
(***************************************************************************)
(* Stores for TLC: the sizes and the symmetry.                             *)
(***************************************************************************)
EXTENDS Stores, TLC

CONSTANTS t1, t2

(* Two accounts of one pool when commands fail, of two pools otherwise.      *)
MCToken == {t1, t2}
Symmetry == Permutations(MCToken)

(* Two processes in one directory, with or without a runtime store; what the *)
(* handlers of one process do to each other is MCServices' part.             *)
MCDirOf == [p |-> "d", q |-> "d"]
MCKinds == <<"refresh">>
MCStoreKeys == {Free, NoStore}

(* Three accounts on two pages, one of them deleted, two with local uses.    *)
MCPages == << <<"a", "b">>, <<"c">> >>
MCUses == [a |-> 2, b |-> 0, c |-> 1]

(* One flow of any kind and a batch that renews the same account.            *)
MCFlowKinds == [f |-> {"chat", "responses", "models", "billing", "renew", "cleanup"}, g |-> {"renew"}]
Bill(limit, used, cap, onUsed, prepaid, period) ==
    [limit |-> limit, used |-> used, cap |-> cap, onUsed |-> onUsed, prepaid |-> prepaid, period |-> period]
MCPayloads == {Bill(2, 1, 0, 0, 0, 0), Bill(0, 0, 1, 1, 1, 2)}
=============================================================================
