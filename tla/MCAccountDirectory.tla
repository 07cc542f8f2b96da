------------------------- MODULE MCAccountDirectory -------------------------
(***************************************************************************)
(* Small instance of AccountDirectory: two pools, two modes, and two       *)
(* scenes.  Either two accounts move between pools and statuses while one  *)
(* request at a time is served, or one account is shared by all requests,  *)
(* one more than it may carry.                                             *)
(***************************************************************************)
EXTENDS AccountDirectory, TLC

CONSTANTS t1, t2, r1, r2, r3, basic, super, fast, auto

VARIABLE scene   \* "moves" or "shares"

MCSlot(p, s, ms, q, rs) ==
    [pool |-> p, status |-> s, modes |-> ms,
     quota |-> [m \in {fast, auto} |-> IF m \in ms THEN q ELSE -1],
     reset |-> [m \in {fast, auto} |-> IF m \in ms THEN rs ELSE 0]]

(* A fresh basic account, a basic account that waits for its window, a     *)
(* super account, and an expired one.                                      *)
MCSlots == { MCSlot(basic, "active", {fast}, 1, 0),
             MCSlot(basic, "active", {fast}, 0, 2),
             MCSlot(super, "active", {fast, auto}, 1, 0),
             MCSlot(basic, "expired", {fast}, 1, 0) }

MCPoolOrders == { <<basic, super>>, <<super>> }

Symmetry == Permutations({t1, t2}) \cup Permutations({r1, r2, r3})

(* The tokens a snapshot or a group may speak of, and who may act.         *)
Spoken == IF scene = "moves" THEN {Token} ELSE {{t} : t \in Token}
Synced(tokens) ==
    /\ Present \subseteq tokens
    /\ \/ \E items \in ItemSets(tokens) : Bootstrap(items)
       \/ \E deleted \in SUBSET tokens :
             \E items \in ItemSets(tokens \ deleted) : ApplyChanges(deleted, items)
Served(r) ==
    /\ scene = "moves" => \A q \in Request \ {r} : pc[q] = "idle"
    /\ Serve(r)

SceneNext ==
    /\ UNCHANGED scene
    /\ \/ \E tokens \in Spoken : Synced(tokens)
       \/ \E r \in Request : Served(r)
       \/ \E name \in {"quota", "random"} : SetStrategy(name)
       \/ Tick

SceneInit == Init /\ scene \in {"moves", "shares"}
SceneSpec == SceneInit /\ [][SceneNext]_<<vars, scene>>
=============================================================================
