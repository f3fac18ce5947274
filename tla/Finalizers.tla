----------------------------- MODULE Finalizers -----------------------------
(***************************************************************************)
(* Finalizers of src/runtime/finalize.c, kept in a splay tree ordered by   *)
(* the address of the object.  All operations run under finalizer_lock.    *)
(* The collector is what it promises: is_alive is true of every object     *)
(* that can be reached, and may be true of one that cannot; the memory of  *)
(* the others is free for new objects after the finalizers have run.       *)
(***************************************************************************)
EXTENDS SplayTree

CONSTANT Address    \* the addresses of objects

ASSUME AddressAssumption == Address \subseteq Nat

VARIABLES
    obj,            \* obj[a]: "none", "live" (can be reached) or "garbage"
    finalizer_set,  \* the tree
    freelist,       \* number of nodes in its freelist
    nodes,          \* number of nodes that the chunks hold
    wanted,         \* the finalizer set last for the object at a is not NULL
    ran,            \* number of times it has run
    finished        \* sml_finish has been called

finalizerVars == <<obj, finalizer_set, freelist, nodes, wanted, ran, finished>>

FinalizerInit ==
    /\ obj = [a \in Address |-> "none"]
    /\ finalizer_set = Nil /\ freelist = 0 /\ nodes = 0
    /\ wanted = [a \in Address |-> FALSE]
    /\ ran = [a \in Address |-> 0]
    /\ finished = FALSE

\* A new object
new_object(a) ==
    /\ ~finished /\ obj[a] = "none"
    /\ obj' = [obj EXCEPT ![a] = "live"]
    /\ wanted' = [wanted EXCEPT ![a] = FALSE]
    /\ ran' = [ran EXCEPT ![a] = 0]
    /\ UNCHANGED <<finalizer_set, freelist, nodes, finished>>

\* The program drops its last reference to the object
drop_object(a) ==
    /\ ~finished /\ obj[a] = "live"
    /\ obj' = [obj EXCEPT ![a] = "garbage"]
    /\ UNCHANGED <<finalizer_set, freelist, nodes, wanted, ran, finished>>

Item(a, f) == [key |-> a, finalizer |-> f]

\* sml_set_finalizer, with node_alloc; f is FALSE for NULL.  The item is found
\* and changed in place, or a new one is inserted.
sml_set_finalizer(a, f) ==
    LET t == sml_tree_find(a, finalizer_set)
    IN  /\ ~finished /\ obj[a] = "live"
        /\ wanted' = [wanted EXCEPT ![a] = f]
        /\ IF Found(a, t)
           THEN /\ finalizer_set' = [t EXCEPT ![1].finalizer = f]
                /\ UNCHANGED <<freelist, nodes>>
           ELSE /\ finalizer_set' = Insert(Item(a, f), t)
                /\ IF freelist > 0 THEN freelist' = freelist - 1 /\ UNCHANGED nodes
                   ELSE nodes' = nodes + 1 /\ UNCHANGED freelist
        /\ UNCHANGED <<obj, ran, finished>>

\* The finalizers of these items run
Run(items) ==
    ran' = [a \in Address |-> ran[a] + Cardinality({i \in items : i.key = a /\ i.finalizer})]

\* sml_run_finalizer, called when tracing has ended: the collector has found
\* that the objects in dead are not alive
sml_run_finalizer ==
    \E dead \in SUBSET {a \in Address : obj[a] = "garbage"} :
        LET reject == sml_tree_reject(dead, finalizer_set)
        IN  /\ ~finished /\ dead # {}
            /\ Run(ToSet(reject.run))
            /\ finalizer_set' = sml_tree_rebuild(reject.tree)
            /\ freelist' = freelist + Len(reject.run)
            /\ obj' = [a \in Address |-> IF a \in dead THEN "none" ELSE obj[a]]
            /\ UNCHANGED <<nodes, wanted, finished>>

\* sml_finalize_destroy, called by sml_finish
sml_finalize_destroy ==
    /\ ~finished /\ finished' = TRUE
    /\ Run(ToSet(Items(finalizer_set)))
    /\ UNCHANGED <<obj, finalizer_set, freelist, nodes, wanted>>

FinalizerNext ==
    \/ \E a \in Address : new_object(a) \/ drop_object(a)
                          \/ \E f \in BOOLEAN : sml_set_finalizer(a, f)
    \/ sml_run_finalizer
    \/ sml_finalize_destroy

-----------------------------------------------------------------------------
Keys(t) == {i.key : i \in ToSet(Items(t))}
Sorted(t) == \A i, j \in DOMAIN Items(t) : i < j => Items(t)[i].key < Items(t)[j].key

\* The finalizer of an object runs exactly once: never while the object can be
\* reached, and when its memory is free for another object, or the program has
\* ended, it has run, whatever was done to other objects in between
FinalizedOnce ==
    \A a \in Address :
        /\ obj[a] # "none" /\ ~finished => ran[a] = 0
        /\ obj[a] = "none" \/ finished => ran[a] = IF wanted[a] THEN 1 ELSE 0

\* The splay tree stays a search tree of the objects that have an item, every
\* node of its chunks is in the tree or in the freelist, and find, insert and
\* delete at every key give the trees they should
TreeOps ==
    LET t == finalizer_set
    IN  /\ Sorted(t)
        /\ Len(Items(t)) + freelist = nodes
        /\ \A a \in Address :
              /\ Items(sml_tree_find(a, t)) = Items(t)
              /\ Found(a, sml_tree_find(a, t)) <=> a \in Keys(t)
              /\ Keys(sml_tree_delete(a, t)) = Keys(t) \ {a}
              /\ Sorted(sml_tree_delete(a, t))
              /\ Keys(Insert(Item(a, FALSE), t)) = Keys(t) \cup {a}
              /\ Sorted(Insert(Item(a, FALSE), t))

=============================================================================
