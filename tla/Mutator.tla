------------------------------ MODULE Mutator -------------------------------
(***************************************************************************)
(* A program with one of the stop-the-world collectors of src/runtime      *)
(* (heap_cheney.c, heap_reppy.c, heap_bitmap.c, heap_otomo.c): its         *)
(* variables, the memory of its objects, and what the rest of the old      *)
(* runtime, of which only the uses are left in the repository, does for    *)
(* the collectors.                                                         *)
(***************************************************************************)
EXTENDS Integers, SequencesExt

CONSTANTS
    Var,        \* local variables, which the collector finds on the stack
    Global,     \* variables outside of the heap
    Null

ASSUME SlotAssumption == Var \cap Global = {} /\ Var # {}

\* All variables of the program
Slot == Var \cup Global

VARIABLES
    slot,       \* the variables
    field,      \* field[a]: the pointer field of the object at address a
    barriered,  \* globals that sml_global_barrier has made roots
    request,    \* an allocation that waits for a collection: s := new object
                \* with the value of t, or <<>>
    mode        \* "run", a stage of a collection, or "over": "heap exceeded"

mutator == <<slot, field, barriered, request, mode>>

MutatorInit ==
    /\ slot = [s \in Slot |-> Null]
    /\ barriered = {}
    /\ request = <<>>
    /\ mode = "run"

\* Steps of compiled code that do not call the runtime
copy(s, t) == slot[t] # Null /\ slot' = [slot EXCEPT ![s] = slot[t]]
drop(s) == slot[s] # Null /\ slot' = [slot EXCEPT ![s] = Null]
read(s, t) == slot[t] # Null /\ slot' = [slot EXCEPT ![s] = field[slot[t]]]

compiled_code ==
    /\ mode = "run"
    /\ \E s, t \in Var : drop(s) \/ read(s, t) \/ \E g \in Global : copy(s, g)
    /\ UNCHANGED <<field, barriered, request, mode>>

\* The roots that sml_rootset_enum_ptr enumerates
Roots == Var \cup barriered

\* The new object is at address a: its header and its field are initialised
Initialise(a, s, t) ==
    /\ field' = [field EXCEPT ![a] = slot[t]]
    /\ slot' = [slot EXCEPT ![s] = a]
    /\ request' = <<>>
    /\ mode' = "run"

=============================================================================
