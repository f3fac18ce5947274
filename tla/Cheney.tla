------------------------------- MODULE Cheney -------------------------------
(***************************************************************************)
(* The copying collector of src/runtime/heap_cheney.c.  An address is a    *)
(* space and an index into it; all objects have one size.                  *)
(***************************************************************************)
EXTENDS Mutator

CONSTANT SpaceSize      \* number of objects a space has room for

ASSUME SpaceAssumption == SpaceSize \in Nat \ {0}

VARIABLES
    from_space,
    free,       \* free[x]: the free pointer of space x
    forwarded,  \* objects whose GC_FORWARDED_FLAG is set
    todo,       \* roots that have not been forwarded yet
    cur         \* forward_region: the next object of to-space

cheneyVars == <<from_space, free, forwarded, todo, cur>>

CheneyAddr == {1, 2} \X (1 .. SpaceSize)

ASSUME NullAssumption == Null \notin CheneyAddr

CheneyInit ==
    /\ from_space = 1
    /\ free = <<1, 1>>
    /\ forwarded = {} /\ todo = {} /\ cur = 1

to_space == 3 - from_space

HEAP_REST(x) == SpaceSize + 1 - free[x]

-----------------------------------------------------------------------------
\* sml_write to the field of the object of s, and to a global
cheney_write(s, t) ==
    /\ mode = "run"
    /\ IF s \in Global
       THEN /\ slot' = [slot EXCEPT ![s] = slot[t]]
            /\ barriered' = barriered \cup {s}
            /\ UNCHANGED field
       ELSE /\ slot[s] # Null
            /\ field' = [field EXCEPT ![slot[s]] = slot[t]]
            /\ UNCHANGED <<slot, barriered>>
    /\ UNCHANGED <<request, mode, cheneyVars>>

\* do_gc begins
Start(r) ==
    /\ request' = r
    /\ mode' = "roots"
    /\ todo' = Roots
    /\ UNCHANGED <<slot, field, barriered, from_space, free, forwarded, cur>>

cheney_alloc(s, t) ==
    /\ mode = "run"
    /\ IF HEAP_REST(from_space) >= 1
       THEN /\ Initialise(<<from_space, free[from_space]>>, s, t)
            /\ free' = [free EXCEPT ![from_space] = @ + 1]
            /\ UNCHANGED <<barriered, from_space, forwarded, todo, cur>>
       ELSE Start(<<s, t>>)

cheney_gc == mode = "run" /\ Start(<<>>)

-----------------------------------------------------------------------------
\* Mutant: the flag is set before the object is copied
CopiedLate(p, q) ==
    [to |-> q, field |-> [field EXCEPT ![q] = field[p], ![p] = q],
     free |-> [free EXCEPT ![to_space] = @ + 1], forwarded |-> forwarded \cup {p, q}]

\* The object at p is copied to q; its flag is set and its first word becomes
\* the address of the copy
Copied(p, q) ==
    [to |-> q, field |-> [field EXCEPT ![q] = field[p], ![p] = q],
     free |-> [free EXCEPT ![to_space] = @ + 1], forwarded |-> forwarded \cup {p}]

\* forward: the new value of a slot that holds p, and what is changed
forward(p) ==
    IF p = Null \/ p[1] = to_space
    THEN [to |-> p, field |-> field, free |-> free, forwarded |-> forwarded]
    ELSE IF p \in forwarded
    THEN [to |-> field[p], field |-> field, free |-> free, forwarded |-> forwarded]
    ELSE Copied(p, <<to_space, free[to_space]>>)

\* sml_rootset_enum_ptr(forward, MAJOR), in some fixed order
forward_root ==
    LET s == CHOOSE r \in todo : TRUE
        f == forward(slot[s])
    IN  /\ mode = "roots"
        /\ slot' = [slot EXCEPT ![s] = f.to]
        /\ field' = f.field /\ free' = f.free /\ forwarded' = f.forwarded
        /\ todo' = todo \ {s}
        /\ mode' = IF todo = {s} THEN "region" ELSE "roots"
        /\ UNCHANGED <<barriered, request, from_space, cur>>

\* An iteration of forward_region
forward_region ==
    LET a == <<to_space, cur>>
        f == forward(field[a])
    IN  /\ mode = "region" /\ cur < free[to_space]
        /\ field' = [f.field EXCEPT ![a] = f.to]
        /\ free' = f.free /\ forwarded' = f.forwarded
        /\ cur' = cur + 1
        /\ UNCHANGED <<slot, barriered, request, mode, from_space, todo>>

\* sml_malloc_pop_and_mark and sml_check_finalizer: an object that an object
\* outside of the heap or a finalizer needs is kept (forward_deep)
forward_deep ==
    /\ mode = "region" /\ cur = free[to_space]
    /\ \E i \in 1 .. free[from_space] - 1 :
          LET p == <<from_space, i>>
              f == forward(p)
          IN  /\ p \notin forwarded
              /\ field' = f.field /\ free' = f.free /\ forwarded' = f.forwarded
              /\ UNCHANGED <<slot, barriered, request, mode, from_space, todo, cur>>

\* The memory after heap_space_clear of space x (a debug build overwrites it)
heap_space_clear(x) == [a \in CheneyAddr |-> IF a[1] = x THEN Null ELSE field[a]]

\* from-space is cleared, and the spaces are swapped
do_gc_end ==
    /\ mode = "region" /\ cur = free[to_space]
    /\ field' = heap_space_clear(from_space)
    /\ free' = [free EXCEPT ![from_space] = 1]
    /\ from_space' = to_space
    /\ forwarded' = {} /\ cur' = 1
    /\ mode' = IF request = <<>> THEN "run" ELSE "retry"
    /\ UNCHANGED <<slot, barriered, request, todo>>

\* The end of slow_alloc
slow_alloc ==
    /\ mode = "retry"
    /\ IF HEAP_REST(from_space) >= 1
       THEN /\ Initialise(<<from_space, free[from_space]>>, request[1], request[2])
            /\ free' = [free EXCEPT ![from_space] = @ + 1]
       ELSE mode' = "over" /\ UNCHANGED <<slot, field, request, free>>
    /\ UNCHANGED <<barriered, from_space, forwarded, todo, cur>>

CheneyNext ==
    \/ compiled_code /\ UNCHANGED cheneyVars
    \/ \E t \in Var : (\E s \in Var \cup Global : cheney_write(s, t))
                      \/ (\E s \in Var : cheney_alloc(s, t))
    \/ cheney_gc
    \/ forward_root \/ forward_region \/ forward_deep \/ do_gc_end \/ slow_alloc

-----------------------------------------------------------------------------
\* The object that a pointer p stands for during a collection
CheneyObject(p) == IF p \in forwarded THEN field[p] ELSE p

=============================================================================
