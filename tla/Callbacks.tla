----------------------------- MODULE Callbacks ------------------------------
(***************************************************************************)
(* Callback closures of src/runtime/callback.c, the code that LLVMGen.sml  *)
(* generates for exporting a function, and the enumeration of their        *)
(* environments in SYNC2, by the worker that has GLOBALENUM_FLAG, while    *)
(* other workers have still to answer.  Threads export functions at any    *)
(* time; what runs under callbacks_lock is one step.                       *)
(***************************************************************************)
EXTENDS SplayTree

CONSTANTS
    Exporter,       \* threads
    Code,           \* code addresses
    Env,            \* closure environments
    EnvClass,       \* sml_obj_equal: environments of a class are equal
    PageSize        \* number of trampolines in a page

ASSUME CodeAssumption == Code \subseteq Nat
ASSUME EnvAssumption == EnvClass \in [Env -> Nat]
ASSUME PageAssumption == PageSize \in Nat \ {0}

VARIABLES
    callback_closures,  \* the tree
    callback,           \* the items: code address, environment, next, trampoline
    base, end,          \* trampoline_heap
    target,             \* target[p]: the item that trampoline p calls
    xpc, item, tramp,   \* where the thread is, entryPtr and trampPtr
    closure,            \* the closure it exports
    roots,              \* environments in the roots of the thread
    genum,              \* the thread whose worker has GLOBALENUM_FLAG
    synced,             \* threads in SYNC2, and "global" after the tables
    marked,             \* environments that have been marked
    late                \* history: items entered after the tables had been
                        \* enumerated, by other threads, not in SYNC2 yet

collectorVars == <<genum, synced, marked, late>>
callbackVars == <<callback_closures, callback, base, end, target, xpc, item, tramp,
                  closure, roots, collectorVars>>

NULL == 0

CallbackInit ==
    /\ callback_closures = Nil /\ callback = <<>>
    /\ base = 0 /\ end = 0 /\ target = <<>>
    /\ xpc = [t \in Exporter |-> "run"]
    /\ item = [t \in Exporter |-> NULL]
    /\ tramp = [t \in Exporter |-> NULL]
    /\ closure = [t \in Exporter |-> NULL]
    /\ roots = [t \in Exporter |-> Env]
    /\ genum \in Exporter
    /\ synced = {} /\ marked = {} /\ late = {}

\* Mutant: items of one code address are all equal
KeyOfCode(c, n) == c

\* callback_cmp orders by code address and number; the code addresses are far
\* enough apart
Key(c, n) == c * 10 + n

\* The number of the item of the list of code c whose environment equals e, or
\* the length of the list if there is none
RECURSIVE Walk(_, _, _)
Walk(k, e, n) ==
    IF k = NULL \/ EnvClass[callback[k].env] = EnvClass[e] THEN n
    ELSE Walk(callback[k].next, e, n + 1)

sml_find_callback(t, c, e) ==
    LET first == sml_tree_find(Key(c, 0), callback_closures)
        n == IF Found(Key(c, 0), first) THEN Walk(Key(c, 0), e, 0) ELSE 0
        k == Key(c, n)
        new == [code |-> c, env |-> e, next |-> NULL, trampoline |-> NULL]
    IN  /\ xpc[t] = "run" /\ e \in roots[t]
        /\ IF k \in DOMAIN callback
           THEN callback_closures' = first /\ UNCHANGED <<callback, late>>
           ELSE /\ callback_closures' = Insert([key |-> k], first)
                /\ callback' = [j \in DOMAIN callback \cup {k} |->
                      IF j = k THEN new
                      ELSE IF n > 0 /\ j = Key(c, n - 1) THEN [callback[j] EXCEPT !.next = k]
                      ELSE callback[j]]
                /\ late' = late \cup (IF "global" \in synced /\ t \notin synced \cup {genum}
                                      THEN {k} ELSE {})
        /\ item' = [item EXCEPT ![t] = k]
        /\ closure' = [closure EXCEPT ![t] = [code |-> c, class |-> EnvClass[e]]]
        /\ xpc' = [xpc EXCEPT ![t] = "load"]
        /\ UNCHANGED <<base, end, target, tramp, roots, genum, synced, marked>>

\* The trampoline is loaded; if it is NULL a new one is made
load_trampoline(t) ==
    LET p == callback[item[t]].trampoline
    IN  /\ xpc[t] = "load"
        /\ tramp' = [tramp EXCEPT ![t] = p]
        /\ xpc' = [xpc EXCEPT ![t] = IF p = NULL THEN "alloc" ELSE "use"]
        /\ UNCHANGED <<callback_closures, callback, base, end, target, item, closure, roots, collectorVars>>

\* sml_alloc_code.  Pages follow each other; trampolines are numbered.
sml_alloc_code(t) ==
    LET full == end - base < 1
        p == IF full THEN end ELSE base
    IN  /\ xpc[t] = "alloc"
        /\ tramp' = [tramp EXCEPT ![t] = p + 1]
        /\ base' = p + 1
        /\ end' = IF full THEN end + PageSize ELSE end
        /\ xpc' = [xpc EXCEPT ![t] = "store"]
        /\ UNCHANGED <<callback_closures, callback, target, item, closure, roots, collectorVars>>

store_trampoline(t) ==
    /\ xpc[t] = "store"
    /\ callback' = [callback EXCEPT ![item[t]].trampoline = tramp[t]]
    /\ xpc' = [xpc EXCEPT ![t] = "init"]
    /\ UNCHANGED <<callback_closures, base, end, target, item, tramp, closure, roots, collectorVars>>

init_trampoline(t) ==
    /\ xpc[t] = "init"
    /\ target' = [p \in DOMAIN target \cup {tramp[t]} |->
                     IF p = tramp[t] THEN item[t] ELSE target[p]]
    /\ xpc' = [xpc EXCEPT ![t] = "use"]
    /\ UNCHANGED <<callback_closures, callback, base, end, item, tramp, closure, roots, collectorVars>>

\* The function is given to C and the thread may forget the environment
use_callback(t) ==
    /\ xpc[t] = "use"
    /\ xpc' = [xpc EXCEPT ![t] = "run"]
    /\ item' = [item EXCEPT ![t] = NULL] /\ tramp' = [tramp EXCEPT ![t] = NULL]
    /\ closure' = [closure EXCEPT ![t] = NULL]
    /\ \E e \in Env : roots' = [roots EXCEPT ![t] = @ \ {e}]
    /\ UNCHANGED <<callback_closures, callback, base, end, target, collectorVars>>

\* worker_sync2: the roots of the thread are enumerated.  A worker with
\* GLOBALENUM_FLAG goes on to sml_heap_global_sync2 before its thread may run.
enum_roots(t) ==
    /\ xpc[t] = "run" /\ t \notin synced
    /\ synced' = synced \cup {t}
    /\ marked' = marked \cup roots[t]
    /\ xpc' = [xpc EXCEPT ![t] = IF t = genum THEN "sync2" ELSE "run"]
    /\ UNCHANGED <<callback_closures, callback, base, end, target, item, tramp, closure, roots,
                   genum, late>>

\* Mutant of EnumeratesTables: the tables are enumerated where the flag is set
EnumeratesInSync1(t) == t = genum /\ xpc[t] = "run" /\ t \notin synced

EnumeratesTables(t) == xpc[t] = "sync2"

\* sml_callback_enum_ptr, for whatever is in the table now
sml_callback_enum_ptr(t) ==
    LET keys == {i.key : i \in ToSet(Items(callback_closures))}
        all == keys \cup ({callback[k].next : k \in keys} \ {NULL})
    IN  /\ EnumeratesTables(t) /\ "global" \notin synced
        /\ synced' = synced \cup {"global"}
        /\ marked' = marked \cup {callback[k].env : k \in all}
        /\ xpc' = [xpc EXCEPT ![t] = "run"]
        /\ UNCHANGED <<callback_closures, callback, base, end, target, item, tramp, closure, roots,
                       genum, late>>

CallbackNext ==
    \/ \E t \in Exporter :
          \/ \E c \in Code, e \in Env : sml_find_callback(t, c, e)
          \/ load_trampoline(t) \/ sml_alloc_code(t) \/ store_trampoline(t)
          \/ init_trampoline(t) \/ use_callback(t)
          \/ enum_roots(t) \/ sml_callback_enum_ptr(t)

-----------------------------------------------------------------------------
\* "Two callbacks are identical if they have same SML# code address and
\* recursively-equivalent closure environment": there is one item for them,
\* every thread gets the item of its own closure, and a trampoline that has been
\* initialized calls that item, however the exports of threads interleave
CallbackUnique ==
    LET Closure(k) == [code |-> callback[k].code, class |-> EnvClass[callback[k].env]]
    IN  /\ {i.key : i \in ToSet(Items(callback_closures))} = DOMAIN callback
        /\ \A j, k \in DOMAIN callback : Closure(j) = Closure(k) => j = k
        /\ \A t \in Exporter :
              item[t] # NULL =>
                  /\ Closure(item[t]) = closure[t]
                  /\ tramp[t] \in DOMAIN target => target[tramp[t]] = item[t]

\* The table has no write barrier and is enumerated once, perhaps before most
\* threads are in SYNC2.  When tracing starts, every environment of the table has
\* been marked and stays so, but for those of a late entry: its thread may have
\* forgotten the environment before its own roots were enumerated.
EnvMarked ==
    synced = Exporter \cup {"global"} =>
        \A k \in DOMAIN callback : callback[k].env \in marked \/ k \in late

\* "A callback consists of an SML# code address, an closure environment object,
\* and a trampoline code": what is given to C is a trampoline that has been
\* initialized
TrampolineReady ==
    \A t \in Exporter : xpc[t] = "use" => tramp[t] \in DOMAIN target

=============================================================================
