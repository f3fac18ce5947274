---------------------------- MODULE GlobalRoots -----------------------------
(***************************************************************************)
(* Frame tables and top-level objects of src/runtime/top.c.  A program (the*)
(* main one, or one that the interactive mode has loaded) collects the     *)
(* safe points and the top-level objects of its units in a gcroot, sorts   *)
(* them and puts the gcroot in gcroot_list; collectors go through the list *)
(* meanwhile.                                                              *)
(***************************************************************************)
EXTENDS Integers, SequencesExt

CONSTANTS
    Program,
    Units,      \* Units[p]: its units, with their safe points, and whether they
                \* have top-level objects
    PageItems   \* number of items that a page has room for

ASSUME UnitsAssumption ==
    Units \in [Program -> Seq([points : Seq(Nat), tops : BOOLEAN])]
ASSUME PageItemsAssumption == PageItems \in Nat \ {0}

VARIABLES
    gcroot,         \* gcroot[p]: item, num_points, num_tops and the room for items
    gcroot_list,
    next,
    lpc, unit,      \* where the loader of the program is
    first, old,     \* its local variables
    order,          \* the programs in the order in which they were put in the list
    cursor, seen,   \* the enumeration: where it is, and the units it has seen
    due             \* programs that were in the list when it started

rootVars == <<gcroot, gcroot_list, next, lpc, unit, first, old, order, cursor, seen, due>>

None == "none"

RootInit ==
    /\ gcroot = [p \in Program |-> [item |-> <<>>, num_points |-> 0, num_tops |-> 0,
                                    room |-> PageItems]]
    /\ gcroot_list = None
    /\ next = [p \in Program |-> None]
    /\ lpc = [p \in Program |-> "units"]
    /\ unit = [p \in Program |-> 1]
    /\ first = [p \in Program |-> None]
    /\ old = [p \in Program |-> None]
    /\ order = <<>>
    /\ cursor = None /\ seen = {} /\ due = {}

Step(p, l) == lpc' = [lpc EXCEPT ![p] = l]

\* alloc_safe_points: the room that is needed, in whole pages
Room(g, inc) ==
    LET need == Len(g.item) + inc
    IN  IF g.room - (g.num_points + g.num_tops) >= inc THEN g.room
        ELSE ((need + PageItems - 1) \div PageItems) * PageItems

\* sml_gcroot, called by the load function of each unit
sml_gcroot(p) ==
    LET u == Units[p][unit[p]]
        top == IF u.tops THEN <<[addr |-> unit[p], layout |-> None]>> ELSE <<>>
        points == [i \in DOMAIN u.points |-> [addr |-> u.points[i], layout |-> p]]
        g == gcroot[p]
    IN  /\ lpc[p] = "units" /\ unit[p] <= Len(Units[p])
        /\ gcroot' = [gcroot EXCEPT ![p] =
              [item |-> g.item \o points \o top,
               num_points |-> g.num_points + Len(points),
               num_tops |-> g.num_tops + Len(top),
               room |-> Room(g, Len(points) + Len(top))]]
        /\ unit' = [unit EXCEPT ![p] = @ + 1]
        /\ UNCHANGED <<gcroot_list, next, lpc, first, old, order, cursor, seen, due>>

\* Mutant: by address only
ByAddress(a, b) == a.addr < b.addr

\* cmp_safe_point: safe points before top-level objects, then by address
Before(a, b) ==
    \/ a.layout # None /\ b.layout = None
    \/ (a.layout = None <=> b.layout = None) /\ a.addr < b.addr

sort_safe_points(p) ==
    /\ lpc[p] = "units" /\ unit[p] > Len(Units[p])
    /\ gcroot' = [gcroot EXCEPT ![p].item = SortSeq(@, Before)]
    /\ Step(p, "first")
    /\ UNCHANGED <<gcroot_list, next, unit, first, old, order, cursor, seen, due>>

Registered(p) == order' = Append(order, p) /\ Step(p, "loaded")

\* register_gcroot: gcroot_list is loaded
load_first(p) ==
    /\ lpc[p] = "first"
    /\ first' = [first EXCEPT ![p] = gcroot_list]
    /\ Step(p, IF gcroot_list = None THEN "empty" ELSE "next")
    /\ UNCHANGED <<gcroot, gcroot_list, next, unit, old, order, cursor, seen, due>>

\* ... if it is empty the program is to be the first one
swap_first(p) ==
    /\ lpc[p] = "empty"
    /\ IF gcroot_list = None
       THEN gcroot_list' = p /\ Registered(p) /\ UNCHANGED first
       ELSE first' = [first EXCEPT ![p] = gcroot_list] /\ Step(p, "next")
            /\ UNCHANGED <<gcroot_list, order>>
    /\ UNCHANGED <<gcroot, next, unit, old, cursor, seen, due>>

\* ... its next pointer is set
store_next(p) ==
    /\ lpc[p] = "next"
    /\ old' = [old EXCEPT ![p] = next[first[p]]]
    /\ next' = [next EXCEPT ![p] = next[first[p]]]
    /\ Step(p, "swap")
    /\ UNCHANGED <<gcroot, gcroot_list, unit, first, order, cursor, seen, due>>

\* Mutant: the pointer is stored whatever has been put there
Unconditional(p) == TRUE

\* The compare-and-swap finds the pointer it has read
StillNext(p) == next[first[p]] = old[p]

\* ... and it is put behind the first one
swap_next(p) ==
    /\ lpc[p] = "swap"
    /\ IF StillNext(p)
       THEN next' = [next EXCEPT ![first[p]] = p] /\ Registered(p)
       ELSE Step(p, "next") /\ UNCHANGED <<next, order>>
    /\ UNCHANGED <<gcroot, gcroot_list, unit, first, old, cursor, seen, due>>

\* sml_global_enum_ptr starts
start_enum ==
    /\ cursor = None
    /\ cursor' = gcroot_list
    /\ seen' = {} /\ due' = ToSet(order)
    /\ UNCHANGED <<gcroot, gcroot_list, next, lpc, unit, first, old, order>>

\* The items that are taken for top-level objects: TOPS(p)
Tops(g) == SubSeq(g.item, g.num_points + 1, g.num_points + g.num_tops)

\* ... and goes on with the next gcroot
sml_global_enum_ptr ==
    /\ cursor # None
    /\ seen' = seen \cup {<<cursor, i.addr>> : i \in ToSet(Tops(gcroot[cursor]))}
    /\ cursor' = next[cursor]
    /\ UNCHANGED <<gcroot, gcroot_list, next, lpc, unit, first, old, order, due>>

RootNext ==
    \/ \E p \in Program : sml_gcroot(p) \/ sort_safe_points(p) \/ load_first(p)
                          \/ swap_first(p) \/ store_next(p) \/ swap_next(p)
    \/ start_enum \/ sml_global_enum_ptr

-----------------------------------------------------------------------------
\* binary_search in s from index l to r - 1; -1 is NULL
binary_search(key, s) ==
    LET search[l, r \in 0 .. Len(s)] ==
            LET c == (l + r) \div 2
            IN  IF l >= r THEN -1
                ELSE IF s[c + 1].addr = key THEN c
                ELSE IF s[c + 1].addr < key THEN search[c + 1, r]
                ELSE search[l, c]
    IN  search[0, Len(s)]

\* sml_lookup_frametable: the list, and the first gcroot that has the address
List == LET from[p \in Program \cup {None}, n \in 0 .. Cardinality(Program)] ==
                IF p = None \/ n = 0 THEN <<>> ELSE <<p>> \o from[next[p], n - 1]
        IN  from[gcroot_list, Cardinality(Program)]
Points(g) == SubSeq(g.item, 1, g.num_points)
sml_lookup_frametable(addr) ==
    LET found == {i \in DOMAIN List : binary_search(addr, Points(gcroot[List[i]])) # -1}
        p == List[Min(found)]
    IN  IF found = {} THEN None
        ELSE Points(gcroot[p])[binary_search(addr, Points(gcroot[p])) + 1].layout

\* "[first program] -> [last program] -> ... -> [second program]": this is the
\* list whatever programs are loaded at once, and none gets lost
ListOrder ==
    List = IF order = <<>> THEN <<>> ELSE <<order[1]>> \o Reverse(Tail(order))

\* The stack of a program that has been loaded can be scanned: each of its safe
\* points is found, with the layout of its own program, and its items were
\* written to memory it has
LookupFinds ==
    \A p \in Program :
        /\ Len(gcroot[p].item) <= gcroot[p].room
        /\ lpc[p] = "loaded" =>
               \A i \in DOMAIN Units[p], a \in UNION {ToSet(u.points) : u \in ToSet(Units[p])} :
                   sml_lookup_frametable(a) = p

\* An enumeration sees the top-level objects of all programs that were loaded
\* when it started, and nothing but top-level objects
EnumComplete ==
    /\ \A s \in seen : s[2] \in DOMAIN Units[s[1]] /\ Units[s[1]][s[2]].tops
    /\ cursor = None =>
           \A p \in due : \A i \in DOMAIN Units[p] : Units[p][i].tops => <<p, i>> \in seen

=============================================================================
