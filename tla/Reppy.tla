------------------------------- MODULE Reppy --------------------------------
(***************************************************************************)
(* The generational copying collector of src/runtime/heap_reppy.c.  A      *)
(* generation has two spaces; an address is a generation, a space and an   *)
(* index into it.  An object that has survived one collection in its       *)
(* generation is promoted by the next one.  The remembered set of a        *)
(* generation holds the slots of older generations that point into it.     *)
(* All objects have one size and one field, so that a slot is named by the *)
(* address of its object.                                                  *)
(***************************************************************************)
EXTENDS Mutator, FiniteSetsExt

CONSTANTS
    NumGenerations,
    GenSize             \* number of objects a space has room for

ASSUME GenerationAssumption == NumGenerations \in Nat \ {0, 1} /\ GenSize \in Nat \ {0}

Generation == 0 .. NumGenerations - 1
Oldest == NumGenerations - 1

VARIABLES
    half,       \* half[i]: which space of generation i is from-space
    top,        \* top[i][h]: the free pointer of a space
    water_mark, \* water_mark[i]: objects below it have survived a collection
    remember,   \* remember[i][h]: the remembered set of a space
    moved,      \* objects whose GC_FORWARDED_FLAG is set
    gc_level,   \* the oldest generation that is collected
    entries,    \* remembered slots that have not been looked at yet
    left,       \* roots that have not been forwarded yet
    scan        \* the loop of do_gc: scan_start of each generation and the
                \* generation the loop is at

reppyVars == <<half, top, water_mark, remember, moved, gc_level, entries, left, scan>>

ReppyAddr == Generation \X {1, 2} \X (1 .. GenSize)
HOW_OLD(p) == p[1]

ASSUME ReppyNullAssumption == Null \notin ReppyAddr \cup {<<>>}

ReppyInit ==
    /\ half = [i \in Generation |-> 1]
    /\ top = [i \in Generation |-> <<1, 1>>]
    /\ water_mark = [i \in Generation |-> 1]
    /\ remember = [i \in Generation |-> <<{}, {}>>]
    /\ moved = {} /\ gc_level = 0
    /\ entries = {} /\ left = {}
    /\ scan = [start |-> [i \in Generation |-> 1], at |-> 0]

\* Rest of space h of generation i
Rest(i, h) == GenSize + 1 - top[i][h]
From(i) == half[i]
To(i) == 3 - half[i]

-----------------------------------------------------------------------------
\* Mutant: only pointers to the youngest generation are remembered
BarrierYoungest(a, p) == HOW_OLD(a) > HOW_OLD(p) /\ HOW_OLD(p) = 0

\* slot_age > obj_age
Barriered(a, p) == HOW_OLD(a) > HOW_OLD(p)

reppy_write(s, t) ==
    LET a == slot[s]
        p == slot[t]
    IN  /\ mode = "run"
        /\ IF s \in Global
           THEN /\ slot' = [slot EXCEPT ![s] = p]
                /\ barriered' = barriered \cup {s}
                /\ UNCHANGED <<field, remember>>
           ELSE /\ a # Null
                /\ field' = [field EXCEPT ![a] = p]
                /\ remember' = IF p # Null /\ Barriered(a, p)
                               THEN [remember EXCEPT ![HOW_OLD(p)][From(HOW_OLD(p))] = @ \cup {a}]
                               ELSE remember
                /\ UNCHANGED <<slot, barriered>>
        /\ UNCHANGED <<request, mode, half, top, water_mark, moved, gc_level, entries, left, scan>>

\* The level of a minor collection: a generation is collected, too, when it may
\* not have room for what is promoted to it
Level ==
    Min({i \in Generation : i < Oldest => Rest(i + 1, From(i + 1)) > water_mark[i] - 1})

\* do_gc begins: the remembered sets of the generations that are collected,
\* except the oldest one, are looked at from old to young
Collect(level, r) ==
    /\ request' = r
    /\ mode' = "remembered"
    /\ gc_level' = level
    /\ entries' = UNION {{<<i, a>> : a \in remember[i][From(i)]} : i \in 0 .. Min({level, Oldest - 1})}
    /\ left' = Roots
    /\ scan' = [start |-> [i \in Generation |-> IF i = level + 1 THEN top[i][From(i)] ELSE 1],
                at |-> Min({level + 1, Oldest})]
    /\ UNCHANGED <<slot, field, barriered, half, top, water_mark, remember, moved>>

reppy_alloc(s, t) ==
    /\ mode = "run"
    /\ IF Rest(0, From(0)) >= 1
       THEN /\ Initialise(<<0, From(0), top[0][From(0)]>>, s, t)
            /\ top' = [top EXCEPT ![0][From(0)] = @ + 1]
            /\ UNCHANGED <<barriered, half, water_mark, remember, moved, gc_level, entries, left, scan>>
       ELSE Collect(Level, <<s, t>>)

\* sml_heap_gc
reppy_gc == mode = "run" /\ Collect(Oldest, <<>>)

-----------------------------------------------------------------------------
\* Space h of generation i has no room: an ASSERT fails, or "heap is over"
Full == <<>>

\* The object has survived a collection in its generation
Promotes(p) == p[3] < water_mark[p[1]] /\ p[1] < Oldest

\* Where the object at p is copied to.  A promoted one goes to the from-space of
\* the next generation if that is not collected, and stays if the next one is
\* collected and has no room.
Place(p) ==
    LET i == p[1]
        space(j, h) == IF Rest(j, h) >= 1 THEN <<j, h, top[j][h]>> ELSE Full
    IN  IF ~Promotes(p) THEN space(i, To(i))
        ELSE IF i + 1 > gc_level THEN space(i + 1, From(i + 1))
        ELSE IF Rest(i + 1, To(i + 1)) >= 1 THEN space(i + 1, To(i + 1))
        ELSE space(i, To(i))

\* forward of a slot that holds p: what is changed
Forward(p) ==
    LET q == Place(p)
        same(v) == [to |-> v, field |-> field, top |-> top, moved |-> moved]
    IN  IF p = Null THEN same(p)
        ELSE IF HOW_OLD(p) > gc_level THEN same(p)
        ELSE IF p \in moved THEN same(field[p])
        ELSE IF q = Full THEN same(Full)
        ELSE [to |-> q, field |-> [field EXCEPT ![q] = field[p], ![p] = q],
              top |-> [top EXCEPT ![q[1]][q[2]] = @ + 1], moved |-> moved \cup {p}]

\* The rest of a step that has forwarded a slot
Done(f) == field' = f.field /\ top' = f.top /\ moved' = f.moved

\* The program stops: a message, or in a build without assertions anything
Over ==
    /\ mode' = "over"
    /\ UNCHANGED <<slot, field, barriered, request, half, top, water_mark, remember, moved,
                   gc_level, entries, left, scan>>

Push(i, h, a) == remember' = [remember EXCEPT ![i][h] = @ \cup {a}]

\* An entry of a remembered set of an uncollected generation that still points
\* to the generation is forwarded and goes to the remembered set of the
\* generation that the object is in then
forward_remembered ==
    LET i == Max({e[1] : e \in entries})
        a == (CHOOSE e \in entries : e[1] = i)[2]
        f == Forward(field[a])
        j == HOW_OLD(f.to)
    IN  /\ mode = "remembered" /\ entries # {}
        /\ IF HOW_OLD(a) <= gc_level \/ field[a] = Null \/ HOW_OLD(field[a]) # i
           THEN /\ entries' = entries \ {<<i, a>>}
                /\ UNCHANGED <<slot, field, barriered, request, mode, half, top, water_mark,
                               remember, moved, gc_level, left, scan>>
           ELSE IF f.to = Full THEN Over
           ELSE /\ entries' = entries \ {<<i, a>>}
                /\ Done([f EXCEPT !.field[a] = f.to])
                /\ IF j <= gc_level THEN Push(j, To(j), a)
                   ELSE IF j < Oldest THEN Push(j, From(j), a) ELSE UNCHANGED remember
                /\ UNCHANGED <<slot, barriered, request, mode, half, water_mark, gc_level, left, scan>>

\* sml_rootset_enum_ptr, in some fixed order
forward_variable ==
    LET s == CHOOSE r \in left : TRUE
        f == Forward(slot[s])
    IN  /\ mode = "remembered" /\ entries = {} /\ left # {}
        /\ IF f.to = Full THEN Over
           ELSE /\ slot' = [slot EXCEPT ![s] = f.to]
                /\ Done(f)
                /\ left' = left \ {s}
                /\ mode' = IF left = {s} THEN "scan" ELSE mode
                /\ UNCHANGED <<barriered, request, half, water_mark, remember, gc_level, entries, scan>>

\* The space whose objects are scanned in generation i
Scanned(i) == IF i <= gc_level THEN To(i) ELSE From(i)
Unscanned ==
    {i \in 0 .. Min({gc_level + 1, Oldest}) : scan.start[i] < top[i][Scanned(i)]}

\* The generation the loop goes on with
At ==
    IF scan.at \in Unscanned THEN scan.at
    ELSE LET below == {i \in Unscanned : i < scan.at}
         IN  Max(IF below # {} THEN below ELSE Unscanned)

\* forward2: the slot of a scanned object is older than what it points to
Remembers(a, p) == p # Null /\ HOW_OLD(a) > HOW_OLD(p)

\* An object is scanned: forward_children2
scan_object ==
    LET a == <<At, Scanned(At), scan.start[At]>>
        f == Forward(field[a])
    IN  /\ mode = "scan" /\ Unscanned # {}
        /\ IF f.to = Full THEN Over
           ELSE /\ Done([f EXCEPT !.field[a] = f.to])
                /\ scan' = [start |-> [scan.start EXCEPT ![At] = @ + 1], at |-> At]
                /\ IF Remembers(a, f.to) THEN Push(HOW_OLD(f.to), To(HOW_OLD(f.to)), a)
                   ELSE UNCHANGED remember
                /\ UNCHANGED <<slot, barriered, request, mode, half, water_mark, gc_level, entries, left>>

\* The spaces of the collected generations are cleared and swapped
reppy_end ==
    LET collected == 0 .. gc_level
    IN  /\ mode = "scan" /\ Unscanned = {}
        /\ field' = [a \in ReppyAddr |->
                        IF a[1] \in collected /\ a[2] = From(a[1]) THEN Null ELSE field[a]]
        /\ top' = [i \in Generation |-> IF i \in collected THEN [top[i] EXCEPT ![From(i)] = 1] ELSE top[i]]
        /\ remember' = [i \in Generation |->
                           IF i \in collected THEN [remember[i] EXCEPT ![From(i)] = {}] ELSE remember[i]]
        /\ half' = [i \in Generation |-> IF i \in collected THEN To(i) ELSE From(i)]
        /\ water_mark' = [i \in Generation |->
                             IF i <= gc_level + 1 THEN top'[i][half'[i]] ELSE water_mark[i]]
        /\ moved' = {} /\ gc_level' = 0
        /\ scan' = [start |-> [i \in Generation |-> 1], at |-> 0]
        /\ mode' = IF request = <<>> THEN "run" ELSE "retry"
        /\ UNCHANGED <<slot, barriered, request, entries, left>>

\* The end of slow_alloc
reppy_retry ==
    /\ mode = "retry"
    /\ IF Rest(0, From(0)) >= 1
       THEN /\ Initialise(<<0, From(0), top[0][From(0)]>>, request[1], request[2])
            /\ top' = [top EXCEPT ![0][From(0)] = @ + 1]
            /\ UNCHANGED <<barriered, half, water_mark, remember, moved, gc_level, entries, left, scan>>
       ELSE Over

ReppyNext ==
    \/ compiled_code /\ UNCHANGED reppyVars
    \/ \E t \in Var : (\E s \in Var \cup Global : reppy_write(s, t))
                      \/ (\E s \in Var : reppy_alloc(s, t))
    \/ reppy_gc
    \/ forward_remembered \/ forward_variable \/ scan_object \/ reppy_end \/ reppy_retry

-----------------------------------------------------------------------------
\* The object that a pointer p stands for during a collection
ReppyObject(p) == IF p \in moved THEN field[p] ELSE p

(* Between collections an older slot that points to a generation is in the *)
(* remembered set of that generation: sml_write and forward put it there,  *)
(* whatever has been promoted.  A minor collection looks at no other slots *)
(* of older objects.                                                       *)
SlotsRemembered ==
    mode = "run" =>
        \A a \in ReppyAddr :
           a[2] = From(a[1]) /\ a[3] < top[a[1]][a[2]] /\ field[a] # Null
           /\ HOW_OLD(a) > HOW_OLD(field[a])
           => a \in remember[HOW_OLD(field[a])][From(HOW_OLD(field[a]))]

=============================================================================
