-------------------------- MODULE MCConcurrentMark --------------------------
(***************************************************************************)
(* Marking and reclaiming for model checking.                              *)
(***************************************************************************)
EXTENDS ConcurrentMarkInv, TLC

CONSTANT MaxOps     \* bound: number of allocations and updates

ASSUME SizeAssumption == MaxOps \in Nat

VARIABLES
    ops,        \* allocations and updates so far
    scenario    \* which of the three programs below runs

Symmetry == Permutations(Worker) \cup Permutations(Block)

\* "pair": any program, with at most two objects, none of which refers to itself,
\* and one operation less than MaxOps, at any time of the collection.
\* "list": the initial heap is a list that a global variable refers to, and
\* mutators wait for the MARK signal to do the last of the MaxOps operations.
\* "private": one object is shared and another one is private, mutators wait for
\* the SYNC2 signal, allocate empty objects, and store references to other
\* objects, one at a time.
ScenarioInit ==
    /\ used \in SUBSET Block
    /\ \/ scenario = "pair" /\ ops = 1 /\ Cardinality(used) \in {1, 2}
       \/ /\ scenario = "list" /\ ops = MaxOps - 1 /\ Cardinality(used) > 1
          /\ root = [w \in Worker |-> {}]
          /\ global \in {{o} : o \in used}
       \/ /\ scenario = "private" /\ ops = 0 /\ Cardinality(used) = 2
          /\ fld = [o \in Block |-> Null]
          /\ global \in {{o} : o \in used}

\* Every object is referred to exactly once: other references to it are made by
\* what the mutators do
MCInit ==
    /\ ScenarioInit
    /\ Init /\ gap = "no"
    /\ Reachable = used
    /\ \A o \in used :
           Cardinality({w \in Worker : o \in root[w]})
           + Cardinality({p \in used : fld[p] = o})
           + (IF o \in global THEN 1 ELSE 0) = 1

Updates(w) == pc[w] = "run" /\ pc'[w] = "phase"

\* No object is allocated, loaded or changed
Idle == used' \subseteq used /\ \A w \in Worker : root'[w] = root[w] /\ ~Updates(w)

\* Programs without sml_cmpswap
WritesOnly == \A w \in Worker : ~arg'[w].cas

\* No update makes an object refer to itself
Pair ==
    /\ Cardinality(used') <= 2
    /\ \A w \in Worker : Updates(w) => arg'[w].new # arg'[w].obj

InMark == sig = PREMARK \/ Idle

InSync2 ==
    /\ sig = PRESYNC2 \/ Idle
    /\ \A w \in Worker : Updates(w) =>
           /\ arg'[w].new \notin {Null, arg'[w].obj}
           /\ \A v \in Worker : ~Updating(v)
    /\ \A o \in used' \ used : fld'[o] = Null
    /\ WritesOnly

\* What loses no behaviour of interest: mutators wait for the first collection
\* (what they do before is another initial heap), and a variable dies right
\* before the roots are enumerated (earlier it makes no difference to anybody,
\* later it only makes fewer objects reachable).  An update changes the field,
\* except during the first signal, where it may overwrite what is stored later.
Bounded ==
    /\ ops' = IF used' \ used # {} \/ \E w \in Worker : Updates(w)
              THEN ops + 1 ELSE ops
    /\ ops' <= MaxOps
    /\ \A w \in Worker :
           /\ root'[w] # root[w] \/ Updates(w) => gc_count > 0 \/ sig # PREASYNC
           /\ root[w] \ root'[w] # {} => phase[w] = PRESYNC2
           /\ Updates(w) => sig = PRESYNC1 \/ arg'[w].new # arg'[w].old
    /\ scenario = "pair" => Pair
    /\ scenario = "list" => InMark
    /\ scenario = "private" => InSync2
    /\ UNCHANGED scenario
    /\ Watch

mcVars == <<vars, gap, ops, scenario>>

\* What the code does, with any timing
MCSpec == MCInit /\ [][Next /\ Bounded]_mcVars

\* The lists of all objects, and programs without sml_cmpswap
WriteSpec ==
    /\ MCInit /\ scenario = "list" /\ used = Block
    /\ [][Next /\ Bounded /\ WritesOnly]_mcVars

=============================================================================
