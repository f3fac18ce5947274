------------------------- MODULE ConcurrentMarkInv -------------------------
(***************************************************************************)
(* The inductive invariant of marking and reclaiming, as long as nothing   *)
(* has been missed.  An object of this collection is white while its       *)
(* collect bit is clear.  From the first enumeration of roots to the end   *)
(* of MARK, every white object that a mutator may get at is protected: a   *)
(* path of white objects leads to it from an object that will be traced.   *)
(* Tracing, the barrier and racing updates change the paths, and no object *)
(* that was protected loses its protection before it is marked.            *)
(***************************************************************************)
EXTENDS ConcurrentMark

\* The roots of w have been enumerated in this collection
Scanned(w) == sig = PREMARK \/ (sig = PRESYNC2 /\ phase[w] = SYNC2)

\* Somebody's have
Snapshot == sig = PREMARK \/ (sig = PRESYNC2 /\ \E w \in Worker : phase[w] = SYNC2)

\* The bit of o has been set by w, which has linked it or is about to
LinkedBy(w, o) ==
    \/ o \in root_set[w] \/ o \in remembered[w] \/ o \in stack[w]
    \/ pc[w] = "pushnew" /\ arg[w].new = o
    \/ pc[w] = "pushold" /\ arg[w].old = o

Linked(o) == \E w \in Worker : LinkedBy(w, o)

\* w will set the bit of o: sml_cmpswap has removed a reference to it, or has
\* stored one that the barrier of SYNC1 has to remember
Promises(w, o) ==
    /\ arg[w].cas
    /\ \/ pc[w] \in {"phase", "new", "pushnew", "old"} /\ arg[w].old = o
       \/ pc[w] \in {"phase", "new"} /\ arg[w].new = o /\ ~Scanned(w)

\* Somebody will, or the global variables are not enumerated yet
Promised(o) ==
    \/ \E w \in Worker : Promises(w, o)
    \/ genum # Null /\ o \in global

\* A racing sml_write will overwrite the field of p without looking at it again
Endangers(w, p) ==
    Updating(w) /\ ~arg[w].cas /\ arg[w].obj = p /\ arg[w].old # fld[p]

Endangered(p) == \E w \in Worker : Endangers(w, p)

\* o will be traced, whatever happens to the objects that refer to it
Sought(o) == Linked(o) \/ (Markable(o) /\ Promised(o))

\* p is grey or white, in the words of the tricolor abstraction
Untraced(p) == Linked(p) \/ Markable(p)

\* S has all that will be traced, and no field that tracing will find as it is
\* leads from S to a white object outside of it
Covers(S) ==
    /\ \A o \in Block : Sought(o) => o \in S
    /\ \A p \in S :
        Untraced(p) /\ ~Endangered(p) /\ Markable(fld[p]) => fld[p] \in S

\* o is reached from what will be traced, on paths that no racing update cuts
Protected(o) == \A S \in SUBSET Block : Covers(S) => o \in S

\* Null, an object that will not be released, or one that will be marked
Safe(o) == Markable(o) => Protected(o)

-----------------------------------------------------------------------------
\* The phase of a worker that has not got the signal p; MARK may be repeated
Before(p) ==
    IF p = PREASYNC THEN {MARK} ELSE IF p = PREMARK THEN {SYNC2, MARK} ELSE {p - 1}

\* One signal at a time, and who has got it
Signals ==
    /\ sig \in {PREASYNC, PRESYNC1, PRESYNC2, PREMARK}
    /\ unsent \subseteq owing
    /\ \A w \in Worker :
        /\ w \in unsent => phase[w] \in Before(sig)
        /\ w \in owing \ unsent => phase[w] = IF pc[w] = "trace" THEN MARK ELSE sig
        /\ w \notin owing => phase[w] = sig + 1
        /\ pc[w] = "trace" => w \in owing \ unsent /\ sig = PREMARK
        /\ pc[w] = "send" => w \in owing /\ unsent # {}
        /\ pc[w] = "finish" => sig = PREMARK /\ owing = {} /\ toSee # {}
        /\ \A v \in Worker : pc[w] \in {"send", "finish"} /\ pc[v] = pc[w] => v = w
    /\ unsent # {} => \E w \in Worker : pc[w] = "send"
    /\ toSee # {} => \E w \in Worker : pc[w] = "finish"
    /\ genum # Null => sig = PRESYNC2 /\ genum \in owing
    /\ sig = PRESYNC2 /\ owing = Worker => genum # Null
    /\ sig # PREASYNC \/ owing # {} => gc_count < MaxGC

\* An object that this collection does not release, or not any more
Kept(o) ==
    /\ o \in used
    /\ sig = PREASYNC => \/ o \notin target \/ o \in mark
                         \/ phase[owner[o]] = ASYNC

\* What a mutator can get at is kept, and objects that are kept refer to such
Heap ==
    /\ \A o \in Block : o \in used <=> owner[o] # Null
    /\ \A o \in Block : o \notin used => fld[o] = Null
    /\ \A w \in Worker : \A o \in root[w] : Kept(o)
    /\ \A o \in global : Kept(o)
    /\ \A o \in Block : Kept(o) /\ fld[o] # Null => Kept(fld[o])

\* Arguments of an update are roots; what it overwrites is an object as long as
\* the barrier may look at it
Arguments ==
    \A w \in Worker :
        /\ Updating(w) => arg[w].obj \in root[w] /\ arg[w].new \in root[w] \cup {Null}
        /\ Updating(w) /\ sig # PREASYNC /\ phase[w] >= SYNC1
               => arg[w].old \in used \cup {Null}
        /\ ~Updating(w) => ~arg[w].cas

\* Collect bits and the sets of objects to be traced
Bits ==
    /\ mark \subseteq used
    /\ \A o \in Value : Linked(o) => o \in mark
    /\ sig \in {PRESYNC1, PRESYNC2} => \A o \in mark : Linked(o)
    /\ ~Snapshot /\ sig # PREASYNC => used \subseteq target
    /\ \A w \in Worker :
        /\ stack[w] # {} => pc[w] = "trace"
        /\ phase[w] = MARK => root_set[w] = {}

\* Reclaiming
Reclaim ==
    sig = PREASYNC =>
        /\ \A o \in Value : ~Linked(o)
        /\ \A o \in used : phase[owner[o]] = ASYNC => o \in target /\ o \notin mark

\* The barrier has done its work when an update is stored
Barriers ==
    sig # PREASYNC => \A w \in Worker : phase[w] >= SYNC1 /\ ~arg[w].cas =>
        /\ pc[w] = "store" => ~Markable(arg[w].old)
        /\ pc[w] \in {"pushnew", "old", "pushold", "store"}
               => Scanned(w) \/ ~Markable(arg[w].new)

\* Everything that mutators and objects that have been traced, or need not be,
\* refer to is safe
Tricolor ==
    Snapshot =>
        /\ \A w \in Worker : Scanned(w) => \A o \in root[w] : Safe(o)
        /\ \A w \in Worker : Scanned(w) /\ Updating(w) => Safe(arg[w].old)
        /\ \A o \in global : Safe(o)
        /\ \A o \in used : ~Untraced(o) => Safe(fld[o])
        /\ \A o \in used : Endangered(o) => Safe(fld[o])

\* Nothing is left to be traced, and mutators can get at no white object
Clean ==
    /\ \A o \in Value : ~Linked(o)
    /\ \A w \in Worker : \A o \in root[w] : ~Markable(o)
    /\ \A w \in Worker : Updating(w) => ~Markable(arg[w].old)
    /\ \A o \in global : ~Markable(o)
    /\ \A o \in used : ~Markable(o) => ~Markable(fld[o])

-----------------------------------------------------------------------------
(***************************************************************************)
(* What the code can miss.  Nothing keeps a mutator from being interrupted *)
(* inside sml_write or sml_cmpswap while others enumerate roots, look at   *)
(* the remembered sets or reclaim.  A history variable records the moments *)
(* at which this does harm; it restricts no step.                          *)
(***************************************************************************)

VARIABLE
    gap         \* "yes": something was missed; "open": it will have been,
                \* unless sml_heap_mark_finish repeats MARK

\* A mutator has set a bit and not linked the object, or removed a reference and
\* not remembered it
Midway(w) ==
    \/ pc[w] \in {"pushnew", "pushold"}
    \/ arg[w].cas /\ pc[w] \in {"phase", "new", "old"} /\ Markable(arg[w].old)

\* The first roots are enumerated while a sml_write that began in SYNC1 is about
\* to overwrite what another one has stored since then
Overwrites ==
    /\ ~Snapshot /\ \E w \in Worker : phase[w] = PRESYNC2 /\ phase'[w] = SYNC2
    /\ \E p \in Block : Endangered(p) /\ Markable(fld[p])

\* sml_heap_mark_finish has looked at every remembered set once, and a mutator is
\* about to remember an object
Opens == round = 1 /\ round' = 2 /\ \E w \in Worker : Midway(w)

\* A barrier that has loaded the phase MARK sets the bit of an object while the
\* workers reclaim
SetsLate == sig = PREASYNC /\ ~(mark' \subseteq mark)

Watch ==
    gap' = IF gap = "yes" \/ Overwrites \/ SetsLate \/ (gap = "open" /\ sig' = PREASYNC)
           THEN "yes"
           ELSE IF Opens THEN "open" ELSE IF round' = 0 THEN "no" ELSE gap

WatchedSpec == Init /\ gap = "no" /\ [][Next /\ Watch]_<<vars, gap>>

\* While sml_heap_mark_finish goes round for the second time, tracing has ended,
\* or it will find an object that a mutator has remembered
Finish ==
    /\ round = 2 /\ gap = "no" => Clean \/ \E v \in toSee : remembered[v] # {}
    /\ toSee # {} <=> round # 0
    /\ gap = "no" \/ (gap = "open" /\ round = 2)

IInv ==
    /\ TypeOK
    /\ Signals /\ Heap /\ Arguments /\ Bits /\ Reclaim /\ Barriers /\ Tricolor
    /\ Finish

\* The invariant of the barrier and of tracing holds as long as nothing was
\* missed.
KeptInv == gap # "yes" => IInv

\* The code releases nothing that a mutator can get at, unless a mutator was
\* interrupted at one of the three moments above.
LiveUnlessMissed == gap # "yes" => LiveKept

\* Tracing is complete when ASYNC is issued, with the same exception: then
\* sml_heap_mark_finish has ended the trace past a mutator inside the barrier.
TracedUnlessMissed == gap # "yes" => TraceComplete

\* During MARK what a mutator can get at is marked or will be found by tracing,
\* with the same exception: a racing sml_write of SYNC1 has overwritten a store
\* that the first roots were enumerated after.
SnapshotUnlessMissed == gap # "yes" => SnapshotKept

=============================================================================
