------------------------ MODULE ConcurrentMarkProofs ------------------------
(***************************************************************************)
(* The steps of the mutators and of the collector keep the invariant of    *)
(* ConcurrentMarkInv, and what follows for every number of workers and     *)
(* objects: no object that a mutator can get at is released, unless a      *)
(* mutator was interrupted at one of the moments that gap records.         *)
(***************************************************************************)
EXTENDS ConcurrentMarkInv, TLAPS

\* Control inside the barrier
InBarrier(w) == pc[w] \in {"new", "pushnew", "old", "pushold"}

-----------------------------------------------------------------------------
(*****************************************************************************)
(* Mutators and the write barrier.  First, protection: which changes of bits,*)
(* sets and fields keep white objects protected.                             *)
(*****************************************************************************)

\* Null is no object, so visit leaves it alone.
LEMMA NullIsSafe ==
    ASSUME TypeOK
    PROVE  ~Markable(Null) /\ Safe(Null)
  BY NullAssumption DEF TypeOK, Markable, Safe

\* What will be traced is protected.
LEMMA SoughtProtected ==
    ASSUME NEW o \in Block, Sought(o)
    PROVE  Protected(o)
  BY DEF Protected, Covers

\* The last field of a protecting path.
LEMMA EdgeProtected ==
    ASSUME NEW p \in Block, Protected(p), Untraced(p), ~Endangered(p),
           Markable(fld[p])
    PROVE  Protected(fld[p])
  BY DEF Protected, Covers

\* Protection survives a step that keeps the paths: what was promised is promised
\* or linked as long as it is white, and a field that leads to a white object
\* is still there unless that object is sought by itself.  The objects that the
\* step has blackened may be taken out of a path.
LEMMA PathsKept ==
    ASSUME \A o \in Block : Linked(o) => ~Markable(o)',
           \A o \in Block : Markable(o)' /\ Promised(o) => Sought(o)',
           \A p, x \in Block :
               fld[p] = x /\ Untraced(p) /\ ~Endangered(p) /\ Markable(x)' =>
                   \/ Untraced(p)' /\ ~Endangered(p)' /\ fld'[p] = x
                   \/ Sought(x)',
           TypeOK,
           NEW q \in Block, Protected(q), Markable(q)'
    PROVE  Protected(q)'
<1> DEFINE X == {o \in Block : ~Untraced(o)'}
<1>1. SUFFICES ASSUME NEW S \in SUBSET Block, Covers(S)'
               PROVE  q \in S
  BY DEF Protected
<1>2. \A o \in Block : Sought(o)' => o \in S
  BY <1>1 DEF Covers
<1>3. ASSUME NEW o \in Block, Sought(o)
      PROVE  o \in S \cup X
  <2>1. CASE Untraced(o)'
    BY <1>2, <1>3, <2>1 DEF Sought, Untraced
  <2>2. CASE ~Untraced(o)'
    BY <2>2
  <2> QED BY <2>1, <2>2
<1>4. ASSUME NEW p \in S \cup X, Untraced(p), ~Endangered(p), Markable(fld[p])
      PROVE  fld[p] \in S \cup X
  <2>1. p \in Block /\ fld[p] \in Block
    BY <1>4 DEF TypeOK, Markable
  <2>2. PICK x \in Block : x = fld[p]
    BY <2>1
  <2>3. CASE Sought(x)' \/ ~Markable(x)'
    BY <1>2, <2>2, <2>3 DEF Sought, Untraced
  <2>4. CASE ~Sought(x)' /\ Markable(x)'
    <3>1. Untraced(p)' /\ ~Endangered(p)' /\ fld'[p] = x
      BY <1>4, <2>1, <2>2, <2>4
    <3> QED BY <1>1, <1>4, <2>1, <2>2, <2>4, <3>1 DEF Covers
  <2> QED BY <2>3, <2>4
<1>5. Covers(S \cup X)
  BY <1>3, <1>4 DEF Covers
<1>6. q \notin X
  BY DEF Untraced
<1> HIDE DEF X
<1>7. S \cup X \in SUBSET Block
  BY DEF X
<1> QED BY <1>5, <1>6, <1>7 DEF Protected

\* The same for what is safe.
LEMMA SafeKept ==
    ASSUME \A o \in Block : Linked(o) => ~Markable(o)',
           \A o \in Block : Markable(o)' /\ Promised(o) => Sought(o)',
           \A p, x \in Block :
               fld[p] = x /\ Untraced(p) /\ ~Endangered(p) /\ Markable(x)' =>
                   \/ Untraced(p)' /\ ~Endangered(p)' /\ fld'[p] = x
                   \/ Sought(x)',
           TypeOK, TypeOK',
           NEW q, Safe(q), Markable(q)' => Markable(q)
    PROVE  Safe(q)'
<1>1. SUFFICES ASSUME Markable(q)' PROVE Protected(q)'
  BY DEF Safe
<1>2. q \in Block /\ Protected(q)
  BY <1>1 DEF TypeOK, Markable, Safe
<1> QED BY <1>1, <1>2, PathsKept

\* A field of a safe object is safe.
LEMMA SuccessorSafe ==
    ASSUME TypeOK, Tricolor, Snapshot, NEW o \in used, Safe(o)
    PROVE  Safe(fld[o])
<1>1. CASE ~Untraced(o) \/ Endangered(o)
  BY <1>1 DEF Tricolor
<1>2. CASE Untraced(o) /\ ~Endangered(o)
  <2>1. o \in Block /\ Protected(o)
    BY <1>2, SoughtProtected DEF TypeOK, Untraced, Sought, Safe
  <2> QED BY <1>2, <2>1, EdgeProtected DEF Safe
<1> QED BY <1>1, <1>2

\* Phases while roots have been enumerated: the workers that are not Scanned are
\* in SYNC1.
LEMMA SnapshotPhases ==
    ASSUME TypeOK, Signals, Snapshot, NEW w \in Worker
    PROVE  /\ phase[w] >= SYNC1 /\ sig # PREASYNC
           /\ Scanned(w) <=> phase[w] > PRESYNC2
<1>1. phase[w] \in Phase /\ (w \in unsent \/ w \in owing \ unsent \/ w \notin owing)
  BY DEF TypeOK
<1>2. CASE sig = PRESYNC2
  <2>1. phase[w] \in {SYNC1, PRESYNC2, SYNC2}
    BY <1>1, <1>2 DEF Signals, Before, PRESYNC2, SYNC1, SYNC2, PREASYNC,
       PREMARK, MARK
  <2> QED BY <1>2, <2>1 DEF Scanned, PRESYNC2, SYNC1, SYNC2, PREASYNC, PREMARK
<1>3. CASE sig = PREMARK
  <2>1. phase[w] \in {SYNC2, PREMARK, MARK}
    BY <1>1, <1>3 DEF Signals, Before, PRESYNC2, SYNC1, SYNC2, PREASYNC,
       PREMARK, MARK
  <2> QED BY <1>3, <2>1 DEF Scanned, PRESYNC2, SYNC1, SYNC2, PREASYNC, PREMARK,
     MARK
<1> QED BY <1>2, <1>3 DEF Snapshot

\* Colours and protection depend on these variables only.
LEMMA SameColours ==
    ASSUME UNCHANGED <<fld, target, mark, global, allocator, pc, arg, phase, sig, genum>>
    PROVE  /\ Snapshot' <=> Snapshot
           /\ \A v \in Worker : Scanned(v)' <=> Scanned(v)
           /\ \A v \in Worker : Updating(v)' <=> Updating(v)
           /\ \A o : (Linked(o)' <=> Linked(o)) /\ (Markable(o)' <=> Markable(o))
           /\ \A o : (Endangered(o)' <=> Endangered(o)) /\ (Untraced(o)' <=> Untraced(o))
           /\ \A o : Safe(o)' <=> Safe(o)
<1>1. /\ Snapshot' <=> Snapshot
      /\ \A v \in Worker : Scanned(v)' <=> Scanned(v)
  BY DEF Snapshot, Scanned
<1>2. \A o : Markable(o)' <=> Markable(o)
  BY DEF Markable
<1>3. \A v \in Worker : Updating(v)' <=> Updating(v)
  BY DEF Updating
<1>4. \A v \in Worker : \A o :
        /\ LinkedBy(v, o)' <=> LinkedBy(v, o)
        /\ Promises(v, o)' <=> Promises(v, o)
        /\ Endangers(v, o)' <=> Endangers(v, o)
  BY <1>1, <1>3 DEF allocator, LinkedBy, Promises, Endangers
<1>5. \A o : (Linked(o)' <=> Linked(o)) /\ (Endangered(o)' <=> Endangered(o))
  BY <1>4 DEF Linked, Endangered
<1>6. \A o : (Sought(o)' <=> Sought(o)) /\ (Untraced(o)' <=> Untraced(o))
  BY <1>2, <1>4, <1>5 DEF Sought, Promised, Untraced
<1>7. \A S \in SUBSET Block : Covers(S)' <=> Covers(S)
  BY <1>2, <1>5, <1>6 DEF Covers
<1>8. \A o : Safe(o)' <=> Safe(o)
  BY <1>2, <1>7 DEF Safe, Protected
<1> QED BY <1>1, <1>2, <1>3, <1>5, <1>6, <1>8

\* Control of a mutator
Mutating == {"run", "phase", "new", "pushnew", "old", "pushold", "store"}

\* A step of a mutator is none of the handshake.
LEMMA MutatorSignals ==
    ASSUME TypeOK, Signals, NEW w \in Worker, NEW l \in Mutating, pc[w] \in Mutating,
           Goto(w, l), UNCHANGED <<phase, signal, finish>>
    PROVE  Signals'
<1>1. \A v \in Worker : \/ pc'[v] = pc[v]
                        \/ pc[v] \in Mutating /\ pc'[v] \in Mutating
  BY DEF TypeOK, Goto
<1>2. \A v \in Worker :
        /\ pc'[v] = "trace" <=> pc[v] = "trace"
        /\ pc'[v] = "send" <=> pc[v] = "send"
        /\ pc'[v] = "finish" <=> pc[v] = "finish"
  BY <1>1 DEF Mutating
<1> QED BY <1>2 DEF Signals, signal, finish

\* What a mutator can get at may change without any change of the heap.
LEMMA RootsKeep ==
    ASSUME IInv, NEW w \in Worker, NEW R \in SUBSET Block, pc[w] = "run",
           root' = [root EXCEPT ![w] = R], gap' = gap,
           UNCHANGED <<heap, mark, allocator, pc, arg, phase, signal, finish>>,
           \A o \in R : Kept(o),
           Snapshot /\ Scanned(w) => \A o \in R : Safe(o),
           Clean => \A o \in R : ~Markable(o)
    PROVE  IInv'
<1>1. \A v \in Worker : root'[v] = IF v = w THEN R ELSE root[v]
  BY DEF IInv, TypeOK
<1>2. /\ Snapshot' <=> Snapshot
      /\ \A v \in Worker : Scanned(v)' <=> Scanned(v)
      /\ \A v \in Worker : Updating(v)' <=> Updating(v)
      /\ \A o : (Linked(o)' <=> Linked(o)) /\ (Markable(o)' <=> Markable(o))
      /\ \A o : (Endangered(o)' <=> Endangered(o)) /\ (Untraced(o)' <=> Untraced(o))
      /\ \A o : Safe(o)' <=> Safe(o)
  BY SameColours DEF heap, signal
<1>3. TypeOK'
  BY DEF IInv, TypeOK, heap, allocator, signal, finish
<1>4. Signals'
  BY DEF IInv, Signals, signal, finish
<1>5. Heap'
  <2>1. \A o : Kept(o)' <=> Kept(o)
    BY DEF Kept, heap, signal
  <2> QED BY <1>1, <2>1 DEF IInv, Heap, heap
<1>6. Arguments'
  <2>1. ~Updating(w)
    BY DEF Updating
  <2> QED BY <1>1, <1>2, <2>1 DEF IInv, Arguments, heap, signal
<1>7. Bits'
  BY <1>2 DEF IInv, Bits, heap, signal, allocator
<1>8. Reclaim'
  BY <1>2 DEF IInv, Reclaim, heap, signal
<1>9. Barriers'
  BY <1>2 DEF IInv, Barriers, signal
<1>10. Tricolor'
  BY <1>1, <1>2 DEF IInv, Tricolor, heap
<1>11. Finish'
  BY <1>1, <1>2 DEF IInv, Finish, Clean, heap, allocator, finish
<1> QED BY <1>3, <1>4, <1>5, <1>6, <1>7, <1>8, <1>9, <1>10, <1>11 DEF IInv

\* Compiled code loads a field: it is safe by SuccessorSafe.
LEMMA LoadFieldKeeps ==
    ASSUME IInv, NEW w \in Worker, load_field(w), gap' = gap
    PROVE  IInv'
<1>1. PICK o \in root[w] : load_field(w)!(o)
  BY DEF load_field
<1> DEFINE R == root[w] \cup {fld[o]}
<1>2. o \in used /\ o \in Block /\ Kept(o) /\ root[w] \subseteq Block /\ fld[o] \in Block
  BY <1>1 DEF IInv, TypeOK, Heap, Kept, Value
<1>3. R \in SUBSET Block
  BY <1>2
<1>4. \A q \in R : Kept(q)
  BY <1>1, <1>2 DEF IInv, Heap
<1>5. Snapshot /\ Scanned(w) => \A q \in R : Safe(q)
  BY <1>2, SuccessorSafe DEF IInv, Tricolor
<1>6. Clean => \A q \in R : ~Markable(q)
  BY <1>2 DEF Clean
<1> HIDE DEF R
<1> QED BY <1>1, <1>3, <1>4, <1>5, <1>6, RootsKeep DEF R

\* Compiled code loads a global variable.
LEMMA LoadGlobalKeeps ==
    ASSUME IInv, NEW w \in Worker, load_global(w), gap' = gap
    PROVE  IInv'
<1>1. PICK o \in global : load_global(w)!(o)
  BY DEF load_global
<1> DEFINE R == root[w] \cup {o}
<1>2. R \in SUBSET Block
  BY DEF IInv, TypeOK
<1>3. \A q \in R : Kept(q)
  BY DEF IInv, Heap
<1>4. Snapshot /\ Scanned(w) => \A q \in R : Safe(q)
  BY DEF IInv, Tricolor
<1>5. Clean => \A q \in R : ~Markable(q)
  BY DEF Clean
<1> HIDE DEF R
<1> QED BY <1>1, <1>2, <1>3, <1>4, <1>5, RootsKeep DEF R

\* A variable of compiled code dies.
LEMMA DropRootKeeps ==
    ASSUME IInv, NEW w \in Worker, drop_root(w), gap' = gap
    PROVE  IInv'
<1>1. PICK o \in root[w] : drop_root(w)!(o)
  BY DEF drop_root
<1> DEFINE R == root[w] \ {o}
<1>2. R \in SUBSET Block
  BY DEF IInv, TypeOK
<1>3. \A q \in R : Kept(q)
  BY DEF IInv, Heap
<1>4. Snapshot /\ Scanned(w) => \A q \in R : Safe(q)
  BY DEF IInv, Tricolor
<1>5. Clean => \A q \in R : ~Markable(q)
  BY DEF Clean
<1> HIDE DEF R
<1> QED BY <1>1, <1>2, <1>3, <1>4, <1>5, RootsKeep DEF R

-----------------------------------------------------------------------------
Arg == [obj : Value, new : Value, old : Value, cas : BOOLEAN]

\* A step of w inside an update that leaves the fields alone: it may set the bits
\* of M, whose objects it links or is about to, and it may break the promises
\* that it has kept.
LEMMA BarrierKeeps ==
    ASSUME IInv, NEW w \in Worker, pc[w] \in Mutating, NEW l \in Mutating, Goto(w, l),
           NEW a \in Arg, arg' = [arg EXCEPT ![w] = a],
           NEW M \in SUBSET Block, \A o \in M : Markable(o), mark' = mark \cup M,
           NEW N \in SUBSET Block, remembered[w] \subseteq N,
           remembered' = [remembered EXCEPT ![w] = N],
           UNCHANGED <<heap, root, root_set, stack, phase, signal, finish, gap>>,
           \A o \in Value : LinkedBy(w, o)' <=> LinkedBy(w, o) \/ o \in M,
           Snapshot => \A o \in Block : Markable(o) /\ Promises(w, o) =>
                           o \in M \/ Promises(w, o)',
           Snapshot => \A p \in Block : Endangers(w, p)' => Endangers(w, p),
           Updating(w)' => a.obj \in root[w] /\ a.new \in root[w] \cup {Null},
           Updating(w)' /\ sig # PREASYNC /\ phase[w] >= SYNC1 => a.old \in used \cup {Null},
           ~Updating(w)' => ~a.cas,
           sig = PREASYNC => M = {},
           Snapshot /\ Scanned(w) /\ Updating(w)' => Safe(a.old),
           sig # PREASYNC /\ phase[w] >= SYNC1 /\ ~a.cas /\ l = "store" =>
               ~Markable(a.old) \/ a.old \in M,
           sig # PREASYNC /\ phase[w] >= SYNC1 /\ ~a.cas
               /\ l \in {"pushnew", "old", "pushold", "store"} =>
               Scanned(w) \/ ~Markable(a.new) \/ a.new \in M,
           toSee # {} /\ Clean => M = {} /\ (Updating(w)' => ~Markable(a.old))
    PROVE  IInv'
<1>1. TypeOK /\ TypeOK'
  BY DEF IInv, TypeOK, Goto, Mutating, PC, Arg, heap, signal, finish
<1>2. /\ arg'[w] = a /\ pc'[w] = l
      /\ \A v \in Worker \ {w} : arg'[v] = arg[v] /\ pc'[v] = pc[v]
                                 /\ remembered'[v] = remembered[v]
  BY <1>1 DEF TypeOK, Goto
<1>3. /\ Snapshot' <=> Snapshot
      /\ \A v \in Worker : Scanned(v)' <=> Scanned(v)
  BY DEF Snapshot, Scanned, signal
<1>4. \A v \in Worker \ {w} : Updating(v)' <=> Updating(v)
  BY <1>2 DEF Updating
<1>5. \A v \in Worker \ {w} : \A o :
        /\ LinkedBy(v, o)' <=> LinkedBy(v, o)
        /\ Promises(v, o)' <=> Promises(v, o)
        /\ Endangers(v, o)' <=> Endangers(v, o)
  BY <1>2, <1>3, <1>4 DEF LinkedBy, Promises, Endangers, heap
<1>6. \A o : Markable(o)' <=> Markable(o) /\ o \notin M
  BY DEF Markable, heap
<1>7. \A o \in Value : Linked(o)' <=> Linked(o) \/ o \in M
  BY <1>5 DEF Linked
<1>8. \A o \in Block : Untraced(o)' <=> Untraced(o)
  BY <1>6, <1>7 DEF Untraced, Value
<1>9. Snapshot => \A o \in Block : Endangered(o)' => Endangered(o)
  BY <1>5 DEF Endangered
<1>10. Snapshot => \A o \in Value : Safe(o) => Safe(o)'
  <2> SUFFICES ASSUME Snapshot, NEW q \in Value, Safe(q) PROVE Safe(q)'
    OBVIOUS
  <2>1. \A o \in Block : Linked(o) => ~Markable(o)'
    BY <1>6 DEF IInv, Bits, Markable, Value
  <2>2. ASSUME NEW o \in Block, Markable(o)', Promised(o)
        PROVE  Sought(o)'
    <3>1. Markable(o) /\ o \notin M
      BY <1>6, <2>2
    <3>2. Promised(o)'
      BY <1>5, <2>2, <3>1 DEF Promised, signal, heap
    <3> QED BY <2>2, <3>2 DEF Sought
  <2>3. \A p \in Block : Untraced(p) /\ ~Endangered(p) =>
            Untraced(p)' /\ ~Endangered(p)' /\ fld'[p] = fld[p]
    BY <1>8, <1>9 DEF heap
  <2> QED BY <1>1, <1>6, <2>1, <2>2, <2>3, SafeKept
<1>11. Signals'
  BY MutatorSignals DEF IInv
<1>12. Heap'
  <2>1. \A o : Kept(o)' <=> Kept(o)
    BY DEF Kept, heap, signal
  <2> QED BY <2>1 DEF IInv, Heap, heap
<1>13. Arguments'
  BY <1>2, <1>4 DEF IInv, Arguments, heap, signal
<1>14. Bits'
  <2>1. mark' \subseteq used' /\ \A o \in Value : Linked(o)' => o \in mark'
    BY <1>7 DEF IInv, Bits, heap, TypeOK, Markable
  <2>2. sig' \in {PRESYNC1, PRESYNC2} => \A o \in mark' : Linked(o)'
    BY <1>1, <1>7 DEF IInv, Bits, signal, Value, TypeOK
  <2>3. \A v \in Worker : (stack'[v] # {} => pc'[v] = "trace")
                          /\ (phase'[v] = MARK => root_set'[v] = {})
    BY <1>2 DEF IInv, Bits, Mutating
  <2> QED BY <1>3, <2>1, <2>2, <2>3 DEF IInv, Bits, heap, signal
<1>15. Reclaim'
  <2> SUFFICES ASSUME sig = PREASYNC PROVE Reclaim'
    BY DEF Reclaim, signal
  <2> QED BY <1>4, <1>7 DEF IInv, Reclaim, heap, signal
<1>16. Barriers'
  BY <1>2, <1>3, <1>6 DEF IInv, Barriers, signal
<1>17. Tricolor'
  <2> SUFFICES ASSUME Snapshot PROVE Tricolor'
    BY <1>3 DEF Tricolor
  <2>1. \A v \in Worker : Scanned(v)' => \A o \in root'[v] : Safe(o)'
    BY <1>1, <1>3, <1>10 DEF IInv, Tricolor, TypeOK, Value
  <2>4. \A v \in Worker : Scanned(v)' /\ Updating(v)' => Safe(arg'[v].old)
    BY <1>2, <1>3, <1>4 DEF IInv, Tricolor
  <2>5. ASSUME NEW v \in Worker, Scanned(v)', Updating(v)'
        PROVE  Safe(arg[v].old)'
    <3>1. PICK x \in Value : x = arg'[v].old
      BY <1>1 DEF TypeOK
    <3>2. Safe(x)'
      BY <1>10, <2>4, <2>5, <3>1
    <3> QED BY <3>1, <3>2
  <2>2. \A o \in global' : Safe(o)'
    BY <1>1, <1>10 DEF IInv, Tricolor, TypeOK, Value, heap
  <2>3. ASSUME NEW o \in used', ~Untraced(o)' \/ Endangered(o)'
        PROVE  Safe(fld[o])'
    <3>1. o \in used /\ o \in Block /\ fld[o] \in Value /\ fld' = fld
      BY <1>1 DEF TypeOK, heap
    <3>2. Safe(fld[o])
      BY <1>8, <1>9, <2>3, <3>1 DEF IInv, Tricolor
    <3>3. PICK x \in Value : x = fld[o]
      BY <3>1
    <3>4. Safe(x)'
      BY <1>10, <3>2, <3>3
    <3> QED BY <3>1, <3>3, <3>4
  <2> QED BY <2>1, <2>2, <2>3, <2>5 DEF Tricolor
<1>18. Finish'
  <2> SUFFICES ASSUME toSee # {}, round = 2, gap = "no"
               PROVE  Clean' \/ \E v \in toSee : remembered'[v] # {}
    BY DEF IInv, Finish, finish
  <2>1. CASE \E v \in toSee : remembered[v] # {}
    BY <1>1, <1>2, <2>1 DEF TypeOK
  <2>2. CASE Clean
    <3>1. M = {} /\ \A o : Markable(o)' <=> Markable(o)
      BY <1>6, <2>2
    <3>2. \A v \in Worker : Updating(v)' => ~Markable(arg'[v].old)
      BY <1>2, <1>4, <2>2 DEF Clean
    <3>3. \A o \in Value : ~Linked(o)'
      BY <1>7, <2>2, <3>1 DEF Clean
    <3> QED BY <2>2, <3>1, <3>2, <3>3 DEF Clean, heap
  <2> QED BY <2>1, <2>2 DEF IInv, Finish
<1> QED BY <1>1, <1>11, <1>12, <1>13, <1>14, <1>15, <1>16, <1>17, <1>18 DEF IInv

\* The same without any bit set or object linked.
LEMMA ControlKeeps ==
    ASSUME IInv, NEW w \in Worker, pc[w] \in Mutating, NEW l \in Mutating, Goto(w, l),
           NEW a \in Arg, arg' = [arg EXCEPT ![w] = a],
           UNCHANGED <<heap, mark, root, allocator, phase, signal, finish, gap>>,
           \A o \in Value : LinkedBy(w, o)' <=> LinkedBy(w, o),
           Snapshot => \A o \in Block : Promises(w, o) => Promises(w, o)',
           Snapshot => \A p \in Block : Endangers(w, p)' => Endangers(w, p),
           Updating(w)' => a.obj \in root[w] /\ a.new \in root[w] \cup {Null},
           Updating(w)' /\ sig # PREASYNC /\ phase[w] >= SYNC1 => a.old \in used \cup {Null},
           ~Updating(w)' => ~a.cas,
           Snapshot /\ Scanned(w) /\ Updating(w)' => Safe(a.old),
           sig # PREASYNC /\ phase[w] >= SYNC1 /\ ~a.cas /\ l = "store" => ~Markable(a.old),
           sig # PREASYNC /\ phase[w] >= SYNC1 /\ ~a.cas
               /\ l \in {"pushnew", "old", "pushold", "store"} =>
               Scanned(w) \/ ~Markable(a.new),
           toSee # {} /\ Clean => (Updating(w)' => ~Markable(a.old))
    PROVE  IInv'
<1> DEFINE M == {}
           N == remembered[w]
<1>1. M \in SUBSET Block /\ (\A o \in M : Markable(o)) /\ mark' = mark \cup M
  OBVIOUS
<1>2. /\ N \in SUBSET Block /\ remembered[w] \subseteq N
      /\ remembered' = [remembered EXCEPT ![w] = N]
  BY DEF allocator, IInv, TypeOK
<1>3. UNCHANGED <<heap, root, root_set, stack, phase, signal, finish>>
  BY DEF allocator
<1>4. \A o \in Value : LinkedBy(w, o)' <=> LinkedBy(w, o) \/ o \in M
  OBVIOUS
<1>5. sig = PREASYNC => M = {}
  OBVIOUS
<1>6. toSee # {} /\ Clean => M = {} /\ (Updating(w)' => ~Markable(a.old))
  OBVIOUS
<1> HIDE DEF M, N
<1> QED BY <1>1, <1>2, <1>3, <1>4, <1>5, <1>6, BarrierKeeps

\* sml_write loads the old value.
LEMMA WriteKeeps ==
    ASSUME IInv, NEW w \in Worker, sml_write(w), gap' = gap
    PROVE  IInv'
<1>1. PICK o \in root[w], v \in root[w] \cup {Null} : sml_write(w)!(o, v)
  BY DEF sml_write
<1> DEFINE a == [obj |-> o, new |-> v, old |-> fld[o], cas |-> FALSE]
<1>2. o \in Block /\ o \in used /\ v \in Value /\ fld[o] \in Value /\ Kept(o)
  BY DEF IInv, TypeOK, Heap, Kept, Value
<1>3. a \in Arg
  BY <1>2 DEF Arg, Value
<1>4. a.obj = o /\ a.new = v /\ a.old = fld[o] /\ ~a.cas
  OBVIOUS
<1>5. fld[o] \in used \cup {Null} /\ (Clean => ~Markable(fld[o]))
  BY <1>2, NullIsSafe DEF IInv, Heap, Kept, Clean
<1> HIDE DEF a
<1>6. /\ pc[w] = "run" /\ pc'[w] = "phase" /\ arg' = [arg EXCEPT ![w] = a] /\ arg'[w] = a
      /\ Goto(w, "phase")
      /\ UNCHANGED <<heap, mark, root, allocator, phase, signal, finish>>
  BY <1>1 DEF a, IInv, TypeOK, Goto
<1>7. \A q : LinkedBy(w, q)' <=> LinkedBy(w, q)
  BY <1>6 DEF LinkedBy, allocator
<1>8. \A q : ~Promises(w, q)
  BY <1>6 DEF Promises
<1>9. \A p : ~Endangers(w, p)'
  BY <1>4, <1>6 DEF Endangers, heap
<1>10. Updating(w)'
  BY <1>6 DEF Updating
<1>11. "phase" \in Mutating /\ pc[w] \in Mutating
  BY <1>6 DEF Mutating
<1>12. Snapshot /\ Scanned(w) => Safe(fld[o])
  BY <1>2, SuccessorSafe DEF IInv, Tricolor
<1> QED BY <1>3, <1>4, <1>5, <1>6, <1>7, <1>8, <1>9, <1>10, <1>11, <1>12, ControlKeeps

\* sml_current_phase: where the barrier starts depends on the phase.
LEMMA LoadPhaseKeeps ==
    ASSUME IInv, NEW w \in Worker, load_phase(w), gap' = gap
    PROVE  IInv'
<1> DEFINE a == arg[w]
           l == BarrierStart(phase[w])
<1>1. a \in Arg /\ phase[w] \in Phase
  BY DEF IInv, TypeOK, Arg
<1>2. l \in {"store", "new", "old"}
  BY DEF BarrierStart
<1>3. /\ pc[w] = "phase" /\ pc'[w] = l /\ arg' = [arg EXCEPT ![w] = a] /\ arg'[w] = a
      /\ Goto(w, l)
      /\ UNCHANGED <<heap, mark, root, allocator, phase, signal, finish>>
  BY DEF load_phase, IInv, TypeOK, Goto
<1>4. Updating(w) /\ Updating(w)'
  BY <1>2, <1>3 DEF Updating
<1>5. \A q : LinkedBy(w, q)' <=> LinkedBy(w, q)
  BY <1>2, <1>3 DEF LinkedBy, allocator
<1>6. sig # PREASYNC /\ phase[w] >= SYNC1 => l # "store" /\ (l = "old" => Scanned(w))
  <2> SUFFICES ASSUME sig # PREASYNC, phase[w] >= SYNC1
               PROVE  l # "store" /\ (phase[w] > SYNC2 => Scanned(w))
    BY <1>1 DEF BarrierStart, Phase, SYNC1, SYNC2
  <2>1. phase[w] \in Before(sig) \cup {sig, sig + 1} \/ sig = PREMARK
    BY DEF IInv, Signals
  <2>2. phase[w] > SYNC2 => sig = PREMARK
    BY <2>1 DEF IInv, Signals, Before, PREASYNC, PRESYNC1, PRESYNC2, PREMARK,
       SYNC2, MARK
  <2> QED BY <1>1, <2>2 DEF BarrierStart, Scanned, SYNC1, SYNC2, Phase
<1>13. Snapshot => sig # PREASYNC /\ phase[w] >= SYNC1
  BY SnapshotPhases DEF IInv
<1>7. Scanned(w)' <=> Scanned(w)
  BY <1>3 DEF Scanned, signal
<1>8. Snapshot => \A q : Promises(w, q) => Promises(w, q)'
  BY <1>2, <1>3, <1>6, <1>7, <1>13 DEF Promises
<1>9. \A p : Endangers(w, p)' <=> Endangers(w, p)
  BY <1>3, <1>4 DEF Endangers, heap
<1>10. Snapshot /\ Scanned(w) => Safe(a.old)
  BY <1>4 DEF IInv, Tricolor
<1>11. /\ a.obj \in root[w] /\ a.new \in root[w] \cup {Null}
       /\ sig # PREASYNC /\ phase[w] >= SYNC1 => a.old \in used \cup {Null}
       /\ Clean => ~Markable(a.old)
  BY <1>4 DEF IInv, Arguments, Clean
<1>12. l \in Mutating /\ pc[w] \in Mutating
  BY <1>2, <1>3 DEF Mutating
<1> HIDE DEF a, l
<1> QED BY <1>1, <1>2, <1>3, <1>4, <1>5, <1>6, <1>8, <1>9, <1>10, <1>11, <1>12,
           ControlKeeps

\* A step of the barrier that leaves arg alone.
LEMMA RememberKeeps ==
    ASSUME IInv, NEW w \in Worker, InBarrier(w), NEW l \in {"pushnew", "old", "pushold", "store"},
           Goto(w, l), arg' = arg,
           NEW M \in SUBSET Block, \A o \in M : Markable(o), mark' = mark \cup M,
           NEW N \in SUBSET Block, remembered[w] \subseteq N,
           remembered' = [remembered EXCEPT ![w] = N],
           UNCHANGED <<heap, root, root_set, stack, phase, signal, finish, gap>>,
           \A o \in Value : LinkedBy(w, o)' <=> LinkedBy(w, o) \/ o \in M,
           \A o \in Block : Markable(o) /\ Promises(w, o) => o \in M \/ Promises(w, o)',
           sig # PREASYNC /\ phase[w] >= SYNC1 /\ ~arg[w].cas /\ l = "store" =>
               ~Markable(arg[w].old) \/ arg[w].old \in M,
           sig # PREASYNC /\ phase[w] >= SYNC1 /\ ~arg[w].cas =>
               Scanned(w) \/ ~Markable(arg[w].new) \/ arg[w].new \in M,
           M \subseteq {arg[w].new, arg[w].old}, sig = PREASYNC => M = {}
    PROVE  IInv'
<1>1. /\ arg[w] \in Arg /\ arg' = [arg EXCEPT ![w] = arg[w]]
      /\ pc[w] \in Mutating /\ l \in Mutating /\ pc'[w] = l
  BY DEF IInv, TypeOK, Arg, InBarrier, Mutating, Goto
<1>2. Updating(w) /\ Updating(w)'
  BY <1>1 DEF Updating, InBarrier
<1>3. \A p : Endangers(w, p)' <=> Endangers(w, p)
  BY <1>2 DEF Endangers, heap
<1>4. Snapshot /\ Scanned(w) => Safe(arg[w].old)
  BY <1>2 DEF IInv, Tricolor
<1>5. Clean => ~Markable(arg[w].old) /\ ~Markable(arg[w].new)
  BY <1>2, NullIsSafe DEF IInv, Arguments, Clean
<1>6. /\ arg[w].obj \in root[w] /\ arg[w].new \in root[w] \cup {Null}
      /\ sig # PREASYNC /\ phase[w] >= SYNC1 => arg[w].old \in used \cup {Null}
  BY <1>2 DEF IInv, Arguments
<1>7. Clean => M = {}
  BY <1>5
<1> QED BY <1>1, <1>2, <1>3, <1>4, <1>5, <1>6, <1>7, BarrierKeeps, ZenonT(40)

\* remember(alloc, new_value): the bit is set, or the object is linked.
LEMMA RememberNewKeeps ==
    ASSUME IInv, NEW w \in Worker, remember_new(w), gap' = gap, ~SetsLate
    PROVE  IInv'
<1> DEFINE x == arg[w].new
<1>1. /\ UNCHANGED <<heap, root, root_set, stack, arg, phase, signal, finish>>
      /\ remembered[w] \in SUBSET Block
      /\ Scanned(w)' <=> Scanned(w)
  BY DEF remember_new, IInv, TypeOK, Scanned, signal
<1>2. CASE pc[w] = "new" /\ Markable(x)
  <2>1. /\ x \in Block /\ mark' = mark \cup {x} /\ Goto(w, "pushnew") /\ pc'[w] = "pushnew"
        /\ InBarrier(w)
    BY <1>2 DEF remember_new, Visit, Goto, InBarrier, IInv, TypeOK, Markable
  <2>6. sig # PREASYNC
    BY <1>2, <2>1 DEF SetsLate, Markable
  <2>2. \A o : LinkedBy(w, o)' <=> LinkedBy(w, o) \/ o = x
    BY <1>1, <1>2, <2>1 DEF LinkedBy, remember_new
  <2>3. \A o : Promises(w, o) => o = x \/ Promises(w, o)'
    BY <1>1, <1>2, <2>1 DEF Promises
  <2>4. remembered' = [remembered EXCEPT ![w] = remembered[w]]
    BY <1>2 DEF remember_new, IInv, TypeOK
  <2> DEFINE M == {x}
  <2>5. /\ M \in SUBSET Block /\ (\A o \in M : Markable(o)) /\ mark' = mark \cup M
        /\ \A o \in Value : LinkedBy(w, o)' <=> LinkedBy(w, o) \/ o \in M
        /\ \A o \in Block : Markable(o) /\ Promises(w, o) => o \in M \/ Promises(w, o)'
        /\ x \in M /\ M \subseteq {arg[w].new, arg[w].old}
    BY <1>2, <2>1, <2>2, <2>3
  <2> HIDE DEF M
  <2> QED BY <1>1, <2>1, <2>4, <2>5, <2>6, RememberKeeps
<1>3. CASE pc[w] = "new" /\ ~Markable(x)
  <2>1. mark' = mark /\ Goto(w, "old") /\ pc'[w] = "old" /\ InBarrier(w)
    BY <1>3 DEF remember_new, Visit, Goto, InBarrier, IInv, TypeOK
  <2>2. \A o : LinkedBy(w, o)' <=> LinkedBy(w, o)
    BY <1>1, <1>3, <2>1 DEF LinkedBy, remember_new
  <2>3. \A o : Markable(o) /\ Promises(w, o) => Promises(w, o)'
    BY <1>1, <1>3, <2>1 DEF Promises
  <2>4. remembered' = [remembered EXCEPT ![w] = remembered[w]]
    BY <1>3 DEF remember_new, IInv, TypeOK
  <2> DEFINE M == {}
  <2>5. /\ M \in SUBSET Block /\ (\A o \in M : Markable(o)) /\ mark' = mark \cup M
        /\ \A o \in Value : LinkedBy(w, o)' <=> LinkedBy(w, o) \/ o \in M
        /\ \A o \in Block : Markable(o) /\ Promises(w, o) => o \in M \/ Promises(w, o)'
        /\ M \subseteq {arg[w].new, arg[w].old} /\ M = {}
    BY <2>1, <2>2, <2>3
  <2> HIDE DEF M
  <2> QED BY <1>1, <1>3, <2>1, <2>4, <2>5, RememberKeeps
<1>4. CASE pc[w] = "pushnew"
  <2>1. mark' = mark /\ Goto(w, "old") /\ pc'[w] = "old" /\ InBarrier(w)
    BY <1>4 DEF remember_new, Goto, InBarrier, IInv, TypeOK
  <2>2. x \in Block
    <3>1. x \in Value /\ Linked(x)
      BY <1>4 DEF IInv, TypeOK, Linked, LinkedBy
    <3> QED BY <3>1 DEF IInv, Bits, TypeOK
  <2> DEFINE N == remembered[w] \cup {x}
  <2>3. /\ N \in SUBSET Block /\ remembered[w] \subseteq N
        /\ remembered' = [remembered EXCEPT ![w] = N] /\ remembered'[w] = N
    BY <1>1, <1>4, <2>2 DEF remember_new, Push, IInv, TypeOK
  <2>4. \A o : LinkedBy(w, o)' <=> LinkedBy(w, o)
    BY <1>1, <1>4, <2>1, <2>3 DEF LinkedBy
  <2>5. \A o : Promises(w, o) => Promises(w, o)'
    BY <1>1, <1>4, <2>1 DEF Promises
  <2>6. sig # PREASYNC /\ phase[w] >= SYNC1 /\ ~arg[w].cas => Scanned(w) \/ ~Markable(x)
    BY <1>4 DEF IInv, Barriers
  <2> DEFINE M == {}
  <2>7. /\ M \in SUBSET Block /\ (\A o \in M : Markable(o)) /\ mark' = mark \cup M
        /\ \A o \in Value : LinkedBy(w, o)' <=> LinkedBy(w, o) \/ o \in M
        /\ \A o \in Block : Markable(o) /\ Promises(w, o) => o \in M \/ Promises(w, o)'
        /\ M \subseteq {arg[w].new, arg[w].old} /\ M = {}
    BY <2>1, <2>4, <2>5
  <2> HIDE DEF M, N
  <2> QED BY <1>1, <2>1, <2>3, <2>6, <2>7, RememberKeeps
<1> QED BY <1>2, <1>3, <1>4 DEF remember_new

\* remember(alloc, old_value): likewise; the update may be stored afterwards.
LEMMA RememberOldKeeps ==
    ASSUME IInv, NEW w \in Worker, remember_old(w), gap' = gap, ~SetsLate
    PROVE  IInv'
<1> DEFINE x == arg[w].old
<1>1. /\ UNCHANGED <<heap, root, root_set, stack, arg, phase, signal, finish>>
      /\ remembered[w] \in SUBSET Block
      /\ Scanned(w)' <=> Scanned(w)
  BY DEF remember_old, IInv, TypeOK, Scanned, signal
<1>2. sig # PREASYNC /\ phase[w] >= SYNC1 /\ ~arg[w].cas =>
          Scanned(w) \/ ~Markable(arg[w].new)
  BY DEF remember_old, IInv, Barriers
<1>3. CASE pc[w] = "old" /\ Markable(x)
  <2>1. /\ x \in Block /\ mark' = mark \cup {x} /\ Goto(w, "pushold") /\ pc'[w] = "pushold"
        /\ InBarrier(w)
    BY <1>3 DEF remember_old, Visit, Goto, InBarrier, IInv, TypeOK, Markable
  <2>6. sig # PREASYNC
    BY <1>3, <2>1 DEF SetsLate, Markable
  <2>2. \A o : LinkedBy(w, o)' <=> LinkedBy(w, o) \/ o = x
    BY <1>1, <1>3, <2>1 DEF LinkedBy, remember_old
  <2>3. \A o : Promises(w, o) => o = x
    BY <1>3 DEF Promises
  <2>4. remembered' = [remembered EXCEPT ![w] = remembered[w]]
    BY <1>3 DEF remember_old, IInv, TypeOK
  <2> DEFINE M == {x}
  <2>5. /\ M \in SUBSET Block /\ (\A o \in M : Markable(o)) /\ mark' = mark \cup M
        /\ \A o \in Value : LinkedBy(w, o)' <=> LinkedBy(w, o) \/ o \in M
        /\ \A o \in Block : Markable(o) /\ Promises(w, o) => o \in M \/ Promises(w, o)'
        /\ M \subseteq {arg[w].new, arg[w].old}
    BY <1>3, <2>1, <2>2, <2>3
  <2> HIDE DEF M
  <2> QED BY <1>1, <1>2, <2>1, <2>4, <2>5, <2>6, RememberKeeps
<1>4. CASE pc[w] = "old" /\ ~Markable(x)
  <2>1. mark' = mark /\ Goto(w, "store") /\ pc'[w] = "store" /\ InBarrier(w)
    BY <1>4 DEF remember_old, Visit, Goto, InBarrier, IInv, TypeOK
  <2>2. \A o : LinkedBy(w, o)' <=> LinkedBy(w, o)
    BY <1>1, <1>4, <2>1 DEF LinkedBy, remember_old
  <2>3. \A o : Promises(w, o) => ~Markable(o)
    BY <1>4 DEF Promises
  <2>4. remembered' = [remembered EXCEPT ![w] = remembered[w]]
    BY <1>4 DEF remember_old, IInv, TypeOK
  <2> DEFINE M == {}
  <2>5. /\ M \in SUBSET Block /\ (\A o \in M : Markable(o)) /\ mark' = mark \cup M
        /\ \A o \in Value : LinkedBy(w, o)' <=> LinkedBy(w, o) \/ o \in M
        /\ \A o \in Block : Markable(o) /\ Promises(w, o) => o \in M \/ Promises(w, o)'
        /\ M \subseteq {arg[w].new, arg[w].old} /\ M = {}
    BY <2>1, <2>2, <2>3
  <2> HIDE DEF M
  <2> QED BY <1>1, <1>2, <1>4, <2>1, <2>4, <2>5, RememberKeeps
<1>5. CASE pc[w] = "pushold"
  <2>1. mark' = mark /\ Goto(w, "store") /\ pc'[w] = "store" /\ InBarrier(w)
    BY <1>5 DEF remember_old, Goto, InBarrier, IInv, TypeOK
  <2>2. x \in Block /\ ~Markable(x)
    <3>1. x \in Value /\ Linked(x)
      BY <1>5 DEF IInv, TypeOK, Linked, LinkedBy
    <3> QED BY <3>1 DEF IInv, Bits, TypeOK, Markable
  <2> DEFINE N == remembered[w] \cup {x}
  <2>3. /\ N \in SUBSET Block /\ remembered[w] \subseteq N
        /\ remembered' = [remembered EXCEPT ![w] = N] /\ remembered'[w] = N
    BY <1>1, <1>5, <2>2 DEF remember_old, Push, IInv, TypeOK
  <2>4. \A o : LinkedBy(w, o)' <=> LinkedBy(w, o)
    BY <1>1, <1>5, <2>1, <2>3 DEF LinkedBy
  <2>5. \A o : ~Promises(w, o)
    BY <1>5 DEF Promises
  <2> DEFINE M == {}
  <2>6. /\ M \in SUBSET Block /\ (\A o \in M : Markable(o)) /\ mark' = mark \cup M
        /\ \A o \in Value : LinkedBy(w, o)' <=> LinkedBy(w, o) \/ o \in M
        /\ \A o \in Block : Markable(o) /\ Promises(w, o) => o \in M \/ Promises(w, o)'
        /\ M \subseteq {arg[w].new, arg[w].old} /\ M = {}
    BY <2>1, <2>4, <2>5
  <2> HIDE DEF M, N
  <2> QED BY <1>1, <1>2, <2>1, <2>2, <2>3, <2>6, RememberKeeps
<1> QED BY <1>3, <1>4, <1>5 DEF remember_old

-----------------------------------------------------------------------------
\* A field of o is changed to v.  If a path of white objects leads through the
\* field then the white object is promised; and v is safe, or promised.
LEMMA UpdateKeeps ==
    ASSUME IInv, NEW w \in Worker, pc[w] \in Mutating, NEW l \in {"run", "phase"}, Goto(w, l),
           NEW a \in Arg, arg' = [arg EXCEPT ![w] = a],
           NEW o \in root[w], NEW v \in root[w] \cup {Null}, fld' = [fld EXCEPT ![o] = v],
           UNCHANGED <<used, owner, target, global, mark, root, allocator, phase, signal,
                       finish, gap>>,
           \A q \in Value : LinkedBy(w, q)' <=> LinkedBy(w, q),
           \A q \in Block : Promises(w, q) => Promises(w, q)',
           \A q \in Block : ~Endangers(w, q)',
           Snapshot /\ ~Endangered(o) =>
               \A x \in Block : fld[o] = x /\ Markable(x) => Promises(w, x)',
           Snapshot => Scanned(w) \/ ~Markable(v) \/ Promises(w, v)',
           Updating(w)' => a.obj \in root[w] /\ a.new \in root[w] \cup {Null}
                           /\ a.old \in used \cup {Null} /\ (Clean => ~Markable(a.old))
                           /\ (Snapshot /\ Scanned(w) => Safe(a.old)),
           ~Updating(w)' => ~a.cas
    PROVE  IInv'
<1>1. /\ o \in Block /\ o \in used /\ Kept(o) /\ v \in Value
      /\ v # Null => Kept(v)
  BY DEF IInv, TypeOK, Heap, Kept, Value
<1>2. TypeOK /\ TypeOK'
  BY <1>1 DEF IInv, TypeOK, Goto, Mutating, PC, Arg, allocator, signal, finish
<1>3. /\ arg'[w] = a /\ pc'[w] = l
      /\ \A u \in Worker \ {w} : arg'[u] = arg[u] /\ pc'[u] = pc[u]
  BY <1>2 DEF TypeOK, Goto
<1>4. fld'[o] = v /\ \A q \in Block \ {o} : fld'[q] = fld[q]
  BY <1>1, <1>2 DEF TypeOK
<1>5. /\ Snapshot' <=> Snapshot
      /\ \A u \in Worker : Scanned(u)' <=> Scanned(u)
  BY DEF Snapshot, Scanned, signal
<1>6. \A u \in Worker \ {w} : Updating(u)' <=> Updating(u)
  BY <1>3 DEF Updating
<1>7. \A u \in Worker \ {w} : \A q :
        /\ LinkedBy(u, q)' <=> LinkedBy(u, q)
        /\ Promises(u, q)' <=> Promises(u, q)
  BY <1>3, <1>5 DEF LinkedBy, Promises, allocator
<1>8. \A u \in Worker \ {w}, q \in Block \ {o} : Endangers(u, q)' <=> Endangers(u, q)
  BY <1>3, <1>4, <1>6 DEF Endangers
<1>9. \A q : Markable(q)' <=> Markable(q)
  BY DEF Markable
<1>10. \A q \in Value : Linked(q)' <=> Linked(q)
  BY <1>7 DEF Linked
<1>11. \A q \in Block : Untraced(q)' <=> Untraced(q)
  BY <1>9, <1>10 DEF Untraced, Value
<1>12. \A q \in Block \ {o} : Endangered(q)' => Endangered(q)
  BY <1>8 DEF Endangered
<1>13. \A q \in Block : Markable(q) /\ (Promised(q) \/ Promises(w, q)') => Sought(q)'
  <2>1. \A q \in Block : Promised(q) \/ Promises(w, q)' => Promised(q)'
    BY <1>7 DEF Promised, signal
  <2> QED BY <1>9, <2>1 DEF Sought
<1>14. Snapshot => \A q \in Value : Safe(q) => Safe(q)'
  <2> SUFFICES ASSUME Snapshot, NEW q \in Value, Safe(q) PROVE Safe(q)'
    OBVIOUS
  <2>1. \A p \in Block : Linked(p) => ~Markable(p)'
    BY <1>9 DEF IInv, Bits, Markable, Value
  <2>2. \A p \in Block : Markable(p)' /\ Promised(p) => Sought(p)'
    BY <1>9, <1>13
  <2>3. ASSUME NEW p \in Block, NEW x \in Block, fld[p] = x, Untraced(p), ~Endangered(p),
               Markable(x)'
        PROVE  \/ Untraced(p)' /\ ~Endangered(p)' /\ fld'[p] = x
               \/ Sought(x)'
    <3>1. CASE p = o
      BY <1>9, <1>13, <2>3, <3>1
    <3>2. CASE p # o
      BY <1>4, <1>11, <1>12, <2>3, <3>2
    <3> QED BY <3>1, <3>2
  <2> QED BY <1>2, <1>9, <2>1, <2>2, <2>3, SafeKept
<1>15. Snapshot => Safe(v)'
  <2> SUFFICES ASSUME Snapshot PROVE Safe(v)'
    OBVIOUS
  <2>1. CASE ~Markable(v)
    BY <1>9, <2>1 DEF Safe
  <2>2. CASE Scanned(w)
    <3>1. Safe(v)
      BY <1>2, <2>2, NullIsSafe DEF IInv, Tricolor
    <3> QED BY <1>1, <1>14, <3>1
  <2>3. CASE Markable(v) /\ Promises(w, v)'
    <3>1. v \in Block
      BY <1>2, <2>3 DEF TypeOK, Markable
    <3>2. Sought(v)'
      BY <1>13, <2>3, <3>1
    <3>3. Protected(v)'
      BY <3>1, <3>2 DEF Protected, Covers
    <3> QED BY <3>3 DEF Safe
  <2> QED BY <2>1, <2>2, <2>3
<1>16. Signals'
  BY MutatorSignals DEF IInv, Mutating
<1>17. Heap'
  <2>1. \A q : Kept(q)' <=> Kept(q)
    BY DEF Kept, signal
  <2> QED BY <1>1, <1>4, <2>1 DEF IInv, Heap
<1>18. Arguments'
  BY <1>3, <1>6 DEF IInv, Arguments, signal
<1>19. Bits'
  <2>1. mark' \subseteq used' /\ \A q \in Value : Linked(q)' => q \in mark'
    BY <1>10 DEF IInv, Bits
  <2>2. sig' \in {PRESYNC1, PRESYNC2} => \A q \in mark' : Linked(q)'
    BY <1>2, <1>10 DEF IInv, Bits, signal, Value, TypeOK
  <2>3. \A u \in Worker : (stack'[u] # {} => pc'[u] = "trace")
                          /\ (phase'[u] = MARK => root_set'[u] = {})
    BY <1>3 DEF IInv, Bits, Mutating, allocator
  <2> QED BY <1>5, <2>1, <2>2, <2>3 DEF IInv, Bits, signal
<1>20. Reclaim'
  <2> SUFFICES ASSUME sig = PREASYNC PROVE Reclaim'
    BY DEF Reclaim, signal
  <2> QED BY <1>6, <1>10 DEF IInv, Reclaim, signal
<1>21. Barriers'
  BY <1>3, <1>5, <1>9 DEF IInv, Barriers, signal
<1>22. Tricolor'
  <2> SUFFICES ASSUME Snapshot PROVE Tricolor'
    BY <1>5 DEF Tricolor
  <2>1. \A u \in Worker : Scanned(u)' => \A q \in root'[u] : Safe(q)'
    BY <1>2, <1>5, <1>14 DEF IInv, Tricolor, TypeOK, Value
  <2>4. \A u \in Worker : Scanned(u)' /\ Updating(u)' => Safe(arg'[u].old)
    BY <1>3, <1>5, <1>6 DEF IInv, Tricolor
  <2>5. ASSUME NEW u \in Worker, Scanned(u)', Updating(u)'
        PROVE  Safe(arg[u].old)'
    <3>1. PICK x \in Value : x = arg'[u].old
      BY <1>2 DEF TypeOK
    <3>2. Safe(x)'
      BY <1>14, <2>4, <2>5, <3>1
    <3> QED BY <3>1, <3>2
  <2>2. \A q \in global' : Safe(q)'
    BY <1>2, <1>14 DEF IInv, Tricolor, TypeOK, Value
  <2>3. ASSUME NEW q \in used', ~Untraced(q)' \/ Endangered(q)'
        PROVE  Safe(fld[q])'
    <3>1. q \in used /\ q \in Block /\ fld[q] \in Value
      BY <1>2 DEF TypeOK
    <3>2. CASE q = o
      BY <1>4, <1>15, <3>2
    <3>3. CASE q # o
      <4>1. Safe(fld[q]) /\ fld'[q] = fld[q]
        BY <1>4, <1>11, <1>12, <2>3, <3>1, <3>3 DEF IInv, Tricolor
      <4>2. PICK x \in Value : x = fld[q]
        BY <3>1
      <4>3. Safe(x)'
        BY <1>14, <4>1, <4>2
      <4> QED BY <4>1, <4>2, <4>3
    <3> QED BY <3>2, <3>3
  <2> QED BY <2>1, <2>2, <2>3, <2>5 DEF Tricolor
<1>23. Finish'
  <2> SUFFICES ASSUME toSee # {}, round = 2, gap = "no"
               PROVE  Clean' \/ \E u \in toSee : remembered'[u] # {}
    BY DEF IInv, Finish, finish
  <2>1. CASE \E u \in toSee : remembered[u] # {}
    BY <2>1 DEF allocator
  <2>2. CASE Clean
    <3>1. \A u \in Worker : Updating(u)' => ~Markable(arg'[u].old)
      BY <1>3, <1>6, <2>2 DEF Clean
    <3>2. \A q \in used : ~Markable(q) => ~Markable(fld'[q])
      BY <1>2, <1>4, <2>2, NullIsSafe DEF Clean, TypeOK
    <3> QED BY <1>9, <1>10, <2>2, <3>1, <3>2 DEF Clean
  <2> QED BY <2>1, <2>2 DEF IInv, Finish
<1> QED BY <1>2, <1>16, <1>17, <1>18, <1>19, <1>20, <1>21, <1>22, <1>23 DEF IInv

\* The end of an update.  sml_write stores the new value: what it overwrites has
\* been remembered, or another update has been there since and the field leads to
\* what is protected otherwise.
LEMMA StoreKeeps ==
    ASSUME IInv, NEW w \in Worker, store(w), gap' = gap
    PROVE  IInv'
<1> DEFINE o == arg[w].obj
           v == arg[w].new
           a == NoArg
<1>1. /\ pc[w] = "store" /\ pc'[w] = "run" /\ Goto(w, "run")
      /\ arg' = [arg EXCEPT ![w] = a] /\ arg'[w] = a
      /\ UNCHANGED <<used, owner, target, global, mark, root, allocator, phase, signal, finish>>
  BY DEF store, IInv, TypeOK, Goto
<1>2. a \in Arg
  BY DEF Arg, NoArg, Value
<1>3. ~a.cas
  BY DEF NoArg
<1>4. o \in root[w] /\ v \in root[w] \cup {Null}
  BY <1>1 DEF IInv, Arguments, Updating
<1>5. pc[w] \in Mutating /\ "run" \in Mutating
  BY <1>1 DEF Mutating
<1>6. /\ \A q : LinkedBy(w, q)' <=> LinkedBy(w, q)
      /\ \A q : ~Promises(w, q)
      /\ \A q : ~Endangers(w, q)'
      /\ ~Updating(w)'
  BY <1>1 DEF LinkedBy, Promises, Endangers, Updating, allocator
<1>7. CASE arg[w].cas
  <2>1. fld' = fld
    BY <1>7 DEF store
  <2>2. UNCHANGED <<heap, mark, root, allocator, phase, signal, finish>>
    BY <1>1, <2>1 DEF heap
  <2> HIDE DEF a
  <2> QED BY <1>1, <1>2, <1>3, <1>5, <1>6, <2>2, ControlKeeps
<1>8. CASE ~arg[w].cas
  <2>1. fld' = [fld EXCEPT ![o] = v]
    BY <1>8 DEF store
  <2>2. Snapshot /\ ~Endangered(o) => ~Markable(fld[o])
    <3>1. Endangers(w, o) \/ arg[w].old = fld[o]
      BY <1>1, <1>8 DEF Endangers, Updating
    <3> QED BY <1>1, <1>8, <3>1, SnapshotPhases DEF Endangered, IInv, Barriers
  <2>3. Snapshot => Scanned(w) \/ ~Markable(v)
    BY <1>1, <1>8, SnapshotPhases DEF IInv, Barriers
  <2> HIDE DEF a, o, v
  <2> QED BY <1>1, <1>2, <1>3, <1>4, <1>5, <1>6, <2>1, <2>2, <2>3, UpdateKeeps
<1> QED BY <1>7, <1>8

\* sml_cmpswap stores first: it promises to remember what it has overwritten and,
\* before its own roots are enumerated, what it has stored.
LEMMA CmpswapKeeps ==
    ASSUME IInv, NEW w \in Worker, sml_cmpswap(w), gap' = gap
    PROVE  IInv'
<1>1. PICK o \in root[w], v \in root[w] \cup {Null} : sml_cmpswap(w)!(o, v)
  BY DEF sml_cmpswap
<1> DEFINE a == [obj |-> o, new |-> v, old |-> fld[o], cas |-> TRUE]
<1>2. o \in Block /\ o \in used /\ v \in Value /\ fld[o] \in Value /\ Kept(o)
  BY DEF IInv, TypeOK, Heap, Kept, Value
<1>3. a \in Arg
  BY <1>2 DEF Arg, Value
<1>4. a.obj = o /\ a.new = v /\ a.old = fld[o] /\ a.cas
  OBVIOUS
<1>5. fld[o] \in used \cup {Null} /\ (Clean => ~Markable(fld[o]))
  BY <1>2, NullIsSafe DEF IInv, Heap, Kept, Clean
<1> HIDE DEF a
<1>6. /\ pc[w] = "run" /\ pc'[w] = "phase" /\ arg' = [arg EXCEPT ![w] = a] /\ arg'[w] = a
      /\ Goto(w, "phase") /\ fld' = [fld EXCEPT ![o] = v]
      /\ UNCHANGED <<used, owner, target, global, mark, root, allocator, phase, signal, finish>>
  BY <1>1 DEF a, IInv, TypeOK, Goto
<1>7. Updating(w)'
  BY <1>6 DEF Updating
<1>8. /\ \A q : LinkedBy(w, q)' <=> LinkedBy(w, q)
      /\ \A q : ~Promises(w, q)
      /\ \A q : ~Endangers(w, q)'
  BY <1>4, <1>6 DEF LinkedBy, Promises, Endangers, allocator
<1>9. /\ \A x : fld[o] = x => Promises(w, x)'
      /\ Scanned(w) \/ Promises(w, v)'
  BY <1>4, <1>6 DEF Promises, Scanned, signal
<1>10. pc[w] \in Mutating
  BY <1>6 DEF Mutating
<1>11. Snapshot /\ Scanned(w) => Safe(fld[o])
  BY <1>2, SuccessorSafe DEF IInv, Tricolor
<1> QED BY <1>3, <1>4, <1>5, <1>6, <1>7, <1>8, <1>9, <1>10, <1>11, UpdateKeeps

-----------------------------------------------------------------------------
\* sml_alloc: a new object is black if its allocator has taken its snapshot, or
\* white and then only known to a mutator whose roots are not enumerated.
LEMMA AllocKeeps ==
    ASSUME IInv, NEW w \in Worker, sml_alloc(w), gap' = gap
    PROVE  IInv'
<1>1. PICK o \in Block \ used, v \in root[w] \cup {Null} : sml_alloc(w)!(o, v)
  BY DEF sml_alloc
<1>2. /\ v \in Value /\ (v # Null => Kept(v)) /\ v # o
      /\ o \notin target /\ o \notin mark /\ fld[o] = Null
      /\ \A u \in Worker : o \notin root[u]
      /\ o \notin global
      /\ \A q \in Block : Kept(q) => fld[q] # o
  <2>1. o \notin target /\ o \notin mark /\ fld[o] = Null
    BY DEF IInv, TypeOK, Heap, Bits
  <2>2. /\ \A u \in Worker : o \notin root[u]
        /\ o \notin global
    BY DEF IInv, Heap, Kept
  <2>3. v \in Value /\ (v # Null => Kept(v)) /\ v # o
    BY <2>2, NullAssumption DEF IInv, Heap, TypeOK, Value
  <2>4. \A q \in Block : Kept(q) => fld[q] # o
    BY NullAssumption DEF IInv, Heap, Kept
  <2> QED BY <2>1, <2>2, <2>3, <2>4
<1>3. TypeOK /\ TypeOK'
  BY <1>1, <1>2 DEF IInv, TypeOK, allocator, signal, finish
<1>4. /\ fld'[o] = v /\ owner'[o] = w /\ used' = used \cup {o} /\ o \notin used
      /\ \A q \in Block \ {o} : fld'[q] = fld[q] /\ owner'[q] = owner[q]
      /\ root'[w] = root[w] \cup {o} /\ \A u \in Worker \ {w} : root'[u] = root[u]
      /\ target' = IF AllocatesTarget(phase[w]) THEN target \cup {o} ELSE target
      /\ UNCHANGED <<global, mark, allocator, pc, arg, phase, signal, finish>>
      /\ pc[w] = "run"
  BY <1>1, <1>3 DEF TypeOK
<1>5. /\ Snapshot' <=> Snapshot
      /\ \A u \in Worker : Scanned(u)' <=> Scanned(u)
      /\ \A u \in Worker : Updating(u)' <=> Updating(u)
  BY <1>4 DEF Snapshot, Scanned, Updating, signal
<1>6. /\ \A q : q # o => (Markable(q)' <=> Markable(q))
      /\ Markable(o)' <=> AllocatesTarget(phase[w])
      /\ ~Markable(o)
  BY <1>2, <1>4 DEF Markable
<1>7. /\ \A q : Linked(q)' <=> Linked(q)
      /\ \A q : Promised(q)' <=> Promised(q)
  <2>1. \A u \in Worker : \A q : /\ LinkedBy(u, q)' <=> LinkedBy(u, q)
                                 /\ Promises(u, q)' <=> Promises(u, q)
    BY <1>4, <1>5 DEF LinkedBy, Promises, allocator
  <2> QED BY <1>4, <2>1 DEF Linked, Promised, signal
<1>8. ~Linked(o)
  BY <1>2 DEF IInv, Bits, Value
<1>9. \A u \in Worker : Updating(u) => arg[u].obj # o
  BY <1>2 DEF IInv, Arguments
<1>10. /\ \A q \in Block \ {o} : Endangered(q)' <=> Endangered(q)
       /\ ~Endangered(o)'
  <2>1. \A u \in Worker, q \in Block \ {o} : Endangers(u, q)' <=> Endangers(u, q)
    BY <1>4, <1>5 DEF Endangers
  <2>2. \A u \in Worker : ~Endangers(u, o)'
    BY <1>4, <1>5, <1>9 DEF Endangers
  <2> QED BY <2>1, <2>2 DEF Endangered
<1>11. \A q \in Block \ {o} : Untraced(q)' <=> Untraced(q)
  BY <1>6, <1>7 DEF Untraced
<1>12. \A q \in Value : q # o /\ Safe(q) => Safe(q)'
  <2> SUFFICES ASSUME NEW q \in Value, q # o, Safe(q) PROVE Safe(q)'
    OBVIOUS
  <2>1. \A p \in Block : Linked(p) => ~Markable(p)'
    BY <1>6, <1>8 DEF IInv, Bits, Markable, Value
  <2>2. \A p \in Block : Markable(p)' /\ Promised(p) => Sought(p)'
    BY <1>7 DEF Sought
  <2>3. \A p \in Block : Untraced(p) /\ ~Endangered(p) =>
            Untraced(p)' /\ ~Endangered(p)' /\ fld'[p] = fld[p]
    BY <1>4, <1>6, <1>8, <1>10, <1>11 DEF Untraced
  <2> QED BY <1>3, <1>6, <2>1, <2>2, <2>3, SafeKept
<1>13. Snapshot => (AllocatesTarget(phase[w]) <=> ~Scanned(w))
  <2> SUFFICES ASSUME Snapshot PROVE AllocatesTarget(phase[w]) <=> ~Scanned(w)
    OBVIOUS
  <2>1. phase[w] \in 0 .. 7 /\ phase[w] >= SYNC1 /\ (Scanned(w) <=> phase[w] > PRESYNC2)
    BY <1>3, SnapshotPhases DEF IInv, TypeOK, Phase
  <2> QED BY <2>1 DEF AllocatesTarget, ASYNC, PRESYNC2, SYNC1
<1>14. Signals'
  BY <1>4 DEF IInv, Signals, signal, finish
<1>15. Heap'
  <2>1. \A q \in Block \ {o} : Kept(q)' <=> Kept(q)
    BY <1>4 DEF Kept, signal
  <2>2. Kept(o)'
    BY <1>2, <1>4 DEF Kept, AllocatesTarget, IInv, Signals, signal, TypeOK,
       Phase,
       PREASYNC, ASYNC, MARK, Before, PRESYNC2
  <2>3. \A q \in Block : q \in used' <=> owner'[q] # Null
    BY <1>3, <1>4, NullAssumption DEF IInv, Heap, TypeOK
  <2>4. \A q \in Block : q \notin used' => fld'[q] = Null
    BY <1>4 DEF IInv, Heap
  <2>5. \A u \in Worker : \A q \in root'[u] : Kept(q)'
    BY <1>3, <1>4, <2>1, <2>2 DEF IInv, Heap, TypeOK
  <2>6. \A q \in global' : Kept(q)'
    BY <1>2, <1>3, <1>4, <2>1 DEF IInv, Heap, TypeOK
  <2>7. ASSUME NEW q \in Block, Kept(q)', fld'[q] # Null
        PROVE  Kept(fld[q])'
    <3>1. PICK x \in Block : x = fld'[q]
      BY <1>3, <2>7 DEF TypeOK, Value
    <3>2. Kept(x) /\ x # o
      BY <1>2, <1>4, <2>1, <2>7, <3>1 DEF IInv, Heap
    <3>3. Kept(x)'
      BY <2>1, <3>2
    <3> QED BY <3>1, <3>3
  <2> QED BY <2>3, <2>4, <2>5, <2>6, <2>7 DEF Heap
<1>16. Arguments'
  BY <1>4, <1>5 DEF IInv, Arguments, signal
<1>17. Bits'
  <2>1. ~Snapshot' /\ sig' # PREASYNC => used' \subseteq target'
    <3> SUFFICES ASSUME ~Snapshot, sig # PREASYNC PROVE used' \subseteq target'
      BY <1>4, <1>5 DEF signal
    <3>1. AllocatesTarget(phase[w])
      <4>1. sig = PRESYNC1 \/ (sig = PRESYNC2 /\ phase[w] # SYNC2)
        BY DEF IInv, Signals, Snapshot
      <4>2. phase[w] \in Before(sig) \cup {sig, sig + 1}
        BY DEF IInv, Signals, PREASYNC, PRESYNC1, PRESYNC2, PREMARK, MARK
      <4> QED BY <4>1, <4>2 DEF Before, AllocatesTarget, PREASYNC, ASYNC,
         PRESYNC1,
                 SYNC1, PRESYNC2, SYNC2, PREMARK, MARK
    <3> QED BY <1>4, <3>1 DEF IInv, Bits
  <2> QED BY <1>4, <1>5, <1>7, <2>1 DEF IInv, Bits, signal, allocator
<1>18. Reclaim'
  <2> SUFFICES ASSUME sig = PREASYNC PROVE Reclaim'
    BY <1>4 DEF Reclaim, signal
  <2>1. \A q \in used' : phase'[owner'[q]] = ASYNC => q \in target' /\ q \notin mark'
    BY <1>2, <1>3, <1>4 DEF IInv, Reclaim, TypeOK, AllocatesTarget, ASYNC,
       PRESYNC2
  <2> QED BY <1>4, <1>5, <1>7, <2>1 DEF IInv, Reclaim
<1>19. \A u \in Worker : Updating(u) /\ sig # PREASYNC /\ phase[u] >= SYNC1 =>
           arg[u].old # o /\ arg[u].new # o
  BY <1>2, NullAssumption DEF IInv, Arguments
<1>20. Barriers'
  <2>1. \A u \in Worker : pc[u] \in {"pushnew", "old", "pushold", "store"} => Updating(u)
    BY DEF Updating
  <2> QED BY <1>4, <1>5, <1>6, <1>19, <2>1 DEF IInv, Barriers, signal
<1>21. Tricolor'
  <2> SUFFICES ASSUME Snapshot PROVE Tricolor'
    BY <1>5 DEF Tricolor
  <2>1. \A u \in Worker : Scanned(u) => \A q \in root[u] : Safe(q)'
    BY <1>2, <1>3, <1>12 DEF IInv, Tricolor, TypeOK, Value
  <2>2. Scanned(w) => Safe(o)'
    BY <1>6, <1>13 DEF Safe
  <2>3. \A u \in Worker : Scanned(u)' => \A q \in root'[u] : Safe(q)'
    BY <1>4, <1>5, <2>1, <2>2
  <2>6. ASSUME NEW u \in Worker, Scanned(u)', Updating(u)'
        PROVE  Safe(arg[u].old)'
    <3>1. PICK x \in Value : x = arg[u].old
      BY <1>3 DEF TypeOK
    <3>2. Safe(x) /\ x # o /\ arg'[u].old = x
      BY <1>3, <1>4, <1>5, <1>19, <2>6, <3>1, SnapshotPhases DEF IInv, Tricolor
    <3> QED BY <1>12, <3>2
  <2>4. \A q \in global' : Safe(q)'
    BY <1>2, <1>3, <1>4, <1>12 DEF IInv, Tricolor, TypeOK, Value
  <2>5. ASSUME NEW q \in used', ~Untraced(q)' \/ Endangered(q)'
        PROVE  Safe(fld[q])'
    <3>1. CASE q = o
      <4>1. Scanned(w)
        BY <1>6, <1>10, <1>13, <2>5, <3>1 DEF Untraced
      <4>2. Safe(v)'
        <5>1. Safe(v)
          BY <1>3, <4>1, NullIsSafe DEF IInv, Tricolor
        <5> QED BY <1>2, <1>12, <5>1
      <4> QED BY <1>4, <3>1, <4>2
    <3>2. CASE q # o
      <4>1. q \in used /\ q \in Block /\ fld[q] \in Value /\ fld'[q] = fld[q]
        BY <1>3, <1>4, <3>2 DEF TypeOK
      <4>2. Safe(fld[q])
        BY <1>10, <1>11, <2>5, <3>2, <4>1 DEF IInv, Tricolor
      <4>3. fld[q] # o
        BY <1>2, <1>3, <4>1, SnapshotPhases DEF IInv, Kept
      <4>4. PICK x \in Value : x = fld[q]
        BY <4>1
      <4>5. Safe(x)'
        BY <1>12, <4>2, <4>3, <4>4
      <4> QED BY <4>1, <4>4, <4>5
    <3> QED BY <3>1, <3>2
  <2> QED BY <2>3, <2>4, <2>5, <2>6 DEF Tricolor
<1>22. Finish'
  <2> SUFFICES ASSUME toSee # {}, round = 2, gap = "no"
               PROVE  Clean' \/ \E u \in toSee : remembered'[u] # {}
    BY <1>4 DEF IInv, Finish, finish
  <2>1. CASE \E u \in toSee : remembered[u] # {}
    BY <1>4, <2>1 DEF allocator
  <2>2. CASE Clean
    <3>1. sig = PREMARK /\ Snapshot /\ Scanned(w)
      BY DEF IInv, Signals, Snapshot, Scanned
    <3>2. \A q : Markable(q)' <=> Markable(q)
      BY <1>6, <1>13, <3>1
    <3>3. \A q \in used' : ~Markable(q) => ~Markable(fld'[q])
      BY <1>3, <1>4, <2>2, NullIsSafe DEF Clean, TypeOK
    <3>4. \A u \in Worker : \A q \in root'[u] : ~Markable(q)
      BY <1>4, <1>6, <2>2 DEF Clean
    <3> QED BY <1>4, <1>5, <1>7, <2>2, <3>2, <3>3, <3>4 DEF Clean
  <2> QED BY <2>1, <2>2 DEF IInv, Finish
<1> QED BY <1>3, <1>14, <1>15, <1>16, <1>17, <1>18, <1>20, <1>21, <1>22 DEF IInv

-----------------------------------------------------------------------------
(*****************************************************************************)
(* The collector, and the theorems                                           *)
(*****************************************************************************)

\* A worker that executes the action of a signal has got this signal.
LEMMA PendingSignal ==
    ASSUME TypeOK, Signals, NEW w \in Worker,
           NEW p \in {PREASYNC, PRESYNC1, PRESYNC2, PREMARK}, Pending(w, p)
    PROVE  w \in owing \ unsent /\ sig = p /\ pc[w] = "run" /\ phase[w] = p
<1>1. sig \in {PREASYNC, PRESYNC1, PRESYNC2, PREMARK} /\ pc[w] = "run" /\ phase[w] = p
  BY DEF Signals, Pending
<1>2. w \notin unsent
  BY <1>1 DEF Signals, Before, PREASYNC, PRESYNC1, PRESYNC2, PREMARK, SYNC2,
     MARK
<1>3. w \in owing
  BY <1>1 DEF Signals, PREASYNC, PRESYNC1, PRESYNC2, PREMARK
<1> QED BY <1>1, <1>2, <1>3 DEF Signals

\* The phase of a worker that accepts a signal.
LEMMA Accepted ==
    ASSUME TypeOK, NEW w \in Worker, AcceptSignal(w),
           NEW p \in {PREASYNC, PRESYNC1, PRESYNC2, PREMARK}, phase[w] = p
    PROVE  /\ phase' \in [Worker -> Phase]
           /\ phase'[w] = p + 1 /\ \A v \in Worker \ {w} : phase'[v] = phase[v]
<1>1. Accept(p) = p + 1 /\ p + 1 \in Phase
  BY DEF Accept, Phase, PREASYNC, PRESYNC1, PRESYNC2, PREMARK
<1>2. phase' = [phase EXCEPT ![w] = p + 1] /\ phase \in [Worker -> Phase]
  BY <1>1 DEF AcceptSignal, TypeOK
<1> HIDE DEF Phase
<1> QED BY <1>1, <1>2

\* When all workers but w have answered, they are all in the same phase, and
\* nobody sends or traces.
LEMMA LastAnswer ==
    ASSUME TypeOK, Signals, NEW w \in Worker, owing = {w}, w \notin unsent
    PROVE  /\ unsent = {}
           /\ \A v \in Worker \ {w} : phase[v] = sig + 1 /\ pc[v] # "trace"
           /\ \A v \in Worker : pc[v] \notin {"send", "finish"}
           /\ toSee = {}
  BY DEF Signals

\* The handshake when a worker answers SYNC1 or SYNC2.
LEMMA AnswerSignals ==
    ASSUME TypeOK, Signals, NEW w \in Worker, NEW s \in {PRESYNC1, PRESYNC2},
           Pending(w, s), AcceptSignal(w), Answer(w, s + 2), UNCHANGED <<gc_count, finish>>,
           genum' # Null => sig' = PRESYNC2 /\ genum' \in owing',
           sig' = PRESYNC2 /\ owing' = Worker => genum' # Null
    PROVE  Signals'
<1>1. /\ s \in {PREASYNC, PRESYNC1, PRESYNC2, PREMARK}
      /\ s + 2 \in {PREASYNC, PRESYNC1, PRESYNC2, PREMARK}
      /\ s + 1 \in Before(s + 2) /\ s # PREMARK /\ s # PREASYNC
      /\ s + 2 # PREASYNC
  BY DEF Before, PREASYNC, PRESYNC1, PRESYNC2, PREMARK, MARK, SYNC2
<1>2. w \in owing \ unsent /\ sig = s /\ pc[w] = "run" /\ phase[w] = s
  BY <1>1, PendingSignal
<1>3. phase'[w] = s + 1 /\ \A v \in Worker \ {w} : phase'[v] = phase[v]
  BY <1>1, <1>2, Accepted
<1>4. gc_count < MaxGC /\ toSee = {} /\ \A v \in Worker : pc[v] # "trace" /\ pc[v] # "finish"
  BY <1>1, <1>2 DEF Signals
<1>5. CASE owing = {w}
  <2>1. /\ unsent' = Worker /\ owing' = Worker /\ sig' = s + 2
        /\ pc'[w] = "send" /\ \A v \in Worker \ {w} : pc'[v] = pc[v]
    BY <1>5 DEF Answer, Issue, Goto, TypeOK
  <2>2. \A v \in Worker : phase'[v] = s + 1
    BY <1>2, <1>3, <1>5, LastAnswer
  <2>3. \A v \in Worker \ {w} : pc'[v] \notin {"send", "finish", "trace"}
    BY <1>2, <1>4, <1>5, <2>1, LastAnswer
  <2> QED BY <1>1, <1>4, <2>1, <2>2, <2>3 DEF Signals, finish
<1>6. CASE owing # {w}
  <2>1. /\ unsent' = unsent /\ owing' = owing \ {w} /\ sig' = s /\ pc' = pc
    BY <1>2, <1>6 DEF Answer, Goto, TypeOK
  <2> QED BY <1>1, <1>2, <1>3, <1>4, <2>1 DEF Signals, finish
<1> QED BY <1>5, <1>6

-----------------------------------------------------------------------------
\* A step of the handshake that sets no bit and neither adds to what is to be
\* traced nor takes from it.
LEMMA QuietKeeps ==
    ASSUME IInv, TypeOK', Signals', UNCHANGED <<heap, mark, root, arg, sig, genum>>,
           \A v \in Worker : pc'[v] = pc[v] \/ (~Updating(v) /\ ~Updating(v)'),
           \A v \in Worker : Scanned(v)' <=> Scanned(v),
           sig = PREASYNC => \A v \in Worker : phase'[v] = ASYNC <=> phase[v] = ASYNC,
           \A v \in Worker : phase'[v] >= SYNC1 => phase[v] >= SYNC1,
           \A o \in Value : Linked(o)' <=> Linked(o),
           \A v \in Worker : /\ stack'[v] # {} => pc'[v] = "trace"
                             /\ phase'[v] = MARK => root_set'[v] = {},
           Finish'
    PROVE  IInv'
<1>1. TypeOK
  BY DEF IInv
<1>2. Snapshot' <=> Snapshot
  <2>1. Snapshot <=> sig = PREMARK \/ \E v \in Worker : Scanned(v)
    BY DEF Snapshot, Scanned
  <2>2. Snapshot' <=> sig' = PREMARK \/ \E v \in Worker : Scanned(v)'
    BY DEF Snapshot, Scanned
  <2> QED BY <2>1, <2>2
<1>3. \A v \in Worker : Updating(v)' <=> Updating(v)
  BY DEF Updating
<1>4. \A v \in Worker, o \in Block : /\ Promises(v, o)' <=> Promises(v, o)
                                     /\ Endangers(v, o)' <=> Endangers(v, o)
  BY <1>3 DEF Promises, Endangers, Updating, heap
<1>5. \A o : Markable(o)' <=> Markable(o)
  BY DEF Markable, heap
<1>6. \A o \in Block : /\ Endangered(o)' <=> Endangered(o)
                       /\ Sought(o)' <=> Sought(o)
                       /\ Untraced(o)' <=> Untraced(o)
  BY <1>4, <1>5 DEF Endangered, Sought, Promised, Untraced, Value, heap
<1>7. \A S \in SUBSET Block : Covers(S)' <=> Covers(S)
  BY <1>5, <1>6 DEF Covers, heap
<1>8. \A o : Safe(o)' <=> Safe(o)
  BY <1>5, <1>7 DEF Safe, Protected
<1>9. Heap'
  <2>1. \A o \in Block : Kept(o)' <=> Kept(o)
    BY DEF Kept, IInv, Heap, TypeOK, heap
  <2> QED BY <1>1, <2>1 DEF IInv, Heap, TypeOK, Value, heap
<1>10. Arguments'
  BY <1>3 DEF IInv, Arguments, heap
<1>11. Bits'
  BY <1>1, <1>2 DEF IInv, Bits, TypeOK, Value, heap
<1>12. Reclaim'
  BY <1>1, <1>3 DEF IInv, Reclaim, Heap, TypeOK, heap
<1>13. Barriers'
  BY <1>2, <1>5 DEF IInv, Barriers, Updating
<1>14. Tricolor'
  BY <1>1, <1>2, <1>3, <1>6, <1>8 DEF IInv, Tricolor, TypeOK, heap
<1> QED BY <1>9, <1>10, <1>11, <1>12, <1>13, <1>14 DEF IInv

\* One iteration of change_phase.
LEMMA ChangePhaseKeeps ==
    ASSUME IInv, NEW w \in Worker, change_phase(w), gap' = gap
    PROVE  IInv'
<1>1. PICK v \in unsent : change_phase(w)!(v)
  BY DEF change_phase
<1>2. TypeOK /\ Signals /\ v \in Worker /\ v \in owing
  BY DEF IInv, TypeOK, Signals
<1>3. /\ phase'[v] = sig /\ \A u \in Worker \ {v} : phase'[u] = phase[u]
      /\ phase' \in [Worker -> Phase]
      /\ pc[w] = "send" /\ \A u \in Worker \ {w} : pc'[u] = pc[u]
      /\ pc'[w] = IF unsent = {v} THEN "run" ELSE "send"
      /\ pc' \in [Worker -> PC]
      /\ unsent' = unsent \ {v}
      /\ UNCHANGED <<heap, mark, root, allocator, arg, sig, owing, genum, gc_count, finish>>
  BY <1>1, <1>2 DEF TypeOK, Goto, PC
<1>4. phase[v] \in Before(sig) /\ pc[v] # "trace"
  BY <1>2 DEF Signals
<1>5. TypeOK'
  BY <1>2, <1>3 DEF TypeOK, heap, allocator, finish
<1>6. Signals'
  <2>1. \A u \in Worker : /\ pc'[u] = "trace" <=> pc[u] = "trace"
                          /\ pc'[u] = "finish" <=> pc[u] = "finish"
                          /\ pc'[u] = "send" <=> u = w /\ unsent' # {}
    BY <1>2, <1>3 DEF Signals
  <2> QED BY <1>2, <1>3, <1>4, <2>1 DEF Signals, finish
<1>7. /\ phase[v] # ASYNC \/ sig = PRESYNC1
      /\ sig >= SYNC1 => phase[v] >= SYNC1
      /\ sig \notin {ASYNC, SYNC2, MARK}
      /\ sig = PRESYNC2 => phase[v] # SYNC2
  BY <1>2, <1>4 DEF Signals, Before, PREASYNC, ASYNC, PRESYNC1, SYNC1, PRESYNC2,
     SYNC2, PREMARK, MARK
<1>8. \A u \in Worker : pc'[u] = pc[u] \/ (~Updating(u) /\ ~Updating(u)')
  BY <1>3 DEF Updating
<1>9. \A u \in Worker : Scanned(u)' <=> Scanned(u)
  BY <1>3, <1>7 DEF Scanned, PRESYNC2, SYNC2
<1>10. sig = PREASYNC => \A u \in Worker : phase'[u] = ASYNC <=> phase[u] = ASYNC
  BY <1>3, <1>7 DEF PREASYNC, PRESYNC1
<1>11. \A u \in Worker : phase'[u] >= SYNC1 => phase[u] >= SYNC1
  BY <1>3, <1>7
<1>12. \A o : Linked(o)' <=> Linked(o)
  <2>1. \A u \in Worker : \A o : LinkedBy(u, o)' <=> LinkedBy(u, o)
    BY <1>3 DEF LinkedBy, allocator
  <2> QED BY <2>1 DEF Linked
<1>13. \A u \in Worker : /\ stack'[u] # {} => pc'[u] = "trace"
                         /\ phase'[u] = MARK => root_set'[u] = {}
  BY <1>3, <1>7 DEF IInv, Bits, allocator
<1>14. Finish'
  <2>1. toSee = {}
    BY <1>2, <1>3 DEF Signals
  <2> QED BY <1>3, <2>1 DEF IInv, Finish, finish
<1> QED BY <1>3, <1>5, <1>6, <1>8, <1>9, <1>10, <1>11, <1>12, <1>13, <1>14,
   QuietKeeps

\* sml_heap_worker_mark: what was linked is on the stack now.
LEMMA MarkKeeps ==
    ASSUME IInv, NEW w \in Worker, worker_mark(w), gap' = gap
    PROVE  IInv'
<1>1. TypeOK /\ Signals /\ Pending(w, PREMARK) /\ AcceptSignal(w)
  BY DEF IInv, worker_mark
<1>2. w \in owing \ unsent /\ sig = PREMARK /\ pc[w] = "run" /\ phase[w] = PREMARK
  BY <1>1, PendingSignal
<1>3. /\ phase' \in [Worker -> Phase]
      /\ phase'[w] = MARK /\ \A v \in Worker \ {w} : phase'[v] = phase[v]
  BY <1>1, <1>2, Accepted DEF PREMARK, MARK
<1>4. /\ pc'[w] = "trace" /\ \A v \in Worker \ {w} : pc'[v] = pc[v]
      /\ stack'[w] = root_set[w] \cup remembered[w]
      /\ root_set'[w] = {} /\ remembered'[w] = {}
      /\ \A v \in Worker \ {w} : /\ stack'[v] = stack[v]
                                 /\ root_set'[v] = root_set[v]
                                 /\ remembered'[v] = remembered[v]
      /\ UNCHANGED <<heap, mark, root, arg, signal, finish>>
  BY <1>1 DEF worker_mark, Goto, TypeOK
<1>5. TypeOK'
  <2>1. pc' \in [Worker -> PC]
    BY <1>1 DEF worker_mark, Goto, TypeOK, PC
  <2>2. /\ stack' \in [Worker -> SUBSET Block]
        /\ root_set' \in [Worker -> SUBSET Block]
        /\ remembered' \in [Worker -> SUBSET Block]
    BY <1>1 DEF worker_mark, TypeOK
  <2> QED BY <1>1, <1>3, <1>4, <2>1, <2>2 DEF TypeOK, heap, signal, finish
<1>6. Signals'
  BY <1>1, <1>2, <1>3, <1>4 DEF Signals, signal, finish
<1>7. stack[w] = {} /\ toSee = {}
  BY <1>1, <1>2 DEF IInv, Bits, Signals
<1>8. \A u \in Worker : pc'[u] = pc[u] \/ (~Updating(u) /\ ~Updating(u)')
  BY <1>2, <1>4 DEF Updating
<1>9. \A u \in Worker : Scanned(u)' <=> Scanned(u)
  BY <1>2, <1>4 DEF Scanned, signal
<1>10. \A u \in Worker : phase'[u] >= SYNC1 => phase[u] >= SYNC1
  BY <1>2, <1>3 DEF PREMARK, SYNC1
<1>11. \A o : Linked(o)' <=> Linked(o)
  <2>1. \A u \in Worker \ {w} : \A o : LinkedBy(u, o)' <=> LinkedBy(u, o)
    BY <1>4 DEF LinkedBy
  <2>2. \A o : LinkedBy(w, o)' <=> LinkedBy(w, o)
    BY <1>2, <1>4, <1>7 DEF LinkedBy
  <2> QED BY <2>1, <2>2 DEF Linked
<1>12. \A u \in Worker : /\ stack'[u] # {} => pc'[u] = "trace"
                         /\ phase'[u] = MARK => root_set'[u] = {}
  BY <1>3, <1>4 DEF IInv, Bits
<1>13. Finish'
  BY <1>4, <1>7 DEF IInv, Finish, finish
<1>14. sig # PREASYNC /\ UNCHANGED <<sig, genum>>
  BY <1>2, <1>4 DEF PREMARK, PREASYNC, signal
<1> QED BY <1>4, <1>5, <1>6, <1>8, <1>9, <1>10, <1>11, <1>12, <1>13, <1>14,
   QuietKeeps

\* If nobody is about to remember an object, and nothing is linked or promised,
\* then nothing white is protected: tracing has ended.
LEMMA NothingLeft ==
    ASSUME IInv, sig = PREMARK, \A v \in Worker : ~Midway(v), \A o \in Value : ~Linked(o)
    PROVE  Clean
<1>1. Snapshot /\ genum = Null /\ \A v \in Worker : Scanned(v)
  BY DEF Snapshot, Scanned, IInv, Signals, PREMARK, PRESYNC2
<1>2. \A v \in Worker : \A o : Markable(o) => ~Promises(v, o)
  BY <1>1 DEF Promises, Midway
<1>3. Covers({})
  BY <1>1, <1>2 DEF Covers, Sought, Promised, Value
<1>4. \A o : Safe(o) => ~Markable(o)
  BY <1>3 DEF Safe, Protected
<1> QED BY <1>1, <1>4 DEF IInv, Tricolor, Clean, Untraced, TypeOK, Value

\* The end of trace.  The last worker starts to look at the remembered sets.
LEMMA TraceDoneKeeps ==
    ASSUME IInv, NEW w \in Worker, trace_done(w), gap' = gap
    PROVE  IInv'
<1>1. TypeOK /\ Signals
  BY DEF IInv
<1>2. /\ pc[w] = "trace" /\ stack[w] = {} /\ w \in owing /\ w \notin unsent
      /\ sig = PREMARK /\ phase[w] = MARK /\ toSee = {}
      /\ \A v \in Worker : pc[v] # "finish"
  BY <1>1 DEF trace_done, Signals
<1>3. /\ \A v \in Worker \ {w} : pc'[v] = pc[v]
      /\ pc'[w] = IF owing = {w} THEN "finish" ELSE "run"
      /\ toSee' = IF owing = {w} THEN Worker ELSE {}
      /\ owing' = owing \ {w}
      /\ UNCHANGED <<heap, mark, root, allocator, arg, phase, sig, unsent, genum, gc_count>>
  BY <1>1, <1>2 DEF trace_done, Goto, TypeOK, finish
<1>4. TypeOK'
  <2>1. pc' \in [Worker -> PC]
    BY <1>1 DEF trace_done, Goto, TypeOK, PC
  <2>2. round' = 1 \/ round' = round
    BY DEF trace_done, finish
  <2> QED BY <1>1, <1>3, <2>1, <2>2 DEF TypeOK, heap, allocator
<1>5. Signals'
  <2>1. CASE owing = {w}
    <3>1. /\ unsent = {}
          /\ \A v \in Worker \ {w} : phase[v] = sig + 1 /\ pc[v] # "trace"
          /\ \A v \in Worker : pc[v] \notin {"send", "finish"}
      BY <1>1, <1>2, <2>1, LastAnswer
    <3> QED BY <1>1, <1>2, <1>3, <2>1, <3>1 DEF Signals, MARK, PREMARK,
       PREASYNC, PRESYNC2
  <2>2. CASE owing # {w}
    BY <1>1, <1>2, <1>3, <2>2 DEF Signals, MARK, PREMARK, PRESYNC2
  <2> QED BY <2>1, <2>2
<1>6. \A u \in Worker : pc'[u] = pc[u] \/ (~Updating(u) /\ ~Updating(u)')
  BY <1>2, <1>3 DEF Updating
<1>7. \A u \in Worker : Scanned(u)' <=> Scanned(u)
  BY <1>3 DEF Scanned
<1>8. \A o : Linked(o)' <=> Linked(o)
  <2>1. \A u \in Worker : \A o : LinkedBy(u, o)' <=> LinkedBy(u, o)
    BY <1>2, <1>3 DEF LinkedBy, allocator
  <2> QED BY <2>1 DEF Linked
<1>9. \A u \in Worker : /\ stack'[u] # {} => pc'[u] = "trace"
                        /\ phase'[u] = MARK => root_set'[u] = {}
  BY <1>2, <1>3 DEF IInv, Bits, allocator
<1>10. Finish'
  <2>1. CASE owing # {w}
    BY <1>1, <1>2, <1>3, <2>1 DEF trace_done, IInv, Finish, finish
  <2>2. CASE owing = {w}
    <3>1. round' = 1 /\ toSee' = Worker
      BY <2>2 DEF trace_done
    <3> QED BY <1>2, <3>1, WorkerAssumption DEF IInv, Finish
  <2> QED BY <2>1, <2>2
<1>11. sig # PREASYNC /\ UNCHANGED <<sig, genum>> /\ phase' = phase
  BY <1>2, <1>3 DEF PREMARK, PREASYNC
<1> QED BY <1>3, <1>4, <1>5, <1>6, <1>7, <1>8, <1>9, <1>10, <1>11, QuietKeeps

\* sml_heap_mark_finish: MARK is repeated, the next remembered set is looked at,
\* or nothing is left to be traced and the objects that are not marked may go.
LEMMA FinishKeeps ==
    ASSUME IInv, NEW w \in Worker, sml_heap_mark_finish(w), Watch, gap' # "yes"
    PROVE  IInv'
<1>1. PICK v \in toSee : sml_heap_mark_finish(w)!(v)
  BY DEF sml_heap_mark_finish
<1>2. TypeOK /\ Signals /\ v \in Worker
  BY DEF IInv, TypeOK
<1>3. /\ pc[w] = "finish" /\ sig = PREMARK /\ owing = {} /\ unsent = {}
      /\ gc_count < MaxGC /\ genum = Null
  BY <1>1, <1>2 DEF Signals, PREMARK, PREASYNC, PRESYNC2
<1>4. \A u \in Worker : phase[u] = MARK
  BY <1>2, <1>3 DEF Signals, PREMARK, MARK
<1>5. \A u \in Worker : /\ pc[u] \notin {"trace", "send"}
                        /\ pc[u] = "finish" => u = w
  BY <1>2, <1>3 DEF Signals
<1>6. UNCHANGED <<heap, mark, root, allocator, arg, phase, genum, gc_count>>
  BY <1>1
<1>7. CASE toSee' # {}
  <2>1. /\ SeenEmpty(v) /\ UNCHANGED <<pc, sig, unsent, owing>>
        /\ toSee' = toSee \ {v} \/ toSee' = Worker
        /\ round' \in 0 .. 2
    BY <1>1, <1>2, <1>7 DEF TypeOK, FinishRounds
  <2>2. TypeOK'
    BY <1>2, <1>6, <2>1 DEF TypeOK, heap, allocator
  <2>3. Signals'
    BY <1>2, <1>3, <1>6, <1>7, <2>1 DEF Signals, PREMARK, PRESYNC2
  <2>4. /\ \A u \in Worker : Scanned(u)' <=> Scanned(u)
        /\ \A u \in Worker : Updating(u)' <=> Updating(u)
        /\ \A o : Linked(o)' <=> Linked(o)
        /\ \A o : Markable(o)' <=> Markable(o)
    BY <1>6, <2>1, SameColours DEF heap
  <2>5. Finish'
    <3>1. Clean => Clean'
      BY <1>6, <2>4 DEF Clean, heap
    <3>2. CASE toSee # {v}
      <4>1. round' = round /\ round # 0 /\ toSee' = toSee \ {v}
        BY <1>1, <1>7, <3>2 DEF IInv, Finish
      <4>2. gap' = gap
        BY <4>1 DEF Watch, Opens, IInv, Finish
      <4>3. (\E u \in toSee : remembered[u] # {}) => \E u \in toSee' : remembered'[u] # {}
        BY <1>2, <1>6, <2>1, <4>1 DEF SeenEmpty, allocator, TypeOK
      <4> QED BY <1>7, <3>1, <4>1, <4>2, <4>3 DEF IInv, Finish
    <3>3. CASE toSee = {v}
      <4>1. round = 1 /\ round' = 2 /\ toSee' = Worker /\ gap = "no"
        BY <1>1, <1>2, <1>7, <3>3 DEF IInv, Finish, TypeOK, FinishRounds
      <4>2. gap' = "open" \/ (gap' = "no" /\ \A u \in Worker : ~Midway(u))
        BY <4>1 DEF Watch, Opens
      <4>3. CASE \E u \in Worker : remembered[u] # {}
        BY <1>6, <1>7, <4>1, <4>2, <4>3 DEF Finish, allocator
      <4>4. CASE gap' = "no" /\ \A u \in Worker : remembered[u] = {}
        <5>1. \A u \in Worker : ~Midway(u)
          BY <4>2, <4>4
        <5>2. \A u \in Worker : stack[u] = {} /\ root_set[u] = {}
          BY <1>4, <1>5 DEF IInv, Bits
        <5>3. \A o \in Value : ~Linked(o)
          BY <4>4, <5>1, <5>2 DEF Linked, LinkedBy, Midway
        <5>4. Clean
          BY <1>3, <5>1, <5>3, NothingLeft
        <5> QED BY <1>7, <3>1, <4>1, <4>4, <5>4 DEF Finish
      <4> QED BY <1>7, <4>1, <4>2, <4>3, <4>4 DEF Finish
    <3> QED BY <3>2, <3>3
  <2>6. \A u \in Worker : /\ stack'[u] # {} => pc'[u] = "trace"
                          /\ phase'[u] = MARK => root_set'[u] = {}
    BY <1>6, <2>1 DEF IInv, Bits, allocator
  <2> QED BY <1>6, <2>1, <2>2, <2>3, <2>4, <2>5, <2>6, QuietKeeps
<1>8. CASE toSee' = {} /\ sig' = PREMARK
  <2>1. Issue(w, PREMARK) /\ round' = 0
    BY <1>1, <1>2, <1>8, WorkerAssumption DEF PREMARK, PREASYNC, Issue
  <2>2. /\ unsent' = Worker /\ owing' = Worker /\ sig' = PREMARK
        /\ pc'[w] = "send" /\ \A u \in Worker \ {w} : pc'[u] = pc[u]
        /\ pc' \in [Worker -> PC]
    BY <1>2, <2>1 DEF Issue, Goto, TypeOK, PC
  <2>3. TypeOK'
    BY <1>2, <1>3, <1>6, <1>8, <2>1, <2>2 DEF TypeOK, heap, allocator
  <2>4. Signals'
    BY <1>2, <1>3, <1>4, <1>5, <1>6, <1>8, <2>2 DEF Signals, Before, PREMARK,
       MARK, PREASYNC,
       PRESYNC2
  <2>5. \A u \in Worker : pc'[u] = pc[u] \/ (~Updating(u) /\ ~Updating(u)')
    BY <1>3, <2>2 DEF Updating
  <2>6. \A u \in Worker : Scanned(u)' <=> Scanned(u)
    BY <1>3, <2>2 DEF Scanned
  <2>7. \A o : Linked(o)' <=> Linked(o)
    <3>1. \A u \in Worker : \A o : LinkedBy(u, o)' <=> LinkedBy(u, o)
      BY <1>3, <1>6, <2>2 DEF LinkedBy, allocator
    <3> QED BY <3>1 DEF Linked
  <2>8. \A u \in Worker : /\ stack'[u] # {} => pc'[u] = "trace"
                          /\ phase'[u] = MARK => root_set'[u] = {}
    BY <1>3, <1>6, <2>2 DEF IInv, Bits, allocator
  <2>9. Finish'
    BY <1>8, <2>1 DEF Finish, Watch, Opens
  <2> QED BY <1>3, <1>6, <2>2, <2>3, <2>4, <2>5, <2>6, <2>7, <2>8, <2>9,
     QuietKeeps
<1>9. CASE toSee' = {} /\ sig' # PREMARK
  <2>1. Issue(w, PREASYNC) /\ round' = 0 /\ toSee = {v} /\ SeenEmpty(v)
    BY <1>1, <1>2, <1>3, <1>9, WorkerAssumption DEF PREMARK, PREASYNC, Issue
  <2>2. /\ unsent' = Worker /\ owing' = Worker /\ sig' = PREASYNC
        /\ pc'[w] = "send" /\ \A u \in Worker \ {w} : pc'[u] = pc[u]
        /\ pc' \in [Worker -> PC]
    BY <1>2, <2>1 DEF Issue, Goto, TypeOK, PC
  <2>3. Clean
    <3>1. round = FinishRounds
      BY <1>1, <1>2, <1>3, <1>9, <2>2, WorkerAssumption DEF Issue, PREMARK, PREASYNC
    <3>2. gap = "no"
      BY <2>2 DEF Watch, IInv, Finish
    <3> QED BY <2>1, <3>1, <3>2 DEF IInv, Finish, SeenEmpty, FinishRounds
  <2>4. \A u \in Worker : Updating(u)' <=> Updating(u)
    BY <1>3, <2>2 DEF Updating
  <2>5. TypeOK'
    BY <1>2, <1>6, <1>9, <2>1, <2>2 DEF TypeOK, heap, allocator, Phase, PREASYNC
  <2>6. Signals'
    BY <1>2, <1>3, <1>4, <1>5, <1>6, <1>9, <2>2 DEF Signals, Before, PREMARK,
       MARK, PREASYNC,
       PRESYNC2
  <2>7. \A o \in Value : ~Linked(o)'
    <3>1. \A u \in Worker : \A o : LinkedBy(u, o)' => LinkedBy(u, o)
      BY <1>3, <1>6, <2>2 DEF LinkedBy, allocator
    <3> QED BY <2>3, <3>1 DEF Linked, Clean
  <2>8. Heap'
    <3>1. \A o \in Block : Kept(o)' <=> o \in used /\ ~Markable(o)
      BY <1>2, <1>4, <1>6, <2>2 DEF Kept, Markable, IInv, Heap, TypeOK, heap,
         PREASYNC,
         ASYNC, MARK
    <3>2. \A o \in Block : Kept(o) <=> o \in used
      BY <1>3 DEF Kept, PREMARK, PREASYNC
    <3> QED BY <1>2, <1>6, <2>3, <3>1, <3>2 DEF IInv, Heap, Clean, TypeOK,
       Value, heap
  <2>9. Arguments'
    BY <1>6, <2>2, <2>4 DEF IInv, Arguments
  <2>10. ~Snapshot'
    BY <2>2 DEF Snapshot, PREASYNC, PREMARK, PRESYNC2
  <2>11. Bits'
    <3>1. mark' \subseteq used'
      BY <1>6 DEF IInv, Bits, heap
    <3>2. \A u \in Worker : /\ stack'[u] # {} => pc'[u] = "trace"
                            /\ phase'[u] = MARK => root_set'[u] = {}
      BY <1>3, <1>6, <2>2 DEF IInv, Bits, allocator
    <3> QED BY <2>2, <2>7, <3>1, <3>2 DEF Bits, PREASYNC, PRESYNC1, PRESYNC2
  <2>12. Reclaim'
    BY <1>2, <1>4, <1>6, <2>4, <2>7 DEF Reclaim, IInv, Heap, TypeOK, heap, MARK,
       ASYNC
  <2>13. Barriers' /\ Tricolor'
    BY <2>2, <2>10 DEF Barriers, Tricolor
  <2>14. Finish'
    BY <1>9, <2>1 DEF Finish, Watch, Opens
  <2> QED BY <2>5, <2>6, <2>8, <2>9, <2>11, <2>12, <2>13, <2>14 DEF IInv
<1> QED BY <1>7, <1>8, <1>9

-----------------------------------------------------------------------------
\* sml_gc: everything that is there becomes an object of the new collection.
LEMMA GCKeeps ==
    ASSUME IInv, NEW w \in Worker, sml_gc(w), gap' = gap
    PROVE  IInv'
<1>1. TypeOK /\ Signals
  BY DEF IInv
<1>2. /\ pc[w] = "run" /\ sig = PREASYNC /\ owing = {} /\ unsent = {} /\ toSee = {}
      /\ gc_count < MaxGC /\ genum = Null
      /\ UNCHANGED <<heap, mark, root, allocator, arg, phase, genum, gc_count, finish>>
  BY <1>1 DEF sml_gc, Signals, PREASYNC, PREMARK, PRESYNC2
<1>3. \A u \in Worker : phase[u] = ASYNC /\ pc[u] \notin {"trace", "send", "finish"}
  BY <1>1, <1>2 DEF Signals, PREASYNC, ASYNC, PREMARK
<1>4. /\ unsent' = Worker /\ owing' = Worker /\ sig' = PRESYNC1
      /\ pc'[w] = "send" /\ \A u \in Worker \ {w} : pc'[u] = pc[u]
      /\ pc' \in [Worker -> PC]
  BY <1>1 DEF sml_gc, Issue, Goto, TypeOK, PC
<1>5. TypeOK'
  BY <1>1, <1>2, <1>4 DEF TypeOK, heap, allocator, finish, Phase, PRESYNC1
<1>6. Signals'
  BY <1>1, <1>2, <1>3, <1>4 DEF Signals, Before, PREASYNC, ASYNC, PRESYNC1,
     PRESYNC2,
     PREMARK, finish
<1>7. \A o \in used : owner[o] \in Worker /\ o \in target /\ o \notin mark /\ Kept(o)
  <2>1. \A o \in used : owner[o] \in Worker
    BY <1>1 DEF IInv, Heap, TypeOK
  <2> QED BY <1>2, <1>3, <2>1 DEF IInv, Reclaim, Kept
<1>8. Heap'
  <2>1. \A o \in Block : Kept(o)' <=> o \in used
    BY <1>2, <1>4 DEF Kept, heap, PREASYNC, PRESYNC1
  <2>2. \A o \in Block : Kept(o) <=> o \in used
    BY <1>7 DEF Kept
  <2> QED BY <1>1, <1>2, <2>1, <2>2 DEF IInv, Heap, TypeOK, Value, heap
<1>9. \A o \in Value : ~Linked(o)'
  <2>1. \A u \in Worker : \A o : LinkedBy(u, o)' => LinkedBy(u, o)
    BY <1>2, <1>4 DEF LinkedBy, allocator
  <2> QED BY <1>2, <2>1 DEF Linked, IInv, Reclaim
<1>10. Arguments'
  <2>1. \A u \in Worker : Updating(u)' <=> Updating(u)
    BY <1>2, <1>4 DEF Updating
  <2> QED BY <1>2, <1>3, <2>1 DEF IInv, Arguments, ASYNC, SYNC1
<1>11. ~Snapshot'
  BY <1>4 DEF Snapshot, PRESYNC1, PREMARK, PRESYNC2
<1>12. Bits'
  <2>1. mark = {}
    BY <1>7 DEF IInv, Bits
  <2>2. \A u \in Worker : /\ stack'[u] # {} => pc'[u] = "trace"
                          /\ phase'[u] = MARK => root_set'[u] = {}
    BY <1>2, <1>4 DEF IInv, Bits, allocator
  <2> QED BY <1>2, <1>7, <1>9, <2>1, <2>2 DEF Bits, heap
<1>13. Reclaim'
  BY <1>4 DEF Reclaim, PREASYNC, PRESYNC1
<1>14. Barriers' /\ Tricolor'
  BY <1>2, <1>3, <1>11 DEF Barriers, Tricolor, ASYNC, SYNC1
<1>15. Finish'
  BY <1>2 DEF IInv, Finish, finish
<1> QED BY <1>5, <1>6, <1>8, <1>10, <1>12, <1>13, <1>14, <1>15 DEF IInv

\* worker_sync1: the last one has the global variables enumerated.
LEMMA Sync1Keeps ==
    ASSUME IInv, NEW w \in Worker, worker_sync1(w), gap' = gap
    PROVE  IInv'
<1>1. TypeOK /\ Signals /\ Pending(w, PRESYNC1) /\ AcceptSignal(w) /\ Answer(w, PRESYNC2)
  BY DEF IInv, worker_sync1
<1>2. w \in owing \ unsent /\ sig = PRESYNC1 /\ pc[w] = "run" /\ phase[w] = PRESYNC1
  BY <1>1, PendingSignal
<1>3. /\ phase' \in [Worker -> Phase]
      /\ phase'[w] = SYNC1 /\ \A u \in Worker \ {w} : phase'[u] = phase[u]
  BY <1>1, <1>2, Accepted DEF PRESYNC1, SYNC1
<1>4. /\ genum = Null /\ toSee = {}
      /\ genum' = IF owing = {w} THEN w ELSE genum
      /\ UNCHANGED <<heap, mark, root, allocator, arg, gc_count, finish>>
  BY <1>1, <1>2 DEF worker_sync1, Signals, PRESYNC1, PRESYNC2, PREMARK
<1>5. /\ owing = {w} => sig' = PRESYNC2 /\ owing' = Worker
      /\ owing # {w} => sig' = PRESYNC1
      /\ unsent' \subseteq Worker /\ owing' \subseteq Worker
      /\ pc' \in [Worker -> PC]
      /\ pc'[w] \in {"run", "send"} /\ \A u \in Worker \ {w} : pc'[u] = pc[u]
  BY <1>1, <1>2 DEF Answer, Issue, Goto, TypeOK, PC
<1>6. Signals'
  <2>1. PRESYNC1 + 2 = PRESYNC2 /\ PRESYNC1 # PRESYNC2
    BY DEF PRESYNC1, PRESYNC2
  <2>2. /\ genum' # Null => sig' = PRESYNC2 /\ genum' \in owing'
        /\ sig' = PRESYNC2 /\ owing' = Worker => genum' # Null
    BY <1>4, <1>5, <2>1, NullAssumption
  <2>3. Answer(w, PRESYNC1 + 2) /\ UNCHANGED <<gc_count, finish>>
    BY <1>1, <1>4, <2>1
  <2> QED BY <1>1, <2>2, <2>3, AnswerSignals
<1>7. \A u \in Worker : phase'[u] # SYNC2 /\ phase'[u] # MARK
  <2>1. \A u \in Worker : phase[u] \in {ASYNC, PRESYNC1, SYNC1}
    BY <1>1, <1>2 DEF Signals, Before, PREASYNC, ASYNC, PRESYNC1, SYNC1, PREMARK
  <2> QED BY <1>3, <2>1 DEF ASYNC, PRESYNC1, SYNC1, SYNC2, MARK
<1>8. ~Snapshot /\ ~Snapshot' /\ sig # PREASYNC /\ sig' # PREASYNC
  BY <1>2, <1>5, <1>7 DEF Snapshot, PREMARK, PRESYNC1, PRESYNC2, PREASYNC
<1>9. TypeOK'
  BY <1>1, <1>3, <1>4, <1>5 DEF TypeOK, heap, allocator, finish, Phase,
     PRESYNC1, PRESYNC2
<1>10. Heap'
  <2>1. \A o : Kept(o)' <=> Kept(o)
    BY <1>4, <1>8 DEF Kept, heap
  <2> QED BY <1>4, <2>1 DEF IInv, Heap, heap
<1>11. \A u \in Worker : pc'[u] = pc[u] \/ (~Updating(u) /\ ~Updating(u)')
  BY <1>2, <1>5 DEF Updating
<1>12. Arguments'
  <2>1. \A u \in Worker : Updating(u)' <=> Updating(u)
    BY <1>11 DEF Updating
  <2>2. \A u \in Worker \ {w} : phase'[u] = phase[u]
    BY <1>3
  <2>3. ~Updating(w)
    BY <1>2 DEF Updating
  <2> QED BY <1>4, <1>8, <2>1, <2>2, <2>3 DEF IInv, Arguments, heap
<1>13. \A o : Linked(o)' <=> Linked(o)
  <2>1. \A u \in Worker : \A o : LinkedBy(u, o)' <=> LinkedBy(u, o)
    BY <1>2, <1>4, <1>5 DEF LinkedBy, allocator
  <2> QED BY <2>1 DEF Linked
<1>14. Bits'
  <2>1. \A u \in Worker : stack'[u] # {} => pc'[u] = "trace"
    BY <1>2, <1>4, <1>5 DEF IInv, Bits, allocator
  <2> QED BY <1>2, <1>4, <1>7, <1>8, <1>13, <2>1 DEF IInv, Bits, heap
<1>15. Reclaim'
  BY <1>8 DEF Reclaim
<1>16. Barriers' /\ Tricolor'
  <2>1. \A u \in Worker : ~Scanned(u)
    BY <1>2 DEF Scanned, PRESYNC1, PRESYNC2, PREMARK
  <2>2. \A o : Markable(o)' <=> Markable(o)
    BY <1>4 DEF Markable, heap
  <2> QED BY <1>3, <1>4, <1>5, <1>8, <2>1, <2>2 DEF IInv, Barriers, Tricolor
<1>17. Finish'
  BY <1>4 DEF IInv, Finish, finish
<1> QED BY <1>6, <1>9, <1>10, <1>12, <1>14, <1>15, <1>16, <1>17 DEF IInv

\* worker_sync2: the roots of w are shaded.  The first worker to do so starts the
\* snapshot: until then the objects whose bit is set are all linked, so that no
\* object is black.  The global variables are shaded by one worker, and are
\* promised until then.
LEMMA Sync2Keeps ==
    ASSUME IInv, NEW w \in Worker, worker_sync2(w), gap' = gap, ~Overwrites
    PROVE  IInv'
<1> DEFINE M == {o \in RootsOf(w) : Markable(o)}
<1>1. TypeOK /\ Signals /\ Pending(w, PRESYNC2) /\ AcceptSignal(w) /\ Answer(w, PREMARK)
  BY DEF IInv, worker_sync2
<1>2. w \in owing \ unsent /\ sig = PRESYNC2 /\ pc[w] = "run" /\ phase[w] = PRESYNC2
  BY <1>1, PendingSignal
<1>3. /\ phase' \in [Worker -> Phase]
      /\ phase'[w] = SYNC2 /\ \A u \in Worker \ {w} : phase'[u] = phase[u]
  BY <1>1, <1>2, Accepted DEF PRESYNC2, SYNC2
<1>4. /\ toSee = {} /\ genum \in owing \cup {Null}
      /\ genum' = IF genum = w THEN Null ELSE genum
      /\ mark' = mark \cup M
      /\ UNCHANGED <<heap, root, remembered, stack, arg, gc_count, finish>>
  BY <1>1, <1>2 DEF worker_sync2, Signals, PRESYNC2, PREMARK
<1>5. /\ M \subseteq target /\ M \subseteq Block /\ (\A o \in M : Markable(o))
      /\ \A o \in root[w] : Markable(o) => o \in M
      /\ genum = w => \A o \in global : Markable(o) => o \in M
  BY <1>1 DEF RootsOf, TypeOK, Markable
<1>6. /\ root_set' \in [Worker -> SUBSET Block]
      /\ root_set'[w] = root_set[w] \cup M
      /\ \A u \in Worker \ {w} : root_set'[u] = root_set[u]
  BY <1>1, <1>5 DEF worker_sync2, TypeOK
<1> HIDE DEF M
<1>7. /\ owing = {w} => sig' = PREMARK /\ owing' = Worker
      /\ owing # {w} => sig' = PRESYNC2 /\ owing' = owing \ {w}
      /\ unsent' \subseteq Worker /\ owing' \subseteq Worker
      /\ pc' \in [Worker -> PC]
      /\ pc'[w] \in {"run", "send"} /\ \A u \in Worker \ {w} : pc'[u] = pc[u]
  BY <1>1, <1>2 DEF Answer, Issue, Goto, TypeOK, PC
<1>8. Signals'
  <2>1. PRESYNC2 + 2 = PREMARK /\ PREMARK # PRESYNC2
    BY DEF PREMARK, PRESYNC2
  <2>2. /\ genum' # Null => sig' = PRESYNC2 /\ genum' \in owing'
        /\ sig' = PRESYNC2 /\ owing' = Worker => genum' # Null
    BY <1>4, <1>7, <2>1, NullAssumption
  <2>3. Answer(w, PRESYNC2 + 2) /\ UNCHANGED <<gc_count, finish>>
    BY <1>1, <1>4, <2>1
  <2> QED BY <1>1, <2>2, <2>3, AnswerSignals
<1>9. /\ \A u \in Worker : Updating(u)' <=> Updating(u)
      /\ ~Updating(w) /\ ~arg[w].cas
  BY <1>2, <1>7 DEF Updating, IInv, Arguments
<1>10. TypeOK'
  BY <1>1, <1>3, <1>4, <1>5, <1>6, <1>7 DEF TypeOK, heap, finish, Phase,
     PREMARK, PRESYNC2
<1>11. \A o : Markable(o)' <=> Markable(o) /\ o \notin M
  BY <1>4 DEF Markable, heap
<1>12. \A o : Linked(o)' <=> Linked(o) \/ o \in M
  <2>1. \A u \in Worker \ {w} : \A o : LinkedBy(u, o)' <=> LinkedBy(u, o)
    BY <1>4, <1>6, <1>7 DEF LinkedBy
  <2>2. \A o : LinkedBy(w, o)' <=> LinkedBy(w, o) \/ o \in M
    BY <1>2, <1>4, <1>6, <1>7 DEF LinkedBy
  <2> QED BY <2>1, <2>2 DEF Linked
<1>13. \A o : Untraced(o)' <=> Untraced(o)
  BY <1>5, <1>11, <1>12 DEF Untraced
<1>14. \A u \in Worker \ {w} : Scanned(u)' <=> Scanned(u)
  BY <1>1, <1>2, <1>3, <1>7, LastAnswer DEF Scanned, PRESYNC2, SYNC2, PREMARK
<1>26. \A u \in Worker : \A o : Promises(u, o)' <=> Promises(u, o)
  BY <1>4, <1>7, <1>9, <1>14 DEF Promises
<1>15. \A o : Endangered(o)' <=> Endangered(o)
  BY <1>4, <1>9 DEF Endangered, Endangers, heap
<1>16. Snapshot' /\ sig # PREASYNC /\ sig' # PREASYNC
  BY <1>2, <1>3, <1>7 DEF Snapshot, PREASYNC, PREMARK, PRESYNC2
<1>17. Heap'
  <2>1. \A o : Kept(o)' <=> Kept(o)
    BY <1>4, <1>16 DEF Kept, heap
  <2> QED BY <1>4, <2>1 DEF IInv, Heap, heap
<1>18. Arguments'
  BY <1>3, <1>4, <1>9, <1>16 DEF IInv, Arguments, heap
<1>19. Bits'
  <2>1. mark' \subseteq used' /\ \A o \in Value : Linked(o)' => o \in mark'
    BY <1>1, <1>4, <1>5, <1>12 DEF IInv, Bits, heap, TypeOK
  <2>2. \A o \in mark' : Linked(o)'
    BY <1>2, <1>4, <1>12 DEF IInv, Bits
  <2>3. \A u \in Worker : stack'[u] # {} => pc'[u] = "trace"
    BY <1>2, <1>4, <1>7 DEF IInv, Bits
  <2>4. \A u \in Worker : phase'[u] # MARK
    <3>1. \A u \in Worker : phase[u] \in {SYNC1, PRESYNC2, SYNC2}
      BY <1>1, <1>2 DEF Signals, Before, PREASYNC, SYNC1, PRESYNC2, SYNC2,
         PREMARK
    <3> QED BY <1>3, <3>1 DEF SYNC1, PRESYNC2, SYNC2, MARK
  <2> QED BY <1>16, <2>1, <2>2, <2>3, <2>4 DEF Bits
<1>20. Reclaim'
  BY <1>16 DEF Reclaim
<1>21. Barriers'
  BY <1>3, <1>4, <1>7, <1>11, <1>14, <1>16 DEF IInv, Barriers
<1>22. Finish'
  BY <1>4 DEF IInv, Finish, finish
<1>23. \A o \in root[w] : Safe(o)'
  BY <1>5, <1>11 DEF Safe
<1>24. ASSUME ~Snapshot PROVE Tricolor'
  <2>1. /\ owing = Worker /\ genum # Null
        /\ \A u \in Worker \ {w} : ~Scanned(u)'
    <3>1. \A u \in Worker : phase[u] # SYNC2
      BY <1>2, <1>24 DEF Snapshot
    <3>2. owing = Worker
      <4>1. \A u \in Worker : u \in owing
        BY <1>1, <1>2, <3>1 DEF Signals, PRESYNC2, SYNC2
      <4> QED BY <1>1, <4>1 DEF TypeOK
    <3> QED BY <1>1, <1>2, <1>3, <1>7, <3>1, <3>2 DEF Signals, Scanned, PREMARK,
       PRESYNC2
  <2>2. \A o \in global : Safe(o)'
    <3>1. CASE genum = w
      BY <1>5, <1>11, <3>1 DEF Safe
    <3>2. CASE genum # w
      <4>1. genum' # Null
        BY <1>4, <2>1, <3>2
      <4>2. \A o \in global : Markable(o)' => Sought(o)'
        BY <1>4, <4>1 DEF Sought, Promised, heap
      <4>3. \A o \in global : Markable(o)' => Protected(o)'
        BY <1>1, <4>2 DEF Protected, Covers, TypeOK
      <4> QED BY <4>3 DEF Safe
    <3> QED BY <3>1, <3>2
  <2>3. \A o \in used : Untraced(o)
    BY <1>1, <1>2, <1>16, <1>24 DEF IInv, Bits, Untraced, Markable
  <2>4. \A o \in used : Endangered(o)' => Safe(fld[o])'
    <3>1. \A p \in Block : Endangered(p) => ~Markable(fld[p])
      BY <1>2, <1>3, <1>24 DEF Overwrites
    <3> QED BY <1>1, <1>4, <1>11, <1>15, <3>1 DEF TypeOK, Safe, heap
  <2> QED BY <1>4, <1>9, <1>13, <1>23, <2>1, <2>2, <2>3, <2>4 DEF Tricolor, heap
<1>25. ASSUME Snapshot PROVE Tricolor'
  <2>1. \A q \in Value : Safe(q) => Safe(q)'
    <3> SUFFICES ASSUME NEW q \in Value, Safe(q) PROVE Safe(q)'
      OBVIOUS
    <3>1. \A o \in Block : Linked(o) => ~Markable(o)'
      BY <1>11 DEF IInv, Bits, Markable, Value
    <3>2. ASSUME NEW o \in Block, Markable(o)', Promised(o)
          PROVE  Sought(o)'
      <4>1. o \in global /\ genum # Null => genum' # Null
        BY <1>4, <1>5, <1>11, <3>2
      <4>2. Promised(o)'
        BY <1>4, <1>26, <3>2, <4>1 DEF Promised, heap
      <4> QED BY <3>2, <4>2 DEF Sought
    <3>3. \A p \in Block : Untraced(p) /\ ~Endangered(p) =>
              Untraced(p)' /\ ~Endangered(p)' /\ fld'[p] = fld[p]
      BY <1>4, <1>13, <1>15 DEF heap
    <3> QED BY <1>1, <1>10, <1>11, <3>1, <3>2, <3>3, SafeKept
  <2>2. ASSUME NEW u \in Worker, Scanned(u)', Updating(u)'
        PROVE  Safe(arg[u].old)'
    <3>1. PICK x \in Value : x = arg[u].old
      BY <1>1 DEF TypeOK
    <3>2. Safe(x) /\ arg'[u].old = x
      BY <1>4, <1>9, <1>14, <1>25, <2>2, <3>1 DEF IInv, Tricolor
    <3> QED BY <2>1, <3>2
  <2>3. \A u \in Worker : Scanned(u)' => \A q \in root'[u] : Safe(q)'
    BY <1>1, <1>4, <1>14, <1>23, <1>25, <2>1 DEF IInv, Tricolor, TypeOK, Value
  <2>4. \A q \in global' : Safe(q)'
    BY <1>1, <1>4, <1>25, <2>1 DEF IInv, Tricolor, TypeOK, Value, heap
  <2>5. ASSUME NEW o \in used', ~Untraced(o)' \/ Endangered(o)'
        PROVE  Safe(fld[o])'
    <3>1. o \in used /\ o \in Block /\ fld[o] \in Value /\ fld' = fld
      BY <1>1, <1>4 DEF TypeOK, heap
    <3>2. PICK x \in Value : x = fld[o]
      BY <3>1
    <3>3. Safe(x)
      BY <1>13, <1>15, <1>25, <2>5, <3>1, <3>2 DEF IInv, Tricolor
    <3>4. Safe(x)'
      BY <2>1, <3>3
    <3> QED BY <3>1, <3>2, <3>4
  <2> QED BY <2>2, <2>3, <2>4, <2>5 DEF Tricolor
<1> QED BY <1>8, <1>10, <1>17, <1>18, <1>19, <1>20, <1>21, <1>22, <1>24, <1>25
   DEF IInv

\* One iteration of trace: o is blackened, and what it refers to is shaded.
LEMMA TraceKeeps ==
    ASSUME IInv, NEW w \in Worker, trace(w), gap' = gap
    PROVE  IInv'
<1>1. PICK o \in stack[w] : trace(w)!(o)
  BY DEF trace
<1> DEFINE M == {x \in {fld[o]} : Markable(x)}
<1>2. TypeOK /\ Signals /\ o \in Block
  BY DEF IInv, TypeOK
<1>3. /\ M \subseteq target /\ M \subseteq Block /\ (\A x \in M : Markable(x))
      /\ Markable(fld[o]) => fld[o] \in M
  BY <1>2 DEF TypeOK, Markable
<1>4. /\ pc[w] = "trace" /\ mark' = mark \cup M
      /\ stack' \in [Worker -> SUBSET Block]
      /\ stack'[w] = (stack[w] \ {o}) \cup M
      /\ \A u \in Worker \ {w} : stack'[u] = stack[u]
      /\ UNCHANGED <<heap, root, root_set, remembered, pc, arg, phase, signal, finish>>
  BY <1>1, <1>2, <1>3 DEF TypeOK
<1> HIDE DEF M
<1>5. /\ sig = PREMARK /\ Snapshot /\ Snapshot' /\ sig # PREASYNC
      /\ w \in owing /\ toSee = {}
  BY <1>2, <1>4 DEF Signals, Snapshot, signal, PREMARK, PREASYNC
<1>6. /\ \A u \in Worker : Scanned(u)' <=> Scanned(u)
      /\ \A u \in Worker : Updating(u)' <=> Updating(u)
  BY <1>4 DEF Scanned, Updating, signal
<1>7. TypeOK'
  BY <1>2, <1>3, <1>4 DEF TypeOK, heap, signal, finish
<1>8. Signals'
  BY <1>2, <1>4 DEF Signals, signal, finish
<1>9. \A x : Markable(x)' <=> Markable(x) /\ x \notin M
  BY <1>4 DEF Markable, heap
<1>10. /\ \A x : x \in M => Linked(x)'
       /\ \A x : x # o /\ Linked(x) => Linked(x)'
       /\ \A x : Linked(x)' => Linked(x) \/ x \in M
  <2>1. \A u \in Worker \ {w} : \A x : LinkedBy(u, x)' <=> LinkedBy(u, x)
    BY <1>4 DEF LinkedBy
  <2>2. /\ \A x : x \in M => LinkedBy(w, x)'
        /\ \A x : x # o /\ LinkedBy(w, x) => LinkedBy(w, x)'
        /\ \A x : LinkedBy(w, x)' => LinkedBy(w, x) \/ x \in M
    BY <1>4 DEF LinkedBy
  <2> QED BY <2>1, <2>2 DEF Linked
<1>11. \A x : x # o /\ Untraced(x) => Untraced(x)'
  BY <1>9, <1>10 DEF Untraced
<1>12. \A u \in Worker : \A x : /\ Promises(u, x)' <=> Promises(u, x)
                                /\ Endangers(u, x)' <=> Endangers(u, x)
  BY <1>4, <1>6 DEF Promises, Endangers, heap
<1>13. \A x : /\ Promised(x)' <=> Promised(x)
              /\ Endangered(x)' <=> Endangered(x)
  BY <1>4, <1>12 DEF Promised, Endangered, heap, signal
<1>14. \A x \in Value : Safe(x) => Safe(x)'
  <2> SUFFICES ASSUME NEW q \in Value, Safe(q) PROVE Safe(q)'
    OBVIOUS
  <2>1. \A x \in Block : Linked(x) => ~Markable(x)'
    BY <1>9 DEF IInv, Bits, Markable, Value
  <2>2. \A x \in Block : Markable(x)' /\ Promised(x) => Sought(x)'
    BY <1>13 DEF Sought
  <2>3. \A p, x \in Block :
            fld[p] = x /\ Untraced(p) /\ ~Endangered(p) /\ Markable(x)' =>
                Untraced(p)' /\ ~Endangered(p)' /\ fld'[p] = x
    BY <1>3, <1>4, <1>9, <1>11, <1>13 DEF heap
  <2> QED BY <1>2, <1>7, <1>9, <2>1, <2>2, <2>3, SafeKept
<1>15. Heap'
  <2>1. \A x : Kept(x)' <=> Kept(x)
    BY <1>4, <1>5 DEF Kept, heap, signal
  <2> QED BY <1>4, <2>1 DEF IInv, Heap, heap
<1>16. Arguments'
  BY <1>4, <1>6 DEF IInv, Arguments, heap, signal
<1>17. Bits'
  <2>1. mark' \subseteq used' /\ \A x \in Value : Linked(x)' => x \in mark'
    BY <1>2, <1>3, <1>4, <1>10 DEF IInv, Bits, heap, TypeOK
  <2>2. \A u \in Worker : /\ stack'[u] # {} => pc'[u] = "trace"
                          /\ phase'[u] = MARK => root_set'[u] = {}
    BY <1>4 DEF IInv, Bits
  <2>3. sig' \notin {PRESYNC1, PRESYNC2}
    BY <1>4, <1>5 DEF signal, PREMARK, PRESYNC1, PRESYNC2
  <2> QED BY <1>5, <2>1, <2>2, <2>3 DEF Bits
<1>18. Reclaim'
  BY <1>4, <1>5 DEF Reclaim, signal
<1>19. Barriers'
  BY <1>4, <1>5, <1>6, <1>9 DEF IInv, Barriers
<1>20. Tricolor'
  <2>1. \A u \in Worker : Scanned(u)' => \A q \in root'[u] : Safe(q)'
    BY <1>2, <1>4, <1>5, <1>6, <1>14 DEF IInv, Tricolor, TypeOK, Value
  <2>4. ASSUME NEW u \in Worker, Scanned(u)', Updating(u)'
        PROVE  Safe(arg[u].old)'
    <3>1. PICK x \in Value : x = arg[u].old
      BY <1>2 DEF TypeOK
    <3>2. Safe(x) /\ arg'[u].old = x
      BY <1>4, <1>5, <1>6, <2>4, <3>1 DEF IInv, Tricolor
    <3> QED BY <1>14, <3>2
  <2>2. \A q \in global' : Safe(q)'
    BY <1>2, <1>4, <1>5, <1>14 DEF IInv, Tricolor, TypeOK, Value, heap
  <2>3. ASSUME NEW q \in used', ~Untraced(q)' \/ Endangered(q)'
        PROVE  Safe(fld[q])'
    <3>1. q \in used /\ q \in Block /\ fld[q] \in Value /\ fld' = fld
      BY <1>2, <1>4 DEF TypeOK, heap
    <3>2. PICK x \in Value : x = fld[q]
      BY <3>1
    <3>3. Safe(x)'
      <4>1. CASE q = o
        BY <1>3, <1>9, <3>2, <4>1 DEF Safe
      <4>2. CASE q # o
        BY <1>5, <1>11, <1>13, <1>14, <2>3, <3>1, <3>2, <4>2 DEF IInv, Tricolor
      <4> QED BY <4>1, <4>2
    <3> QED BY <3>1, <3>2, <3>3
  <2> QED BY <2>1, <2>2, <2>3, <2>4 DEF Tricolor
<1>21. Finish'
  BY <1>4, <1>5 DEF IInv, Finish, finish
<1> QED BY <1>7, <1>8, <1>15, <1>16, <1>17, <1>18, <1>19, <1>20, <1>21 DEF IInv

-----------------------------------------------------------------------------
\* sml_heap_worker_async: what w releases is not kept, and nothing else changes
\* for the objects that are.
LEMMA AsyncKeeps ==
    ASSUME IInv, NEW w \in Worker, worker_async(w), gap' = gap
    PROVE  IInv'
<1> DEFINE garbage == {o \in used : owner[o] = w /\ o \in target /\ o \notin mark}
<1>1. TypeOK /\ Signals /\ Pending(w, PREASYNC) /\ AcceptSignal(w)
  BY DEF IInv, worker_async
<1>2. w \in owing \ unsent /\ sig = PREASYNC /\ pc[w] = "run" /\ phase[w] = PREASYNC
  BY <1>1, PendingSignal
<1>3. /\ phase' \in [Worker -> Phase]
      /\ phase'[w] = ASYNC /\ \A u \in Worker \ {w} : phase'[u] = phase[u]
  BY <1>1, <1>2, Accepted DEF PREASYNC, ASYNC
<1>4. \A o \in Block : o \in garbage <=> o \in used /\ owner[o] = w /\ o \in target /\ o \notin mark
  OBVIOUS
<1>5. /\ used' = used \ garbage
      /\ \A o \in Block : /\ owner'[o] = IF o \in garbage THEN Null ELSE owner[o]
                          /\ fld'[o] = IF o \in garbage THEN Null ELSE fld[o]
                          /\ o \in target' <=> \/ o \in target /\ o \notin garbage
                                               \/ o \in used /\ o \notin garbage /\ owner[o] = w
                          /\ o \in mark' <=> o \in mark /\ owner[o] # w
      /\ remembered'[w] = {} /\ \A u \in Worker \ {w} : remembered'[u] = remembered[u]
      /\ owing' = owing \ {w}
      /\ gc_count' = IF owing = {w} THEN gc_count + 1 ELSE gc_count
      /\ UNCHANGED <<global, root, root_set, stack, pc, arg, sig, unsent, genum, finish>>
  BY <1>1 DEF worker_async, TypeOK, ObjectsOfNext, CollectBits
<1>6. gc_count < MaxGC /\ toSee = {} /\ genum = Null
  BY <1>1, <1>2 DEF Signals, PREASYNC, PREMARK, PRESYNC2
<1>7. TypeOK'
  <2>1. /\ owner' \in [Block -> Worker \cup {Null}] /\ fld' \in [Block -> Value]
        /\ remembered' \in [Worker -> SUBSET Block]
        /\ target' \subseteq used' /\ mark' \subseteq Block
    BY <1>1 DEF worker_async, TypeOK, Value, ObjectsOfNext
  <2>2. gc_count' \in 0 .. MaxGC
    BY <1>1, <1>5, <1>6, BoundAssumption DEF TypeOK
  <2>3. used' \subseteq Block /\ owing' \subseteq Worker
    BY <1>1, <1>5 DEF TypeOK
  <2> QED BY <1>1, <1>3, <1>5, <2>1, <2>2, <2>3 DEF TypeOK, finish
<1> HIDE DEF garbage
<1>8. Signals'
  <2>1. \A u \in Worker : pc[u] # "trace" /\ pc[u] # "finish"
    BY <1>1, <1>2 DEF Signals, PREASYNC, PREMARK
  <2> QED BY <1>1, <1>2, <1>3, <1>5, <1>6, <2>1 DEF Signals, finish, PREASYNC,
     ASYNC
<1>9. \A o \in used : owner[o] \in Worker
  BY <1>1 DEF IInv, Heap, TypeOK
<1>10. \A o \in Block : Kept(o)' <=> Kept(o)
  <2> SUFFICES ASSUME NEW o \in Block PROVE Kept(o)' <=> Kept(o)
    OBVIOUS
  <2>1. CASE o \notin used
    BY <1>5, <2>1 DEF Kept
  <2>2. CASE o \in used /\ owner[o] = w
    BY <1>2, <1>3, <1>4, <1>5, <2>2 DEF Kept, PREASYNC, ASYNC
  <2>3. CASE o \in used /\ owner[o] # w
    BY <1>2, <1>3, <1>4, <1>5, <1>9, <2>3 DEF Kept
  <2> QED BY <2>1, <2>2, <2>3
<1>11. Heap'
  <2>1. \A o \in Block : o \in used' <=> owner'[o] # Null
    BY <1>4, <1>5 DEF IInv, Heap
  <2>2. \A o \in Block : o \notin used' => fld'[o] = Null
    BY <1>5 DEF IInv, Heap
  <2>3. /\ \A u \in Worker : \A o \in root'[u] : Kept(o)'
        /\ \A o \in global' : Kept(o)'
    BY <1>1, <1>5, <1>10 DEF IInv, Heap, TypeOK
  <2>4. ASSUME NEW o \in Block, Kept(o)', fld'[o] # Null
        PROVE  Kept(fld[o])'
    <3>1. PICK x \in Block : x = fld'[o]
      BY <1>7, <2>4 DEF TypeOK, Value
    <3>2. Kept(x)
      BY <1>5, <1>10, <2>4, <3>1 DEF IInv, Heap
    <3>3. Kept(x)'
      BY <1>10, <3>2
    <3> QED BY <3>1, <3>3
  <2> QED BY <2>1, <2>2, <2>3, <2>4 DEF Heap
<1>12. \A u \in Worker : Updating(u)' <=> Updating(u)
  BY <1>5 DEF Updating
<1>13. Arguments'
  BY <1>2, <1>5, <1>12 DEF IInv, Arguments
<1>14. \A o \in Value : ~Linked(o)'
  <2>1. \A u \in Worker : \A o : LinkedBy(u, o)' => LinkedBy(u, o)
    BY <1>5 DEF LinkedBy
  <2> QED BY <1>2, <2>1 DEF Linked, IInv, Reclaim
<1>15. ~Snapshot'
  BY <1>2, <1>5 DEF Snapshot, PREASYNC, PREMARK, PRESYNC2
<1>16. Bits'
  <2>1. mark' \subseteq used'
    BY <1>4, <1>5, <1>7 DEF IInv, Bits, TypeOK
  <2>2. \A u \in Worker : /\ stack'[u] # {} => pc'[u] = "trace"
                          /\ phase'[u] = MARK => root_set'[u] = {}
    BY <1>3, <1>5 DEF IInv, Bits, ASYNC, MARK
  <2> QED BY <1>2, <1>5, <1>14, <2>1, <2>2 DEF Bits, PREASYNC, PRESYNC1,
     PRESYNC2
<1>17. Reclaim'
  <2>1. ASSUME NEW o \in used', phase'[owner'[o]] = ASYNC
        PROVE  o \in target' /\ o \notin mark'
    <3>1. o \in Block /\ o \in used /\ o \notin garbage /\ owner'[o] = owner[o]
      BY <1>5, <1>7, <2>1 DEF TypeOK
    <3>2. CASE owner[o] = w
      BY <1>5, <3>1, <3>2
    <3>3. CASE owner[o] # w
      BY <1>2, <1>3, <1>5, <1>9, <2>1, <3>1, <3>3 DEF IInv, Reclaim
    <3> QED BY <3>2, <3>3
  <2> QED BY <1>2, <1>12, <1>14, <2>1 DEF IInv, Reclaim
<1>18. Barriers' /\ Tricolor'
  BY <1>2, <1>5, <1>15 DEF Barriers, Tricolor
<1>19. Finish'
  BY <1>5, <1>6 DEF IInv, Finish, finish
<1> QED BY <1>7, <1>8, <1>11, <1>13, <1>16, <1>17, <1>18, <1>19 DEF IInv

-----------------------------------------------------------------------------
\* Types and the handshake before the first collection.
LEMMA InitTypes ==
    ASSUME Init
    PROVE  TypeOK /\ Signals
<1>1. TypeOK
  <2>1. pc \in [Worker -> PC] /\ phase \in [Worker -> Phase] /\ sig \in Phase
    BY DEF Init, PC, Phase, ASYNC, PREASYNC
  <2>2. arg \in [Worker -> [obj : Value, new : Value, old : Value, cas : BOOLEAN]]
    BY DEF Init, NoArg, Value
  <2>3. gc_count \in 0 .. MaxGC /\ round \in 0 .. 2
    BY BoundAssumption DEF Init
  <2>4. fld \in [Block -> Value]
    BY DEF Init, Value
  <2> QED BY <2>1, <2>2, <2>3, <2>4 DEF Init, TypeOK
<1>2. Signals
  BY DEF Init, Signals, PREASYNC, ASYNC, PRESYNC2
<1> QED BY <1>1, <1>2

\* The invariant holds between two collections.
LEMMA InitKeeps ==
    ASSUME Init, gap = "no"
    PROVE  IInv
<1>1. TypeOK /\ Signals
  BY InitTypes
<1>3. \A o \in Block : Kept(o) <=> o \in used
  BY <1>1 DEF Init, Kept, TypeOK
<1>4. Heap
  BY <1>1, <1>3 DEF Init, Heap, TypeOK
<1>5. \A w \in Worker : ~Updating(w) /\ ~arg[w].cas
  BY DEF Init, Updating, NoArg
<1>6. \A o \in Value : ~Linked(o)
  BY DEF Init, Linked, LinkedBy
<1>7. ~Snapshot
  BY DEF Init, Snapshot, PREASYNC, PREMARK, PRESYNC2
<1>8. Arguments
  BY <1>5 DEF Arguments
<1>9. Bits
  BY <1>6, <1>7 DEF Init, Bits, PREASYNC, ASYNC, MARK
<1>10. Reclaim
  BY <1>5, <1>6 DEF Init, Reclaim
<1>11. Barriers /\ Tricolor /\ Finish
  BY <1>7 DEF Barriers, Tricolor, Finish, Init
<1> QED BY <1>1, <1>4, <1>8, <1>9, <1>10, <1>11 DEF IInv

\* So does a step that changes nothing.
LEMMA StutterKeeps ==
    ASSUME IInv, UNCHANGED <<vars, gap>>
    PROVE  IInv'
<1>1. UNCHANGED <<heap, mark, root, allocator, pc, arg, phase, signal, finish, gap>>
  BY DEF vars
<1>2. TypeOK' /\ Signals'
  BY <1>1 DEF IInv, TypeOK, Signals, heap, allocator, signal, finish
<1>3. /\ \A v \in Worker : Scanned(v)' <=> Scanned(v)
      /\ \A v \in Worker : Updating(v)' <=> Updating(v)
      /\ \A o : Linked(o)' <=> Linked(o)
      /\ \A o : Markable(o)' <=> Markable(o)
  BY <1>1, SameColours DEF heap, signal
<1>4. Finish'
  BY <1>1, <1>3 DEF IInv, Finish, Clean, heap, allocator, finish
<1>5. \A v \in Worker : /\ stack'[v] # {} => pc'[v] = "trace"
                        /\ phase'[v] = MARK => root_set'[v] = {}
  BY <1>1 DEF IInv, Bits, allocator
<1>6. UNCHANGED <<sig, genum>> /\ phase' = phase
  BY <1>1 DEF signal
<1> QED BY <1>1, <1>2, <1>3, <1>4, <1>5, <1>6, QuietKeeps

-----------------------------------------------------------------------------
\* What a barrier is about to link is an object.
Pushes ==
    \A w \in Worker : /\ pc[w] = "pushnew" => arg[w].new \in Block
                      /\ pc[w] = "pushold" => arg[w].old \in Block

\* Types and the handshake, whatever is missed: steps of mutators ...
LEMMA MutateTypes ==
    ASSUME TypeOK, Signals, Pushes, NEW w \in Worker, Mutate(w) \/ Barrier(w)
    PROVE  TypeOK' /\ Signals' /\ Pushes'
<1> USE DEF heap, allocator, signal, finish
<1>1. CASE sml_alloc(w) \/ load_field(w) \/ load_global(w) \/ drop_root(w)
  <2>1. UNCHANGED <<pc, arg, phase, signal, finish>>
    BY <1>1 DEF sml_alloc, load_field, load_global, drop_root
  <2>2. ASSUME sml_alloc(w) PROVE TypeOK'
    <3>1. PICK o \in Block \ used, v \in root[w] \cup {Null} : sml_alloc(w)!(o, v)
      BY <2>2 DEF sml_alloc
    <3>2. v \in Value
      BY DEF TypeOK, Value
    <3> QED BY <3>1, <3>2 DEF TypeOK
  <2>3. ASSUME load_field(w) PROVE TypeOK'
    <3>1. PICK o \in root[w] : load_field(w)!(o)
      BY <2>3 DEF load_field
    <3>2. fld[o] \in Block
      BY <3>1 DEF TypeOK, Value
    <3> QED BY <3>1, <3>2 DEF TypeOK
  <2>4. ASSUME load_global(w) \/ drop_root(w) PROVE TypeOK'
    <3>1. PICK R \in SUBSET Block : root' = [root EXCEPT ![w] = R]
      <4>1. \A o \in global : root[w] \cup {o} \in SUBSET Block
        BY DEF TypeOK
      <4>2. \A o \in root[w] : root[w] \ {o} \in SUBSET Block
        BY DEF TypeOK
      <4> QED BY <2>4, <4>1, <4>2 DEF load_global, drop_root
    <3> QED BY <2>1, <2>4, <3>1 DEF load_global, drop_root, TypeOK
  <2>5. TypeOK'
    BY <1>1, <2>2, <2>3, <2>4
  <2> QED BY <2>1, <2>5 DEF Signals, Pushes
<1>2. CASE sml_write(w) \/ sml_cmpswap(w)
  <2> DEFINE writes(o, v) == [obj |-> o, new |-> v, old |-> fld[o], cas |-> FALSE]
             swaps(o, v) == [obj |-> o, new |-> v, old |-> fld[o], cas |-> TRUE]
  <2>1. PICK o \in root[w], v \in root[w] \cup {Null} :
            /\ pc[w] = "run" /\ Goto(w, "phase")
            /\ fld' = fld \/ fld' = [fld EXCEPT ![o] = v]
            /\ \/ arg' = [arg EXCEPT ![w] = writes(o, v)]
               \/ arg' = [arg EXCEPT ![w] = swaps(o, v)]
            /\ UNCHANGED <<used, owner, target, global, mark, root, allocator, phase, signal,
                           finish>>
    BY <1>2 DEF sml_write, sml_cmpswap
  <2>2. o \in Block /\ v \in Value /\ fld[o] \in Value
    BY DEF TypeOK, Value
  <2>6. writes(o, v) \in Arg /\ swaps(o, v) \in Arg
    BY <2>2 DEF Arg, Value
  <2> HIDE DEF writes, swaps
  <2>3. TypeOK'
    <3>1. fld' \in [Block -> Value]
      BY <2>1, <2>2 DEF TypeOK
    <3>2. pc' \in [Worker -> PC]
      BY <2>1 DEF TypeOK, Goto, PC
    <3>3. arg' \in [Worker -> Arg]
      BY <2>1, <2>6 DEF TypeOK, Arg
    <3> QED BY <2>1, <3>1, <3>2, <3>3 DEF TypeOK, Arg
  <2>4. Signals'
    BY <2>1, MutatorSignals DEF Mutating
  <2>5. Pushes'
    BY <2>1 DEF Pushes, Goto, TypeOK
  <2> QED BY <2>3, <2>4, <2>5
<1>3. CASE Barrier(w)
  <2>1. PICK l \in Mutating : pc[w] \in Mutating /\ Goto(w, l)
    BY <1>3 DEF Barrier, load_phase, remember_new, remember_old, store, Visit,
       BarrierStart, Mutating
  <2>2. UNCHANGED <<used, owner, target, global, root, root_set, stack, phase, signal, finish>>
    BY <1>3 DEF Barrier, load_phase, remember_new, remember_old, store
  <2>3. /\ mark' \subseteq Block
        /\ remembered' \in [Worker -> SUBSET Block]
    <3>1. CASE load_phase(w) \/ store(w)
      BY <3>1 DEF load_phase, store, TypeOK
    <3>2. CASE remember_new(w)
      BY <3>2 DEF remember_new, Visit, Push, Markable, TypeOK, Pushes
    <3>3. CASE remember_old(w)
      BY <3>3 DEF remember_old, Visit, Push, Markable, TypeOK, Pushes
    <3> QED BY <1>3, <3>1, <3>2, <3>3 DEF Barrier
  <2>4. /\ fld' \in [Block -> Value]
        /\ arg' \in [Worker -> [obj : Value, new : Value, old : Value, cas : BOOLEAN]]
    <3>1. CASE store(w)
      BY <3>1 DEF store, TypeOK, NoArg, Value
    <3>2. CASE ~store(w)
      BY <1>3, <3>2 DEF Barrier, load_phase, remember_new, remember_old, TypeOK
    <3> QED BY <3>1, <3>2
  <2>5. TypeOK'
    BY <2>1, <2>2, <2>3, <2>4 DEF TypeOK, Goto, Mutating, PC
  <2>6. Signals'
    BY <2>1, <2>2, MutatorSignals
  <2>7. Pushes'
    BY <1>3, <2>1 DEF Barrier, load_phase, remember_new, remember_old, store, Visit,
       Goto, Markable, TypeOK, Pushes, BarrierStart
  <2> QED BY <2>5, <2>6, <2>7
<1> QED BY <1>1, <1>2, <1>3 DEF Mutate

\* ... and of the collector, where a signal that is sent is sent to all.
LEMMA IssueTypes ==
    ASSUME TypeOK, Signals, NEW w \in Worker, NEW p \in Phase, Issue(w, p)
    PROVE  /\ unsent' = Worker /\ owing' = Worker /\ sig' = p
           /\ pc'[w] = "send" /\ \A v \in Worker \ {w} : pc'[v] = pc[v]
           /\ pc' \in [Worker -> PC]
  BY DEF Issue, Goto, TypeOK, PC

LEMMA HandshakeTypes ==
    ASSUME TypeOK, Signals, Pushes, NEW w \in Worker,
           change_phase(w) \/ worker_sync1(w) \/ worker_sync2(w) \/ sml_gc(w)
    PROVE  TypeOK' /\ Signals' /\ Pushes'
<1>1. CASE change_phase(w)
  <2>1. PICK v \in unsent : change_phase(w)!(v)
    BY <1>1 DEF change_phase
  <2>2. /\ v \in Worker /\ v \in owing
        /\ phase'[v] = sig /\ \A u \in Worker \ {v} : phase'[u] = phase[u]
        /\ phase' \in [Worker -> Phase]
        /\ pc[w] = "send" /\ \A u \in Worker \ {w} : pc'[u] = pc[u]
        /\ pc'[w] = IF unsent = {v} THEN "run" ELSE "send"
        /\ pc' \in [Worker -> PC]
        /\ unsent' = unsent \ {v}
        /\ UNCHANGED <<heap, mark, root, allocator, arg, sig, owing, genum, gc_count, finish>>
    BY <2>1 DEF TypeOK, Signals, Goto, PC
  <2>3. TypeOK'
    BY <2>2 DEF TypeOK, heap, allocator, finish
  <2>4. \A u \in Worker : /\ pc'[u] = "trace" <=> pc[u] = "trace"
                          /\ pc'[u] = "finish" <=> pc[u] = "finish"
                          /\ pc'[u] = "send" <=> u = w /\ unsent' # {}
    BY <2>2 DEF Signals
  <2>5. Signals'
    BY <2>2, <2>4 DEF Signals, finish
  <2> QED BY <2>2, <2>3, <2>5 DEF Pushes
<1>2. CASE worker_sync1(w) \/ worker_sync2(w)
  <2>1. PICK s \in {PRESYNC1, PRESYNC2} :
            /\ Pending(w, s) /\ AcceptSignal(w) /\ Answer(w, s + 2)
            /\ UNCHANGED <<heap, root, remembered, stack, arg, gc_count, finish>>
            /\ genum' = IF s = PRESYNC1 THEN IF owing = {w} THEN w ELSE genum
                        ELSE IF genum = w THEN Null ELSE genum
    BY <1>2 DEF worker_sync1, worker_sync2, allocator, PRESYNC1, PRESYNC2, PREMARK
  <2>2. /\ mark' \subseteq Block /\ root_set' \in [Worker -> SUBSET Block]
    BY <1>2 DEF worker_sync1, worker_sync2, allocator, TypeOK, RootsOf, Markable
  <2>3. /\ s \in {PREASYNC, PRESYNC1, PRESYNC2, PREMARK} /\ s + 2 \in Phase
        /\ s + 1 # s + 2 /\ s # PREMARK /\ (s + 2 = PRESYNC2 <=> s = PRESYNC1)
    BY DEF PREASYNC, PRESYNC1, PRESYNC2, PREMARK, Phase
  <2>4. w \in owing \ unsent /\ sig = s /\ pc[w] = "run" /\ phase[w] = s
    BY <2>1, <2>3, PendingSignal
  <2>5. /\ phase' \in [Worker -> Phase]
        /\ phase'[w] = s + 1 /\ \A u \in Worker \ {w} : phase'[u] = phase[u]
    BY <2>1, <2>3, <2>4, Accepted
  <2>6. /\ owing = {w} => sig' = s + 2 /\ owing' = Worker
        /\ owing # {w} => sig' = s /\ owing' = owing \ {w}
        /\ unsent' \subseteq Worker /\ owing' \subseteq Worker
        /\ pc' \in [Worker -> PC]
        /\ pc'[w] \in {"run", "send"} /\ \A u \in Worker \ {w} : pc'[u] = pc[u]
    BY <2>1, <2>4 DEF Answer, Issue, Goto, TypeOK, PC
  <2>7. TypeOK'
    BY <2>1, <2>2, <2>3, <2>4, <2>5, <2>6 DEF TypeOK, heap, finish
  <2>8. /\ genum' # Null => sig' = PRESYNC2 /\ genum' \in owing'
        /\ sig' = PRESYNC2 /\ owing' = Worker => genum' # Null
    <3>1. CASE s = PRESYNC1
      <4>1. s # PRESYNC2 /\ genum = Null /\ w # Null
        BY <2>4, <3>1, NullAssumption DEF Signals, PRESYNC1, PRESYNC2
      <4> QED BY <2>1, <2>3, <2>6, <3>1, <4>1
    <3>2. CASE s = PRESYNC2
      <4>1. s # PRESYNC1 /\ genum \in owing \cup {Null}
        BY <3>2 DEF Signals, PRESYNC1, PRESYNC2
      <4> QED BY <2>1, <2>3, <2>4, <2>6, <3>2, <4>1
    <3> QED BY <3>1, <3>2
  <2>9. Signals'
    BY <2>1, <2>8, AnswerSignals
  <2> QED BY <2>1, <2>6, <2>7, <2>9 DEF Pushes
<1>3. CASE sml_gc(w)
  <2>1. /\ pc[w] = "run" /\ sig = PREASYNC /\ owing = {} /\ unsent = {} /\ toSee = {}
        /\ gc_count < MaxGC /\ genum = Null /\ Issue(w, PRESYNC1)
        /\ UNCHANGED <<heap, mark, root, allocator, arg, phase, genum, gc_count, finish>>
    BY <1>3 DEF sml_gc, Signals, PREASYNC, PREMARK, PRESYNC2
  <2>2. \A u \in Worker : phase[u] = ASYNC /\ pc[u] \notin {"trace", "send", "finish"}
    BY <2>1 DEF Signals, PREASYNC, ASYNC, PREMARK
  <2>3. /\ unsent' = Worker /\ owing' = Worker /\ sig' = PRESYNC1 /\ PRESYNC1 \in Phase
        /\ pc'[w] = "send" /\ \A v \in Worker \ {w} : pc'[v] = pc[v]
        /\ pc' \in [Worker -> PC]
    BY <2>1, IssueTypes DEF PRESYNC1, Phase
  <2>4. TypeOK'
    BY <2>1, <2>3 DEF TypeOK, heap, allocator, finish
  <2>5. Signals'
    BY <2>1, <2>2, <2>3 DEF Signals, Before, PREASYNC, ASYNC, PRESYNC1, PRESYNC2,
       PREMARK, finish
  <2> QED BY <2>1, <2>3, <2>4, <2>5 DEF Pushes
<1> QED BY <1>1, <1>2, <1>3

LEMMA TraceTypes ==
    ASSUME TypeOK, Signals, Pushes, NEW w \in Worker,
           worker_mark(w) \/ trace(w) \/ trace_done(w)
    PROVE  TypeOK' /\ Signals' /\ Pushes'
<1>1. CASE worker_mark(w)
  <2>1. w \in owing \ unsent /\ sig = PREMARK /\ pc[w] = "run" /\ phase[w] = PREMARK
    BY <1>1, PendingSignal DEF worker_mark
  <2>2. /\ phase' \in [Worker -> Phase]
        /\ phase'[w] = MARK /\ \A v \in Worker \ {w} : phase'[v] = phase[v]
    BY <1>1, <2>1, Accepted DEF worker_mark, PREMARK, MARK
  <2>3. /\ pc' \in [Worker -> PC]
        /\ pc'[w] = "trace" /\ \A v \in Worker \ {w} : pc'[v] = pc[v]
        /\ UNCHANGED <<heap, mark, root, arg, signal, finish>>
    BY <1>1 DEF worker_mark, Goto, TypeOK, PC
  <2>4. /\ stack' \in [Worker -> SUBSET Block]
        /\ root_set' \in [Worker -> SUBSET Block]
        /\ remembered' \in [Worker -> SUBSET Block]
    BY <1>1 DEF worker_mark, TypeOK
  <2>5. TypeOK'
    BY <2>2, <2>3, <2>4 DEF TypeOK, heap, signal, finish
  <2>6. Signals'
    BY <2>1, <2>2, <2>3 DEF Signals, signal, finish
  <2> QED BY <2>3, <2>5, <2>6 DEF Pushes
<1>2. CASE trace(w)
  <2>1. PICK o \in stack[w] : trace(w)!(o)
    BY <1>2 DEF trace
  <2>2. mark' \subseteq Block /\ stack' \in [Worker -> SUBSET Block]
    BY <2>1 DEF TypeOK, Markable
  <2>3. UNCHANGED <<heap, root, root_set, remembered, pc, arg, phase, signal, finish>>
    BY <2>1
  <2> QED BY <2>2, <2>3 DEF TypeOK, Signals, Pushes, heap, signal, finish
<1>3. CASE trace_done(w)
  <2>1. /\ pc[w] = "trace" /\ w \in owing /\ w \notin unsent
        /\ sig = PREMARK /\ phase[w] = MARK /\ toSee = {}
        /\ \A v \in Worker : pc[v] # "finish"
    BY <1>3 DEF trace_done, Signals
  <2>2. /\ \A v \in Worker \ {w} : pc'[v] = pc[v]
        /\ pc'[w] = IF owing = {w} THEN "finish" ELSE "run"
        /\ pc' \in [Worker -> PC]
        /\ toSee' = IF owing = {w} THEN Worker ELSE {}
        /\ round' \in 0 .. 2
        /\ owing' = owing \ {w}
        /\ UNCHANGED <<heap, mark, root, allocator, arg, phase, sig, unsent, genum, gc_count>>
    BY <1>3, <2>1 DEF trace_done, Goto, TypeOK, finish, PC
  <2>3. TypeOK'
    BY <2>2 DEF TypeOK, heap, allocator
  <2>4. Signals'
    <3>1. CASE owing = {w}
      <4>1. /\ unsent = {}
            /\ \A v \in Worker \ {w} : phase[v] = sig + 1 /\ pc[v] # "trace"
            /\ \A v \in Worker : pc[v] \notin {"send", "finish"}
        BY <2>1, <3>1, LastAnswer
      <4> QED BY <2>1, <2>2, <3>1, <4>1 DEF Signals, MARK, PREMARK, PREASYNC, PRESYNC2
    <3>2. CASE owing # {w}
      BY <2>1, <2>2, <3>2 DEF Signals, MARK, PREMARK, PRESYNC2
    <3> QED BY <3>1, <3>2
  <2> QED BY <2>2, <2>3, <2>4 DEF Pushes
<1> QED BY <1>1, <1>2, <1>3

LEMMA EndTypes ==
    ASSUME TypeOK, Signals, Pushes, NEW w \in Worker,
           sml_heap_mark_finish(w) \/ worker_async(w)
    PROVE  TypeOK' /\ Signals' /\ Pushes'
<1>1. CASE sml_heap_mark_finish(w)
  <2>1. PICK v \in toSee : sml_heap_mark_finish(w)!(v)
    BY <1>1 DEF sml_heap_mark_finish
  <2>2. /\ pc[w] = "finish" /\ sig = PREMARK /\ owing = {} /\ unsent = {}
        /\ gc_count < MaxGC /\ genum = Null /\ \A u \in Worker : phase[u] = MARK
        /\ \A u \in Worker : /\ pc[u] \notin {"trace", "send"}
                             /\ pc[u] = "finish" => u = w
        /\ UNCHANGED <<heap, mark, root, allocator, arg, phase, genum, gc_count>>
    BY <2>1 DEF Signals, PREMARK, PREASYNC, PRESYNC2, MARK
  <2>3. CASE toSee' # {}
    <3>1. /\ UNCHANGED <<pc, sig, unsent, owing>>
          /\ toSee' = toSee \ {v} \/ toSee' = Worker
          /\ round' \in 0 .. 2
      BY <2>1, <2>3 DEF TypeOK, FinishRounds
    <3>2. TypeOK'
      BY <2>2, <3>1 DEF TypeOK, heap, allocator
    <3>3. Signals'
      BY <2>2, <2>3, <3>1 DEF Signals, PREMARK, PRESYNC2
    <3> QED BY <2>2, <3>1, <3>2, <3>3 DEF Pushes
  <2>4. CASE toSee' = {}
    <3>1. PICK p \in {PREMARK, PREASYNC} : Issue(w, p) /\ round' = 0
      BY <2>1, <2>4, WorkerAssumption DEF TypeOK
    <3>2. /\ unsent' = Worker /\ owing' = Worker /\ sig' = p /\ p \in Phase
          /\ pc'[w] = "send" /\ \A u \in Worker \ {w} : pc'[u] = pc[u]
          /\ pc' \in [Worker -> PC]
      BY <3>1, IssueTypes DEF PREMARK, PREASYNC, Phase
    <3>3. TypeOK'
      BY <2>2, <2>4, <3>1, <3>2 DEF TypeOK, heap, allocator
    <3>4. Signals'
      BY <2>2, <2>4, <3>1, <3>2 DEF Signals, Before, PREMARK, MARK, PREASYNC, PRESYNC2
    <3> QED BY <2>2, <3>2, <3>3, <3>4 DEF Pushes
  <2> QED BY <2>3, <2>4
<1>2. CASE worker_async(w)
  <2>1. w \in owing \ unsent /\ sig = PREASYNC /\ pc[w] = "run" /\ phase[w] = PREASYNC
    BY <1>2, PendingSignal DEF worker_async
  <2>2. /\ phase' \in [Worker -> Phase]
        /\ phase'[w] = ASYNC /\ \A u \in Worker \ {w} : phase'[u] = phase[u]
    BY <1>2, <2>1, Accepted DEF worker_async, PREASYNC, ASYNC
  <2>3. /\ owing' = owing \ {w} /\ gc_count < MaxGC
        /\ gc_count' = IF owing = {w} THEN gc_count + 1 ELSE gc_count
        /\ UNCHANGED <<global, root, root_set, stack, pc, arg, sig, unsent, genum, finish>>
    BY <1>2, <2>1 DEF worker_async, Signals
  <2>4. /\ owner' \in [Block -> Worker \cup {Null}] /\ fld' \in [Block -> Value]
        /\ remembered' \in [Worker -> SUBSET Block]
        /\ target' \subseteq used' /\ mark' \subseteq Block /\ used' \subseteq Block
    BY <1>2 DEF worker_async, TypeOK, Value, ObjectsOfNext
  <2>5. gc_count' \in 0 .. MaxGC
    BY <2>3, BoundAssumption DEF TypeOK
  <2>6. TypeOK'
    BY <2>2, <2>3, <2>4, <2>5 DEF TypeOK, finish
  <2>7. Signals'
    <3>1. /\ toSee = {} /\ genum = Null
          /\ \A u \in Worker : pc[u] # "trace" /\ pc[u] # "finish"
      BY <2>1 DEF Signals, PREASYNC, PREMARK, PRESYNC2
    <3> QED BY <2>1, <2>2, <2>3, <3>1 DEF Signals, finish, PREASYNC, ASYNC
  <2> QED BY <2>3, <2>6, <2>7 DEF Pushes
<1> QED BY <1>1, <1>2

\* The types of all variables, for any number of workers and blocks and whatever
\* the timing.
THEOREM MarkTypes == Spec => []TypeOK
<1> DEFINE I == TypeOK /\ Signals /\ Pushes
<1>1. Init => I
  <2> SUFFICES ASSUME Init PROVE I
    OBVIOUS
  <2>1. TypeOK /\ Signals
    BY InitTypes
  <2>2. Pushes
    BY DEF Init, Pushes
  <2> QED BY <2>1, <2>2
<1>2. I /\ [Next]_vars => I'
  <2> SUFFICES ASSUME I, [Next]_vars PROVE I'
    OBVIOUS
  <2>1. CASE UNCHANGED vars
    BY <2>1 DEF vars, heap, allocator, signal, finish, TypeOK, Signals, Pushes
  <2>2. CASE Next
    <3>1. PICK w \in Worker : Mutate(w) \/ Barrier(w) \/ Collect(w) \/ sml_gc(w)
      BY <2>2 DEF Next
    <3> QED BY <3>1, MutateTypes, HandshakeTypes, TraceTypes, EndTypes DEF Collect
  <2> QED BY <2>1, <2>2
<1>3. I => TypeOK
  OBVIOUS
<1> HIDE DEF I
<1> QED BY <1>1, <1>2, <1>3, PTL DEF Spec


-----------------------------------------------------------------------------
\* Nothing is missed or found in a step that does not look at remembered sets.
LEMMA GapKept ==
    ASSUME IInv, Watch, gap' # "yes", round' = round \/ round' = 1
    PROVE  gap' = gap
  BY DEF IInv, Finish, Watch, Opens

\* Every step of a mutator or of the collector keeps the invariant of marking and
\* reclaiming, for any number of workers and blocks, unless something is missed
\* in this step or has been before.
THEOREM MarkInvariant == WatchedSpec => []KeptInv
<1>1. Init /\ gap = "no" => KeptInv
  BY InitKeeps DEF KeptInv
<1>2. KeptInv /\ [Next /\ Watch]_<<vars, gap>> => KeptInv'
  <2> SUFFICES ASSUME KeptInv, [Next /\ Watch]_<<vars, gap>>, gap' # "yes" PROVE IInv'
    BY DEF KeptInv
  <2>1. CASE UNCHANGED <<vars, gap>>
    BY <2>1, StutterKeeps DEF KeptInv
  <2>2. CASE Next /\ Watch
    <3>1. IInv /\ ~Overwrites /\ ~SetsLate
      BY <2>2 DEF KeptInv, Watch
    <3>2. PICK w \in Worker : Mutate(w) \/ Barrier(w) \/ Collect(w) \/ sml_gc(w)
      BY <2>2 DEF Next
    <3>3. CASE Mutate(w)
      <4>1. gap' = gap
        BY <2>2, <3>1, <3>3, GapKept DEF Mutate, sml_alloc, load_field, load_global,
           drop_root, sml_write, sml_cmpswap, finish
      <4> QED BY <3>1, <3>3, <4>1, AllocKeeps, LoadFieldKeeps, LoadGlobalKeeps,
                 DropRootKeeps, WriteKeeps, CmpswapKeeps DEF Mutate
    <3>4. CASE Barrier(w)
      <4>1. gap' = gap
        BY <2>2, <3>1, <3>4, GapKept DEF Barrier, load_phase, remember_new,
           remember_old, store, finish
      <4> QED BY <3>1, <3>4, <4>1, LoadPhaseKeeps, RememberNewKeeps,
                 RememberOldKeeps, StoreKeeps DEF Barrier
    <3>5. CASE sml_heap_mark_finish(w)
      BY <2>2, <3>1, <3>5, FinishKeeps
    <3>6. CASE sml_gc(w) \/ (Collect(w) /\ ~sml_heap_mark_finish(w))
      <4>1. gap' = gap
        BY <2>2, <3>1, <3>6, GapKept DEF Collect, change_phase, worker_sync1,
           worker_sync2, worker_mark, trace, trace_done, worker_async, sml_gc, finish
      <4> QED BY <3>1, <3>6, <4>1, ChangePhaseKeeps, Sync1Keeps, Sync2Keeps, MarkKeeps,
                 TraceKeeps, TraceDoneKeeps, AsyncKeeps, GCKeeps DEF Collect
    <3> QED BY <3>2, <3>3, <3>4, <3>5, <3>6
  <2> QED BY <2>1, <2>2
<1> QED BY <1>1, <1>2, PTL DEF WatchedSpec

\* What a mutator can get at is kept: kept objects include the roots and are closed.
LEMMA ReachableKept ==
    ASSUME IInv, NEW o \in Reachable
    PROVE  o \in Block /\ Kept(o)
<1> DEFINE S == {p \in Block : Kept(p)}
<1>1. global \subseteq S /\ \A w \in Worker : root[w] \subseteq S
  BY DEF IInv, Heap, TypeOK
<1>2. Closed(S)
  BY DEF IInv, Heap, TypeOK, Closed, Value
<1>3. S \in SUBSET Block
  OBVIOUS
<1> HIDE DEF S
<1>4. o \in Block /\ o \in S
  BY <1>1, <1>2, <1>3 DEF Reachable
<1> QED BY <1>4 DEF S

\* No object that a mutator can get at is released by sml_heap_worker_async, while
\* mutators allocate, load and update at any time of the collection, unless one
\* of them has been interrupted where something is missed.
THEOREM LiveObjectsKept == WatchedSpec => []LiveUnlessMissed
<1>1. KeptInv => LiveUnlessMissed
  BY ReachableKept DEF KeptInv, LiveUnlessMissed, LiveKept, Kept
<1> QED BY <1>1, MarkInvariant, PTL

\* When sml_heap_mark_finish goes on to ASYNC, every object of this collection
\* that a mutator can get at has its collect bit set, unless something has been
\* missed.
THEOREM TracingComplete == WatchedSpec => []TracedUnlessMissed
<1>1. ASSUME IInv, sig = PREASYNC, unsent = Worker, NEW o \in Reachable \cap target
      PROVE  o \in mark
  <2>1. o \in Block /\ Kept(o) /\ o \in used
    BY <1>1, ReachableKept DEF Kept
  <2>2. owner[o] \in Worker
    BY <1>1, <2>1 DEF IInv, Heap, TypeOK
  <2>3. phase[owner[o]] = MARK
    BY <1>1, <2>2 DEF IInv, Signals, Before, PREASYNC
  <2> QED BY <1>1, <2>1, <2>3 DEF Kept, MARK, ASYNC
<1>2. KeptInv => TracedUnlessMissed
  BY <1>1 DEF KeptInv, TracedUnlessMissed, TraceComplete
<1> QED BY <1>2, MarkInvariant, PTL

\* While MARK is in progress, everything a mutator can get at is marked or found
\* by tracing, whatever mutators have done to the heap since their roots were
\* enumerated, unless something has been missed.
THEOREM SnapshotProtected == WatchedSpec => []SnapshotUnlessMissed
<1>1. ASSUME IInv, sig = PREMARK, NEW o \in Reachable, Markable(o)
      PROVE  o \in WhiteReach(Grey)
  <2>1. TypeOK /\ Tricolor /\ Snapshot /\ \A w \in Worker : Scanned(w)
    BY <1>1 DEF IInv, Snapshot, Scanned
  <2>2. Safe(o) /\ o \in Block
    <3> DEFINE S == {p \in Block : p \in used /\ Safe(p)}
    <3>1. global \subseteq S /\ \A w \in Worker : root[w] \subseteq S
      BY <1>1, <2>1 DEF IInv, Heap, Kept, Tricolor, TypeOK
    <3>2. \A p \in S : fld[p] \in used \cup {Null} /\ Safe(fld[p])
      <4> SUFFICES ASSUME NEW p \in S PROVE fld[p] \in used \cup {Null} /\ Safe(fld[p])
        OBVIOUS
      <4>1. fld[p] \in used \cup {Null}
        BY <1>1 DEF IInv, Heap, Kept, PREMARK, PREASYNC
      <4> QED BY <2>1, <4>1, SuccessorSafe
    <3>3. Closed(S)
      BY <2>1, <3>2 DEF Closed, TypeOK
    <3>4. S \in SUBSET Block
      OBVIOUS
    <3> HIDE DEF S
    <3>5. o \in S
      BY <3>1, <3>3, <3>4 DEF Reachable
    <3> QED BY <3>5 DEF S
  <2>3. Protected(o)
    BY <1>1, <2>2 DEF Safe
  <2>4. SUFFICES ASSUME NEW S \in SUBSET Block, Grey \subseteq S,
                        \A p \in S : Markable(fld[p]) => fld[p] \in S
                 PROVE  o \in S
    BY <2>2 DEF WhiteReach
  <2>5. genum = Null
    BY <1>1 DEF IInv, Signals, PREMARK, PRESYNC2
  <2>6. \A p \in Block : Linked(p) => p \in Grey
    BY DEF Linked, LinkedBy, Grey
  <2>7. \A p \in Block : Promised(p) => p \in Grey
    BY <2>1, <2>5 DEF Promised, Promises, Grey
  <2>8. Covers(S)
    BY <2>4, <2>6, <2>7 DEF Covers, Sought
  <2> QED BY <2>3, <2>8 DEF Protected
<1>2. KeptInv => SnapshotUnlessMissed
  BY <1>1 DEF KeptInv, SnapshotUnlessMissed, SnapshotKept
<1> QED BY <1>2, MarkInvariant, PTL

=============================================================================
