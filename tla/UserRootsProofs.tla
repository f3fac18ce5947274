--------------------------- MODULE UserRootsProofs ---------------------------
(***************************************************************************)
(* The steps of the threads and of the workers keep the invariant of       *)
(* UserRootsInv, and what follows from it: worker_sync2 and                *)
(* sml_enter_internal enumerate only closed ranges of threads that exist,  *)
(* all roots are enumerated when MARK begins, no context in use is         *)
(* released and every lock that somebody waits for is released.            *)
(***************************************************************************)
EXTENDS UserRootsInv, TLAPS

-----------------------------------------------------------------------------
(***************************************************************************)
(* The steps of the threads: sml_start, sml_end, sml_leave, sml_enter and  *)
(* cancel_user.  Each lemma names the context the step is about, says what *)
(* the step does to it, shows that the other threads stay where they are,  *)
(* and then looks at the conjuncts one by one.                             *)
(***************************************************************************)

\* Thread v is where it was, and so is its context
Remains(v) ==
    /\ at'[v] = at[v] /\ on'[v] = on[v] /\ tlv'[v] = tlv[v]
    /\ depth'[v] = depth[v] /\ loc'[v] = loc[v]
    /\ Self(v)' = Self(v)
    /\ Inside(v)' <=> Inside(v)
    /\ Alive(v)' <=> Alive(v)
    /\ Moving(v)' <=> Moving(v)
    /\ Entering(v)' <=> Entering(v)

\* And its last range is open if it was
Stays(v) == Remains(v) /\ open'[v] = open[v]

\* A thread that is in a program has a context, which no other thread has.
LEMMA OwnContext ==
    ASSUME IInv, NEW u \in Thread, Alive(u)
    PROVE  /\ Self(u) \in Context
           /\ ctx[Self(u)].thread = u /\ ctx[Self(u)].stack = depth[u]
           /\ ctx[Self(u)].worker \in Worker
           /\ \A v \in Thread : Alive(v) /\ Self(v) = Self(u) => v = u
  BY DEF IInv, Threads, ThreadOK, Places, PlaceOK

\* The context of a thread that runs ML code, or has called sml_save, is
\* current_user of its worker, and nobody has locked it.
LEMMA RunningContext ==
    ASSUME IInv, NEW u \in Thread, Inside(u), act[on[u]] = "none"
    PROVE  LET w == on[u]
               c == cur[w]
           IN  /\ Alive(u) /\ Self(u) = c /\ w \in Worker /\ tlv[u] = Null
               /\ c \in Context /\ c \in users[w] /\ owner[c] = w /\ ~ctx[c].busy
               /\ ctx[c].thread = u /\ ctx[c].worker = w /\ ctx[c].stack = depth[u]
               /\ depth[u] \in 1 .. MaxDepth
               /\ \A v \in Worker : enum[v] # c
               /\ \A v \in Thread : tlv[v] # c
<1> DEFINE w == on[u]
           c == cur[w]
<1>1. Alive(u) /\ Self(u) = c /\ w \in Worker /\ tlv[u] = Null
  BY DEF IInv, Threads, ThreadOK, Inside, Alive, Self
<1>2. /\ c \in Context /\ c \in users[w] /\ owner[c] = w
      /\ ctx[c].thread = u /\ ctx[c].worker = w /\ ctx[c].stack = depth[u]
  BY <1>1, OwnContext DEF IInv, Places, PlaceOK, Contexts, ContextOK, Inside
<1>3. \A v \in Worker : enum[v] # c
  BY <1>1, <1>2, NullAssumption DEF IInv, Enumeration
<1>4. \A v \in Thread : tlv[v] # c
  BY <1>1, <1>2, OwnContext, NullAssumption DEF IInv, Threads, ThreadOK, Inside,
     Self
<1>5. ~ctx[c].busy
  BY <1>1, <1>2, <1>3, <1>4 DEF IInv, Contexts, ContextOK, Held
<1>6. depth[u] \in 1 .. MaxDepth
  BY <1>1, BoundAssumption DEF IInv, TypeOK, Threads, ThreadOK
<1> QED BY <1>1, <1>2, <1>3, <1>4, <1>5, <1>6

\* The context of a thread outside of ML code is user_tlv_get(current_user).
LEMMA OutsideContext ==
    ASSUME IInv, NEW u \in Thread, Alive(u), ~Inside(u)
    PROVE  LET c == tlv[u]
           IN  /\ Self(u) = c /\ c \in Context /\ owner[c] # Null
               /\ ctx[c].thread = u /\ ctx[c].worker \in Worker
               /\ ctx[c].stack = depth[u] /\ depth[u] \in 1 .. MaxDepth
               /\ \A v \in Thread : tlv[v] = c => v = u
               /\ \A v \in Thread : loc[v].new # c
<1> DEFINE c == tlv[u]
<1>1. /\ Self(u) = c /\ c \in Context
      /\ ctx[c].thread = u /\ ctx[c].worker \in Worker /\ ctx[c].stack = depth[u]
  BY OwnContext DEF Self
<1>2. \A v \in Thread : tlv[v] = c => v = u
  BY <1>1, OwnContext, NullAssumption DEF IInv, Threads, ThreadOK, Self
<1>3. depth[u] \in 1 .. MaxDepth
  BY BoundAssumption DEF IInv, TypeOK, Threads, ThreadOK
<1>4. owner[c] # Null
  BY <1>1, NullAssumption DEF IInv, NewContexts, NewOK
<1>5. \A v \in Thread : loc[v].new # c
  BY <1>1, NullAssumption DEF IInv, NewContexts, NewOK, Threads, ThreadOK
<1> QED BY <1>1, <1>2, <1>3, <1>4, <1>5

\* A thread in sml_enter_internal or cancel_user has its context at hand.
LEMMA BetweenContext ==
    ASSUME NEW v \in Thread, Moving(v) \/ at[v] \in {"copy", "cancel"}
    PROVE  Alive(v) /\ Self(v) = tlv[v]
  BY DEF Moving, Alive, Self, Inside

\* A free context is referred to by nobody: sml_alloc_important may return it.
LEMMA FreeContext ==
    ASSUME IInv, NEW n \in Context, owner[n] = Null
    PROVE  /\ n \notin target
           /\ \A w \in Worker : n \notin users[w] /\ n \notin todo[w] /\ enum[w] # n
           /\ \A u \in Thread : /\ tlv[u] # n /\ loc[u].new # n
                                /\ Alive(u) => Self(u) # n
<1>1. n \notin target
  BY DEF IInv, Contexts
<1>2. \A w \in Worker : n \notin users[w]
  BY NullAssumption DEF IInv, Contexts, ContextOK
<1>3. \A w \in Worker : n \notin todo[w] /\ enum[w] # n
  BY <1>2, NullAssumption DEF IInv, Enumeration
<1>4. \A u \in Thread : tlv[u] # n /\ loc[u].new # n
  BY NullAssumption DEF IInv, NewContexts, NewOK, Threads, ThreadOK
<1>5. ASSUME NEW u \in Thread, Alive(u), Inside(u) PROVE Self(u) # n
  BY <1>5, <1>2, OwnContext DEF IInv, Places, PlaceOK, Inside
<1>6. ASSUME NEW u \in Thread, Alive(u) PROVE Self(u) # n
  BY <1>4, <1>5, <1>6 DEF Self
<1> QED BY <1>1, <1>2, <1>3, <1>4, <1>6

\* A thread that does not step stays, unless current_user of its worker changes.
LEMMA OtherThread ==
    ASSUME IInv, NEW v \in Thread,
           at'[v] = at[v], on'[v] = on[v], tlv'[v] = tlv[v],
           depth'[v] = depth[v], open'[v] = open[v], loc'[v] = loc[v],
           Inside(v) => cur'[on[v]] = cur[on[v]]
    PROVE  Stays(v)
  BY DEF Stays, Remains, Self, Inside, Alive, Moving, Entering

\* It keeps its place if its context and the state of the workers stay the same.
LEMMA OtherPlace ==
    ASSUME IInv, NEW v \in Thread, Stays(v),
           Alive(v) => ctx'[Self(v)] = ctx[Self(v)],
           UNCHANGED <<enum, phase>>,
           \A w \in Worker : users[w] \subseteq users'[w]
    PROVE  PlaceOK(v)'
<1>1. PlaceOK(v)
  BY DEF IInv, Places
<1>2. /\ Alive(v) => ctx[Self(v)].worker \in Worker
      /\ Moving(v) \/ at[v] = "cancel" => ctx'[tlv[v]] = ctx[tlv[v]]
  BY <1>1, BetweenContext DEF PlaceOK
<1>3. /\ at[v] \in {"enum", "move"} => Moving(v)
      /\ enum' = enum /\ phase' = phase
  BY DEF Moving
<1>4. /\ Alive(v) => /\ ctx'[Self(v)].thread = v
                     /\ ctx'[Self(v)].stack = depth[v]
                     /\ ctx'[Self(v)].worker \in Worker
      /\ Alive(v) /\ at[v] # "copy" => Self(v) \in users'[ctx'[Self(v)].worker]
      /\ Inside(v) \/ at[v] = "copy" => ctx'[Self(v)].worker = on[v]
  BY <1>1, <1>2, BetweenContext DEF PlaceOK, Inside, Alive
<1>5. /\ Moving(v) => ctx'[tlv[v]].worker # on[v]
      /\ at[v] \in {"enum", "move", "cancel"} =>
             ctx'[tlv[v]].busy /\ \A w \in Worker : enum'[w] # tlv[v]
  BY <1>1, <1>2, <1>3 DEF PlaceOK
<1> QED BY <1>1, <1>3, <1>4, <1>5 DEF Stays, Remains, PlaceOK

\* sml_end: the last range of the thread is removed, and its context with it.
LEMMA EndStep ==
    ASSUME IInv, NEW u \in Thread, sml_end(u)
    PROVE  IInv'
<1> DEFINE w == on[u]
           c == cur[w]
           last == ctx[c].stack = 1
<1>1. /\ at[u] = "ML" /\ Alive(u) /\ Self(u) = c /\ w \in Worker
      /\ act[w] = "none" /\ tlv[u] = Null
      /\ c \in Context /\ c \in users[w] /\ owner[c] = w /\ ~ctx[c].busy
      /\ ctx[c].thread = u /\ ctx[c].worker = w /\ ctx[c].stack = depth[u]
      /\ depth[u] \in 1 .. MaxDepth
      /\ \A v \in Worker : enum[v] # c
      /\ \A v \in Thread : tlv[v] # c
  BY RunningContext DEF sml_end, Running, Inside
<1>2. /\ at' = [at EXCEPT ![u] = IF last THEN "none" ELSE "C"]
      /\ on' = [on EXCEPT ![u] = Null]
      /\ tlv' = IF last THEN tlv ELSE [tlv EXCEPT ![u] = c]
      /\ cur' = IF last THEN [cur EXCEPT ![w] = Null] ELSE cur
      /\ depth' = [depth EXCEPT ![u] = @ - 1]
      /\ open' = [open EXCEPT ![u] = FALSE]
      /\ UNCHANGED <<loc, owner, target, mark, users, act, todo, enum, phase,
                      sig, unsent, owing, gc_count, seen>>
  BY DEF sml_end, Goto, LastRange, signal
<1>3. /\ ctx' \in [Context -> User]
      /\ \A d \in Context : d # c => ctx'[d] = ctx[d]
      /\ ctx'[c].stack = depth[u] - 1 /\ ctx'[c].thread = u /\ ~ctx'[c].busy
      /\ ctx'[c].worker = IF last THEN Null ELSE w
  <2>1. ctx' = [ctx EXCEPT ![c].stack = @ - 1,
                              ![c].worker = IF last THEN Null ELSE @]
    BY DEF sml_end, LastRange
  <2>2. ctx[c].stack - 1 \in 0 .. MaxDepth
    BY <1>1, BoundAssumption
  <2>3. ctx \in [Context -> User]
    BY DEF IInv, TypeOK, User
  <2> QED BY <2>1, <2>2, <2>3, <1>1 DEF User
<1>4. ASSUME NEW v \in Thread, v # u
      PROVE  Stays(v) /\ (Alive(v) => Self(v) # c /\ ctx'[Self(v)] = ctx[Self(v)])
  <2>1. /\ at'[v] = at[v] /\ on'[v] = on[v] /\ tlv'[v] = tlv[v]
        /\ depth'[v] = depth[v] /\ open'[v] = open[v] /\ loc'[v] = loc[v]
    BY <1>4, <1>2 DEF IInv, TypeOK
  <2>2. Inside(v) => cur'[on[v]] = cur[on[v]]
    BY <1>4, <1>1, <1>2, NullAssumption DEF IInv, TypeOK, Threads, ThreadOK
  <2>3. Alive(v) => Self(v) # c /\ ctx'[Self(v)] = ctx[Self(v)]
    BY <1>4, <1>1, <1>2, <1>3, OwnContext
  <2> QED BY <2>1, <2>2, <2>3, OtherThread
<1>5. /\ ~Inside(u)' /\ ~Entering(u)' /\ ~Moving(u)' /\ at'[u] \in {"none", "C"}
      /\ on'[u] = Null /\ loc'[u] = loc[u] /\ ~open'[u] /\ depth'[u] = depth[u] - 1
      /\ IF last THEN ~Alive(u)' /\ tlv'[u] = Null
                 ELSE Alive(u)' /\ Self(u)' = c /\ tlv'[u] = c
  BY <1>1, <1>2, <1>3 DEF IInv, TypeOK, Self, Inside, Alive, Moving, Entering
<1>6. TypeOK'
  <2>1. depth' \in [Thread -> 0 .. MaxDepth]
    BY <1>1, <1>2, BoundAssumption DEF IInv, TypeOK
  <2> QED BY <2>1, <1>1, <1>2, <1>3 DEF IInv, TypeOK, User
<1>7. Signals'
  BY <1>2 DEF IInv, Signals
<1>8. Enumeration'
  BY <1>1, <1>2, <1>3, NullAssumption DEF IInv, TypeOK, Enumeration
<1>9. Threads'
  <2>1. ASSUME NEW v \in Thread, v # u PROVE ThreadOK(v)'
    BY <2>1, <1>4, <1>1, <1>2, <1>3, NullAssumption DEF Stays, Remains, IInv,
       Threads, ThreadOK
  <2>2. ThreadOK(u)'
    BY <1>5, <1>4, <1>2, <1>1, NullAssumption DEF Stays, Remains, IInv, Threads,
       ThreadOK, Inside, Entering, Moving
  <2> QED BY <2>1, <2>2 DEF Threads
<1>10. Places'
  <2>1. ASSUME NEW v \in Thread, v # u PROVE PlaceOK(v)'
    BY <2>1, <1>4, <1>2, OtherPlace
  <2>2. PlaceOK(u)'
    BY <1>1, <1>2, <1>3, <1>5 DEF IInv, TypeOK, Places, PlaceOK
  <2> QED BY <2>1, <2>2 DEF Places
<1>11. Contexts'
  <2>1. ASSUME NEW v \in Worker, NEW d \in users'[v] PROVE ContextOK(v, d)'
    <3>1. d \in Context /\ ContextOK(v, d)
      BY <1>2 DEF IInv, TypeOK, Contexts
    <3>2. CASE d = c
      BY <3>1, <3>2, <1>1, <1>2, <1>3, <1>5, NullAssumption DEF IInv, TypeOK,
         ContextOK, Held
    <3>3. CASE d # c
      <4>1. ctx[d].worker = v => ctx[d].thread # u
        BY <3>1, <3>3, <1>1 DEF ContextOK
      <4>2. Held(d) => Held(d)'
        BY <3>3, <1>4, <1>1, <1>2, <1>3 DEF Held, Stays, Remains
      <4> QED
        BY <3>1, <3>3, <4>1, <4>2, <1>4, <1>2, <1>3 DEF ContextOK, Stays,
           Remains
    <3> QED BY <3>2, <3>3
  <2>2. \A d \in Context : owner'[d] = Null => d \notin target'
    BY <1>2 DEF IInv, Contexts
  <2> QED BY <2>1, <2>2 DEF Contexts
<1>12. NewContexts'
  <2>1. ASSUME NEW v \in Thread, v # u PROVE NewOK(v)'
    BY <2>1, <1>4, <1>1, <1>2, <1>3, NullAssumption DEF Stays, Remains, IInv,
       TypeOK, Threads, ThreadOK, NewContexts, NewOK
  <2>2. NewOK(u)'
    BY <1>1, <1>2, <1>3, <1>5, NullAssumption DEF IInv, TypeOK, NewContexts,
       NewOK
  <2> QED BY <2>1, <2>2 DEF NewContexts
<1>13. Kept'
  BY <1>1, <1>2, <1>3 DEF IInv, TypeOK, Kept
<1>14. Seen'
  <2>1. ASSUME NEW v \in Thread, v # u PROVE SeenOK(v)'
    BY <2>1, <1>4, <1>2 DEF Stays, Remains, IInv, Seen, SeenOK, Waiting
  <2>2. SeenOK(u)'
    BY <1>1, <1>2, <1>3, <1>5 DEF IInv, Seen, SeenOK, Waiting
  <2> QED BY <2>1, <2>2 DEF Seen
<1> QED
  BY <1>6, <1>7, <1>8, <1>9, <1>10, <1>11, <1>12, <1>13, <1>14 DEF IInv

\* sml_leave: the thread takes its context along.
LEMMA LeaveStep ==
    ASSUME IInv, NEW u \in Thread, sml_leave(u)
    PROVE  IInv'
<1> DEFINE w == on[u]
           c == cur[w]
<1>1. /\ at[u] = "ML" /\ Alive(u) /\ Self(u) = c /\ w \in Worker
      /\ act[w] = "none" /\ tlv[u] = Null
      /\ c \in Context /\ c \in users[w] /\ owner[c] = w /\ ~ctx[c].busy
      /\ ctx[c].thread = u /\ ctx[c].worker = w /\ ctx[c].stack = depth[u]
      /\ depth[u] \in 1 .. MaxDepth
      /\ \A v \in Worker : enum[v] # c
      /\ \A v \in Thread : tlv[v] # c
  BY RunningContext DEF sml_leave, Running, Inside
<1>2. /\ at' = [at EXCEPT ![u] = "C"]
      /\ on' = [on EXCEPT ![u] = Null]
      /\ tlv' = [tlv EXCEPT ![u] = c]
      /\ open' = [open EXCEPT ![u] = FALSE]
      /\ UNCHANGED <<depth, loc, ctx, owner, target, mark, users, cur, act,
                      todo, enum, phase, sig, unsent, owing, gc_count, seen>>
  BY DEF sml_leave, Goto, heap, worker, signal
<1>4. ASSUME NEW v \in Thread, v # u
      PROVE  Stays(v) /\ (Alive(v) => Self(v) # c /\ ctx'[Self(v)] = ctx[Self(v)])
  <2>1. /\ at'[v] = at[v] /\ on'[v] = on[v] /\ tlv'[v] = tlv[v]
        /\ depth'[v] = depth[v] /\ open'[v] = open[v] /\ loc'[v] = loc[v]
    BY <1>4, <1>2 DEF IInv, TypeOK
  <2>2. cur' = cur
    BY <1>2
  <2>3. Alive(v) => Self(v) # c /\ ctx'[Self(v)] = ctx[Self(v)]
    BY <1>4, <1>1, <1>2, OwnContext
  <2> QED BY <2>1, <2>2, <2>3, OtherThread
<1>5. /\ ~Inside(u)' /\ Alive(u)' /\ ~Entering(u)' /\ ~Moving(u)'
      /\ at'[u] = "C"
      /\ on'[u] = Null /\ tlv'[u] = c /\ loc'[u] = loc[u]
      /\ ~open'[u] /\ depth'[u] = depth[u] /\ Self(u)' = c
  BY <1>1, <1>2 DEF IInv, TypeOK, Self, Inside, Alive, Moving, Entering
<1>6. TypeOK'
  BY <1>1, <1>2 DEF IInv, TypeOK
<1>7. Signals'
  BY <1>2 DEF IInv, Signals
<1>8. Enumeration'
  BY <1>1, <1>2, NullAssumption DEF IInv, TypeOK, Enumeration
<1>9. Threads'
  <2>1. ASSUME NEW v \in Thread, v # u PROVE ThreadOK(v)'
    BY <2>1, <1>4, <1>1, <1>2, NullAssumption DEF Stays, Remains, IInv, Threads,
       ThreadOK
  <2>2. ThreadOK(u)'
    BY <1>5, <1>4, <1>2, <1>1, NullAssumption DEF Stays, Remains, IInv, Threads,
       ThreadOK, Inside, Entering, Moving
  <2> QED BY <2>1, <2>2 DEF Threads
<1>10. Places'
  <2>1. ASSUME NEW v \in Thread, v # u PROVE PlaceOK(v)'
    BY <2>1, <1>4, <1>2, OtherPlace
  <2>2. PlaceOK(u)'
    BY <1>1, <1>2, <1>5 DEF IInv, TypeOK, Places, PlaceOK
  <2> QED BY <2>1, <2>2 DEF Places
<1>11. Contexts'
  <2>1. ASSUME NEW v \in Worker, NEW d \in users'[v] PROVE ContextOK(v, d)'
    <3>1. d \in Context /\ ContextOK(v, d)
      BY <1>2 DEF IInv, TypeOK, Contexts
    <3>2. CASE d = c
      BY <3>1, <3>2, <1>1, <1>2, <1>5, NullAssumption DEF IInv, TypeOK,
         ContextOK,
         Held
    <3>3. CASE d # c
      <4>1. ctx[d].worker = v => ctx[d].thread # u
        BY <3>1, <3>3, <1>1 DEF ContextOK
      <4>2. Held(d) => Held(d)'
        BY <3>3, <1>4, <1>1, <1>2 DEF Held, Stays, Remains
      <4> QED
        BY <3>1, <3>3, <4>1, <4>2, <1>4, <1>2 DEF ContextOK, Stays, Remains
    <3> QED BY <3>2, <3>3
  <2>2. \A d \in Context : owner'[d] = Null => d \notin target'
    BY <1>2 DEF IInv, Contexts
  <2> QED BY <2>1, <2>2 DEF Contexts
<1>12. NewContexts'
  <2>1. ASSUME NEW v \in Thread, v # u PROVE NewOK(v)'
    BY <2>1, <1>4, <1>1, <1>2, NullAssumption DEF Stays, Remains, IInv, TypeOK,
       Threads, ThreadOK, NewContexts, NewOK
  <2>2. NewOK(u)'
    BY <1>1, <1>2, <1>5, NullAssumption DEF IInv, TypeOK, NewContexts, NewOK
  <2> QED BY <2>1, <2>2 DEF NewContexts
<1>13. Kept'
  BY <1>1, <1>2 DEF IInv, TypeOK, Kept
<1>14. Seen'
  <2>1. ASSUME NEW v \in Thread, v # u PROVE SeenOK(v)'
    BY <2>1, <1>4, <1>2 DEF Stays, Remains, IInv, Seen, SeenOK, Waiting
  <2>2. SeenOK(u)'
    BY <1>1, <1>2, <1>5 DEF IInv, Seen, SeenOK, Waiting
  <2> QED BY <2>1, <2>2 DEF Seen
<1> QED
  BY <1>6, <1>7, <1>8, <1>9, <1>10, <1>11, <1>12, <1>13, <1>14 DEF IInv

\* sml_save: the range is closed, and the thread stays on its worker.
LEMMA SaveStep ==
    ASSUME IInv, NEW u \in Thread, sml_save(u)
    PROVE  IInv'
<1> DEFINE w == on[u]
           c == cur[w]
<1>1. /\ at[u] = "ML" /\ Alive(u) /\ Self(u) = c /\ w \in Worker
      /\ act[w] = "none" /\ tlv[u] = Null
      /\ c \in Context /\ c \in users[w] /\ owner[c] = w /\ ~ctx[c].busy
      /\ ctx[c].thread = u /\ ctx[c].worker = w /\ ctx[c].stack = depth[u]
      /\ depth[u] \in 1 .. MaxDepth
      /\ \A v \in Worker : enum[v] # c
      /\ \A v \in Thread : tlv[v] # c
  BY RunningContext DEF sml_save, Running, Inside
<1>2. /\ at' = [at EXCEPT ![u] = "saved"]
      /\ open' = [open EXCEPT ![u] = FALSE]
      /\ UNCHANGED <<on, depth, tlv, loc, ctx, owner, target, mark, users,
                      cur, act, todo, enum, phase, sig, unsent, owing,
                      gc_count, seen>>
  BY DEF sml_save, Goto, heap, worker, signal
<1>4. ASSUME NEW v \in Thread, v # u
      PROVE  Stays(v) /\ (Alive(v) => Self(v) # c /\ ctx'[Self(v)] = ctx[Self(v)])
  <2>1. /\ at'[v] = at[v] /\ on'[v] = on[v] /\ tlv'[v] = tlv[v]
        /\ depth'[v] = depth[v] /\ open'[v] = open[v] /\ loc'[v] = loc[v]
    BY <1>4, <1>2 DEF IInv, TypeOK
  <2>2. cur' = cur
    BY <1>2
  <2>3. Alive(v) => Self(v) # c /\ ctx'[Self(v)] = ctx[Self(v)]
    BY <1>4, <1>1, <1>2, OwnContext
  <2> QED BY <2>1, <2>2, <2>3, OtherThread
<1>5. /\ Inside(u)' /\ Alive(u)' /\ ~Entering(u)' /\ ~Moving(u)'
      /\ at'[u] = "saved"
      /\ on'[u] = w /\ tlv'[u] = Null /\ loc'[u] = loc[u]
      /\ ~open'[u] /\ depth'[u] = depth[u] /\ Self(u)' = c
  BY <1>1, <1>2 DEF IInv, TypeOK, Self, Inside, Alive, Moving, Entering
<1>6. TypeOK'
  BY <1>1, <1>2 DEF IInv, TypeOK
<1>7. Signals'
  BY <1>2 DEF IInv, Signals
<1>8. Enumeration'
  BY <1>1, <1>2, NullAssumption DEF IInv, TypeOK, Enumeration
<1>9. Threads'
  <2>1. ASSUME NEW v \in Thread, v # u PROVE ThreadOK(v)'
    BY <2>1, <1>4, <1>1, <1>2, NullAssumption DEF Stays, Remains, IInv, Threads,
       ThreadOK
  <2>2. ThreadOK(u)'
    BY <1>5, <1>4, <1>2, <1>1, NullAssumption DEF Stays, Remains, IInv, Threads,
       ThreadOK, Inside, Entering, Moving
  <2> QED BY <2>1, <2>2 DEF Threads
<1>10. Places'
  <2>1. ASSUME NEW v \in Thread, v # u PROVE PlaceOK(v)'
    BY <2>1, <1>4, <1>2, OtherPlace
  <2>2. PlaceOK(u)'
    BY <1>1, <1>2, <1>5 DEF IInv, TypeOK, Places, PlaceOK
  <2> QED BY <2>1, <2>2 DEF Places
<1>11. Contexts'
  <2>1. ASSUME NEW v \in Worker, NEW d \in users'[v] PROVE ContextOK(v, d)'
    <3>1. d \in Context /\ ContextOK(v, d)
      BY <1>2 DEF IInv, TypeOK, Contexts
    <3>2. CASE d = c
      BY <3>1, <3>2, <1>1, <1>2, <1>5, NullAssumption DEF IInv, TypeOK,
         ContextOK,
         Held
    <3>3. CASE d # c
      <4>1. ctx[d].worker = v => ctx[d].thread # u
        BY <3>1, <3>3, <1>1 DEF ContextOK
      <4>2. Held(d) => Held(d)'
        BY <3>3, <1>4, <1>1, <1>2 DEF Held, Stays, Remains
      <4> QED
        BY <3>1, <3>3, <4>1, <4>2, <1>4, <1>2 DEF ContextOK, Stays, Remains
    <3> QED BY <3>2, <3>3
  <2>2. \A d \in Context : owner'[d] = Null => d \notin target'
    BY <1>2 DEF IInv, Contexts
  <2> QED BY <2>1, <2>2 DEF Contexts
<1>12. NewContexts'
  <2>1. ASSUME NEW v \in Thread, v # u PROVE NewOK(v)'
    BY <2>1, <1>4, <1>1, <1>2, NullAssumption DEF Stays, Remains, IInv, TypeOK,
       Threads, ThreadOK, NewContexts, NewOK
  <2>2. NewOK(u)'
    BY <1>1, <1>2, <1>5, NullAssumption DEF IInv, TypeOK, NewContexts, NewOK
  <2> QED BY <2>1, <2>2 DEF NewContexts
<1>13. Kept'
  BY <1>1, <1>2 DEF IInv, TypeOK, Kept
<1>14. Seen'
  <2>1. ASSUME NEW v \in Thread, v # u PROVE SeenOK(v)'
    BY <2>1, <1>4, <1>2 DEF Stays, Remains, IInv, Seen, SeenOK, Waiting
  <2>2. SeenOK(u)'
    BY <1>1, <1>2, <1>5 DEF IInv, Seen, SeenOK, Waiting
  <2> QED BY <2>1, <2>2 DEF Seen
<1> QED
  BY <1>6, <1>7, <1>8, <1>9, <1>10, <1>11, <1>12, <1>13, <1>14 DEF IInv

\* sml_unsave: the range is opened again.
LEMMA UnsaveStep ==
    ASSUME IInv, NEW u \in Thread, sml_unsave(u)
    PROVE  IInv'
<1> DEFINE w == on[u]
           c == cur[w]
<1>1. /\ at[u] = "saved" /\ Alive(u) /\ Self(u) = c /\ w \in Worker
      /\ act[w] = "none" /\ tlv[u] = Null
      /\ c \in Context /\ c \in users[w] /\ owner[c] = w /\ ~ctx[c].busy
      /\ ctx[c].thread = u /\ ctx[c].worker = w /\ ctx[c].stack = depth[u]
      /\ depth[u] \in 1 .. MaxDepth
      /\ \A v \in Worker : enum[v] # c
      /\ \A v \in Thread : tlv[v] # c
  BY RunningContext DEF sml_unsave, Inside
<1>2. /\ at' = [at EXCEPT ![u] = "ML"]
      /\ open' = [open EXCEPT ![u] = TRUE]
      /\ UNCHANGED <<on, depth, tlv, loc, ctx, owner, target, mark, users,
                      cur, act, todo, enum, phase, sig, unsent, owing,
                      gc_count, seen>>
  BY DEF sml_unsave, Goto, heap, worker, signal
<1>4. ASSUME NEW v \in Thread, v # u
      PROVE  Stays(v) /\ (Alive(v) => Self(v) # c /\ ctx'[Self(v)] = ctx[Self(v)])
  <2>1. /\ at'[v] = at[v] /\ on'[v] = on[v] /\ tlv'[v] = tlv[v]
        /\ depth'[v] = depth[v] /\ open'[v] = open[v] /\ loc'[v] = loc[v]
    BY <1>4, <1>2 DEF IInv, TypeOK
  <2>2. cur' = cur
    BY <1>2
  <2>3. Alive(v) => Self(v) # c /\ ctx'[Self(v)] = ctx[Self(v)]
    BY <1>4, <1>1, <1>2, OwnContext
  <2> QED BY <2>1, <2>2, <2>3, OtherThread
<1>5. /\ Inside(u)' /\ Alive(u)' /\ ~Entering(u)' /\ ~Moving(u)'
      /\ at'[u] = "ML"
      /\ on'[u] = w /\ tlv'[u] = Null /\ loc'[u] = loc[u]
      /\ open'[u] /\ depth'[u] = depth[u] /\ Self(u)' = c
  BY <1>1, <1>2 DEF IInv, TypeOK, Self, Inside, Alive, Moving, Entering
<1>6. TypeOK'
  BY <1>1, <1>2 DEF IInv, TypeOK
<1>7. Signals'
  BY <1>2 DEF IInv, Signals
<1>8. Enumeration'
  BY <1>1, <1>2, NullAssumption DEF IInv, TypeOK, Enumeration
<1>9. Threads'
  <2>1. ASSUME NEW v \in Thread, v # u PROVE ThreadOK(v)'
    BY <2>1, <1>4, <1>1, <1>2, NullAssumption DEF Stays, Remains, IInv, Threads,
       ThreadOK
  <2>2. ThreadOK(u)'
    BY <1>5, <1>4, <1>2, <1>1, NullAssumption DEF Stays, Remains, IInv, Threads,
       ThreadOK, Inside, Entering, Moving
  <2> QED BY <2>1, <2>2 DEF Threads
<1>10. Places'
  <2>1. ASSUME NEW v \in Thread, v # u PROVE PlaceOK(v)'
    BY <2>1, <1>4, <1>2, OtherPlace
  <2>2. PlaceOK(u)'
    BY <1>1, <1>2, <1>5 DEF IInv, TypeOK, Places, PlaceOK
  <2> QED BY <2>1, <2>2 DEF Places
<1>11. Contexts'
  <2>1. ASSUME NEW v \in Worker, NEW d \in users'[v] PROVE ContextOK(v, d)'
    <3>1. d \in Context /\ ContextOK(v, d)
      BY <1>2 DEF IInv, TypeOK, Contexts
    <3>2. CASE d = c
      BY <3>1, <3>2, <1>1, <1>2, <1>5, NullAssumption DEF IInv, TypeOK,
         ContextOK,
         Held
    <3>3. CASE d # c
      <4>1. ctx[d].worker = v => ctx[d].thread # u
        BY <3>1, <3>3, <1>1 DEF ContextOK
      <4>2. Held(d) => Held(d)'
        BY <3>3, <1>4, <1>1, <1>2 DEF Held, Stays, Remains
      <4> QED
        BY <3>1, <3>3, <4>1, <4>2, <1>4, <1>2 DEF ContextOK, Stays, Remains
    <3> QED BY <3>2, <3>3
  <2>2. \A d \in Context : owner'[d] = Null => d \notin target'
    BY <1>2 DEF IInv, Contexts
  <2> QED BY <2>1, <2>2 DEF Contexts
<1>12. NewContexts'
  <2>1. ASSUME NEW v \in Thread, v # u PROVE NewOK(v)'
    BY <2>1, <1>4, <1>1, <1>2, NullAssumption DEF Stays, Remains, IInv, TypeOK,
       Threads, ThreadOK, NewContexts, NewOK
  <2>2. NewOK(u)'
    BY <1>1, <1>2, <1>5, NullAssumption DEF IInv, TypeOK, NewContexts, NewOK
  <2> QED BY <2>1, <2>2 DEF NewContexts
<1>13. Kept'
  BY <1>1, <1>2 DEF IInv, TypeOK, Kept
<1>14. Seen'
  <2>1. ASSUME NEW v \in Thread, v # u PROVE SeenOK(v)'
    BY <2>1, <1>4, <1>2 DEF Stays, Remains, IInv, Seen, SeenOK, Waiting
  <2>2. SeenOK(u)'
    BY <1>1, <1>2, <1>5 DEF IInv, Seen, SeenOK, Waiting
  <2> QED BY <2>1, <2>2 DEF Seen
<1> QED
  BY <1>6, <1>7, <1>8, <1>9, <1>10, <1>11, <1>12, <1>13, <1>14 DEF IInv

\* sml_enter of a thread that has not been stolen.
LEMMA EnterSameStep ==
    ASSUME IInv, NEW u \in Thread, NEW w \in Worker, sml_enter_same(u, w)
    PROVE  IInv'
<1> DEFINE c == tlv[u]
<1>1. /\ at[u] = "C" /\ Alive(u) /\ ~Inside(u)
      /\ Self(u) = c /\ c \in Context /\ owner[c] # Null
      /\ ctx[c].thread = u /\ ctx[c].worker \in Worker
      /\ ctx[c].stack = depth[u] /\ depth[u] \in 1 .. MaxDepth
      /\ \A v \in Thread : tlv[v] = c => v = u
      /\ \A v \in Thread : loc[v].new # c
      /\ act[w] = "none" /\ on[u] = Null /\ \A v \in Thread : on[v] # w
      /\ ctx[c].worker = w /\ c \in users[w] /\ owner[c] = w /\ ~ctx[c].busy
      /\ \A v \in Worker : enum[v] # c
  <2>1. /\ at[u] = "C" /\ Alive(u) /\ ~Inside(u) /\ on[u] = Null
        /\ act[w] = "none" /\ \A v \in Thread : on[v] # w
    BY DEF sml_enter_same, Unlocked, Alive, Inside, IInv, Threads, ThreadOK
  <2>2. /\ Self(u) = c /\ c \in Context /\ owner[c] # Null
        /\ ctx[c].thread = u /\ ctx[c].worker \in Worker
        /\ ctx[c].stack = depth[u] /\ depth[u] \in 1 .. MaxDepth
        /\ \A v \in Thread : tlv[v] = c => v = u
        /\ \A v \in Thread : loc[v].new # c
    BY <2>1, OutsideContext
  <2>3. ctx[c].worker = w /\ c \in users[w] /\ owner[c] = w
    BY <2>1, <2>2 DEF sml_enter_same, IInv, Places, PlaceOK, Contexts, ContextOK
  <2>4. \A v \in Worker : enum[v] # c
    BY <2>1, <2>2, <2>3, NullAssumption DEF IInv, Enumeration
  <2>5. ~ctx[c].busy
    BY <2>1, <2>2, <2>3, <2>4 DEF IInv, Contexts, ContextOK, Held
  <2> QED BY <2>1, <2>2, <2>3, <2>4, <2>5
<1>2. /\ at' = [at EXCEPT ![u] = "ML"]
      /\ on' = [on EXCEPT ![u] = w]
      /\ tlv' = [tlv EXCEPT ![u] = Null]
      /\ cur' = [cur EXCEPT ![w] = c]
      /\ open' = [open EXCEPT ![u] = TRUE]
      /\ seen' = SeenOn(u, w)
      /\ UNCHANGED <<depth, loc, ctx, owner, target, mark, users, act, todo,
                      enum, phase, sig, unsent, owing, gc_count>>
  BY DEF sml_enter_same, Goto, heap, signal
<1>4. ASSUME NEW v \in Thread, v # u
      PROVE  Stays(v) /\ (Alive(v) => Self(v) # c /\ ctx'[Self(v)] = ctx[Self(v)])
  <2>1. /\ at'[v] = at[v] /\ on'[v] = on[v] /\ tlv'[v] = tlv[v]
        /\ depth'[v] = depth[v] /\ open'[v] = open[v] /\ loc'[v] = loc[v]
    BY <1>4, <1>2 DEF IInv, TypeOK
  <2>2. Inside(v) => cur'[on[v]] = cur[on[v]]
    BY <1>4, <1>1, <1>2, NullAssumption DEF IInv, TypeOK, Threads, ThreadOK
  <2>3. Alive(v) => Self(v) # c /\ ctx'[Self(v)] = ctx[Self(v)]
    BY <1>4, <1>1, <1>2, OwnContext
  <2> QED BY <2>1, <2>2, <2>3, OtherThread
<1>5. /\ Inside(u)' /\ Alive(u)' /\ ~Entering(u)' /\ ~Moving(u)'
      /\ at'[u] = "ML"
      /\ on'[u] = w /\ tlv'[u] = Null /\ loc'[u] = loc[u]
      /\ open'[u] /\ depth'[u] = depth[u] /\ Self(u)' = c
  BY <1>1, <1>2 DEF IInv, TypeOK, Self, Inside, Alive, Moving, Entering
<1>6. TypeOK'
  BY <1>1, <1>2 DEF IInv, TypeOK, SeenOn
<1>7. Signals'
  BY <1>2 DEF IInv, Signals
<1>8. Enumeration'
  BY <1>1, <1>2, NullAssumption DEF IInv, TypeOK, Enumeration
<1>9. Threads'
  <2>1. ASSUME NEW v \in Thread, v # u PROVE ThreadOK(v)'
    BY <2>1, <1>4, <1>1, <1>2, NullAssumption DEF Stays, Remains, IInv, Threads,
       ThreadOK
  <2>2. ThreadOK(u)'
    BY <1>5, <1>4, <1>2, <1>1, NullAssumption DEF Stays, Remains, IInv, Threads,
       ThreadOK, Inside, Entering, Moving
  <2> QED BY <2>1, <2>2 DEF Threads
<1>10. Places'
  <2>1. ASSUME NEW v \in Thread, v # u PROVE PlaceOK(v)'
    BY <2>1, <1>4, <1>2, OtherPlace
  <2>2. PlaceOK(u)'
    BY <1>1, <1>2, <1>5 DEF IInv, TypeOK, Places, PlaceOK
  <2> QED BY <2>1, <2>2 DEF Places
<1>11. Contexts'
  <2>1. ASSUME NEW v \in Worker, NEW d \in users'[v] PROVE ContextOK(v, d)'
    <3>1. d \in Context /\ ContextOK(v, d)
      BY <1>2 DEF IInv, TypeOK, Contexts
    <3>2. CASE d = c
      BY <3>1, <3>2, <1>1, <1>2, <1>5, NullAssumption DEF IInv, TypeOK,
         ContextOK,
         Held
    <3>3. CASE d # c
      <4>1. ctx[d].worker = v => ctx[d].thread # u
        BY <3>1, <3>3, <1>1 DEF ContextOK
      <4>2. Held(d) => Held(d)'
        BY <3>3, <1>4, <1>1, <1>2 DEF Held, Stays, Remains
      <4> QED
        BY <3>1, <3>3, <4>1, <4>2, <1>4, <1>2 DEF ContextOK, Stays, Remains
    <3> QED BY <3>2, <3>3
  <2>2. \A d \in Context : owner'[d] = Null => d \notin target'
    BY <1>2 DEF IInv, Contexts
  <2> QED BY <2>1, <2>2 DEF Contexts
<1>12. NewContexts'
  <2>1. ASSUME NEW v \in Thread, v # u PROVE NewOK(v)'
    BY <2>1, <1>4, <1>1, <1>2, NullAssumption DEF Stays, Remains, IInv, TypeOK,
       Threads, ThreadOK, NewContexts, NewOK
  <2>2. NewOK(u)'
    BY <1>1, <1>2, <1>5, NullAssumption DEF IInv, TypeOK, NewContexts, NewOK
  <2> QED BY <2>1, <2>2 DEF NewContexts
<1>13. Kept'
  BY <1>1, <1>2 DEF IInv, TypeOK, Kept
<1>14. Seen'
  <2>1. ASSUME NEW v \in Thread, v # u PROVE SeenOK(v)'
    BY <2>1, <1>4, <1>2 DEF Stays, Remains, IInv, Seen, SeenOK, Waiting, SeenOn
  <2>2. SeenOK(u)'
    <3>1. phase[w] \in {SYNC1, PRESYNC2, SYNC2} \/ sig # PRESYNC2
      BY <1>1 DEF IInv, Signals, Before, PREASYNC, SYNC1, PRESYNC2, SYNC2
    <3>2. phase[w] \in {SYNC2, PREMARK, MARK} \/ sig # PREMARK
      BY <1>1 DEF IInv, Signals, Before, PREASYNC, SYNC2, PREMARK, MARK
    <3> QED
      BY <3>1, <3>2, <1>1, <1>2, <1>5 DEF SeenOn, SeenOK, Waiting, SYNC1,
         PRESYNC2, SYNC2, PREMARK, MARK
  <2> QED BY <2>1, <2>2 DEF Seen
<1> QED
  BY <1>6, <1>7, <1>8, <1>9, <1>10, <1>11, <1>12, <1>13, <1>14 DEF IInv

\* sml_start of a callback by a thread that has not been stolen.
LEMMA CallbackStep ==
    ASSUME IInv, ~StolenCallback, NEW u \in Thread, NEW w \in Worker, sml_start_callback(u, w)
    PROVE  IInv'
<1> DEFINE c == tlv[u]
<1>1. /\ at[u] = "C" /\ depth[u] < MaxDepth /\ Alive(u) /\ ~Inside(u)
      /\ Self(u) = c /\ c \in Context /\ owner[c] # Null
      /\ ctx[c].thread = u /\ ctx[c].worker \in Worker
      /\ ctx[c].stack = depth[u] /\ depth[u] \in 1 .. MaxDepth
      /\ \A v \in Thread : tlv[v] = c => v = u
      /\ \A v \in Thread : loc[v].new # c
      /\ act[w] = "none" /\ on[u] = Null /\ \A v \in Thread : on[v] # w
      /\ ctx[c].worker = w /\ c \in users[w] /\ owner[c] = w /\ ~ctx[c].busy
      /\ \A v \in Worker : enum[v] # c
  <2>1. /\ at[u] = "C" /\ depth[u] < MaxDepth /\ Alive(u) /\ ~Inside(u) /\ on[u] = Null
        /\ act[w] = "none" /\ \A v \in Thread : on[v] # w
    BY DEF sml_start_callback, Unlocked, Alive, Inside, IInv, Threads, ThreadOK
  <2>2. /\ Self(u) = c /\ c \in Context /\ owner[c] # Null
        /\ ctx[c].thread = u /\ ctx[c].worker \in Worker
        /\ ctx[c].stack = depth[u] /\ depth[u] \in 1 .. MaxDepth
        /\ \A v \in Thread : tlv[v] = c => v = u
        /\ \A v \in Thread : loc[v].new # c
    BY <2>1, OutsideContext
  <2>3. ctx[c].worker = w /\ c \in users[w] /\ owner[c] = w
    BY <2>1, <2>2 DEF sml_start_callback, IInv, Places, PlaceOK, Contexts,
       ContextOK
  <2>4. \A v \in Worker : enum[v] # c
    BY <2>1, <2>2, <2>3, NullAssumption DEF IInv, Enumeration
  <2>5. ~ctx[c].busy
    BY <2>1, <2>2, <2>3, <2>4 DEF IInv, Contexts, ContextOK, Held
  <2> QED BY <2>1, <2>2, <2>3, <2>4, <2>5
<1>2. /\ at' = [at EXCEPT ![u] = "ML"]
      /\ on' = [on EXCEPT ![u] = w]
      /\ tlv' = [tlv EXCEPT ![u] = Null]
      /\ cur' = [cur EXCEPT ![w] = c]
      /\ open' = [open EXCEPT ![u] = TRUE]
      /\ depth' = [depth EXCEPT ![u] = @ + 1]
      /\ seen' = SeenOn(u, w)
      /\ UNCHANGED <<loc, owner, target, mark, users, act, todo, enum, phase,
                      sig, unsent, owing, gc_count>>
  BY DEF sml_start_callback, Goto, signal
<1>3. /\ ctx' \in [Context -> User]
      /\ \A d \in Context : d # c => ctx'[d] = ctx[d]
      /\ ctx'[c].stack = depth[u] + 1 /\ ctx'[c].thread = u /\ ~ctx'[c].busy
      /\ ctx'[c].worker = w
  <2>1. ctx' = [ctx EXCEPT ![c].stack = @ + 1]
    BY DEF sml_start_callback
  <2>2. ctx[c].stack + 1 \in 0 .. MaxDepth
    BY <1>1, BoundAssumption
  <2>3. ctx \in [Context -> User]
    BY DEF IInv, TypeOK, User
  <2> QED BY <2>1, <2>2, <2>3, <1>1 DEF User
<1>4. ASSUME NEW v \in Thread, v # u
      PROVE  Stays(v) /\ (Alive(v) => Self(v) # c /\ ctx'[Self(v)] = ctx[Self(v)])
  <2>1. /\ at'[v] = at[v] /\ on'[v] = on[v] /\ tlv'[v] = tlv[v]
        /\ depth'[v] = depth[v] /\ open'[v] = open[v] /\ loc'[v] = loc[v]
    BY <1>4, <1>2 DEF IInv, TypeOK
  <2>2. Inside(v) => cur'[on[v]] = cur[on[v]]
    BY <1>4, <1>1, <1>2, NullAssumption DEF IInv, TypeOK, Threads, ThreadOK
  <2>3. Alive(v) => Self(v) # c /\ ctx'[Self(v)] = ctx[Self(v)]
    BY <1>4, <1>1, <1>2, <1>3, OwnContext
  <2> QED BY <2>1, <2>2, <2>3, OtherThread
<1>5. /\ Inside(u)' /\ Alive(u)' /\ ~Entering(u)' /\ ~Moving(u)'
      /\ at'[u] = "ML"
      /\ on'[u] = w /\ tlv'[u] = Null /\ loc'[u] = loc[u]
      /\ open'[u] /\ depth'[u] = depth[u] + 1 /\ Self(u)' = c
  BY <1>1, <1>2, <1>3 DEF IInv, TypeOK, Self, Inside, Alive, Moving, Entering
<1>6. TypeOK'
  <2>1. depth' \in [Thread -> 0 .. MaxDepth]
    BY <1>1, <1>2, BoundAssumption DEF IInv, TypeOK
  <2>2. seen' \subseteq Thread
    BY <1>2 DEF IInv, TypeOK, SeenOn
  <2> QED BY <2>1, <2>2, <1>1, <1>2, <1>3 DEF IInv, TypeOK, User
<1>7. Signals'
  BY <1>2 DEF IInv, Signals
<1>8. Enumeration'
  BY <1>1, <1>2, <1>3, NullAssumption DEF IInv, TypeOK, Enumeration
<1>9. Threads'
  <2>1. ASSUME NEW v \in Thread, v # u PROVE ThreadOK(v)'
    BY <2>1, <1>4, <1>1, <1>2, <1>3, NullAssumption DEF Stays, Remains, IInv,
       Threads, ThreadOK
  <2>2. ThreadOK(u)'
    BY <1>5, <1>4, <1>2, <1>1, NullAssumption DEF Stays, Remains, IInv, Threads,
       ThreadOK, Inside, Entering, Moving
  <2> QED BY <2>1, <2>2 DEF Threads
<1>10. Places'
  <2>1. ASSUME NEW v \in Thread, v # u PROVE PlaceOK(v)'
    BY <2>1, <1>4, <1>2, OtherPlace
  <2>2. PlaceOK(u)'
    BY <1>1, <1>2, <1>3, <1>5 DEF IInv, TypeOK, Places, PlaceOK
  <2> QED BY <2>1, <2>2 DEF Places
<1>11. Contexts'
  <2>1. ASSUME NEW v \in Worker, NEW d \in users'[v] PROVE ContextOK(v, d)'
    <3>1. d \in Context /\ ContextOK(v, d)
      BY <1>2 DEF IInv, TypeOK, Contexts
    <3>2. CASE d = c
      BY <3>1, <3>2, <1>1, <1>2, <1>3, <1>5, NullAssumption DEF IInv, TypeOK,
         ContextOK, Held
    <3>3. CASE d # c
      <4>1. ctx[d].worker = v => ctx[d].thread # u
        BY <3>1, <3>3, <1>1 DEF ContextOK
      <4>2. Held(d) => Held(d)'
        BY <3>3, <1>4, <1>1, <1>2, <1>3 DEF Held, Stays, Remains
      <4> QED
        BY <3>1, <3>3, <4>1, <4>2, <1>4, <1>2, <1>3 DEF ContextOK, Stays,
           Remains
    <3> QED BY <3>2, <3>3
  <2>2. \A d \in Context : owner'[d] = Null => d \notin target'
    BY <1>2 DEF IInv, Contexts
  <2> QED BY <2>1, <2>2 DEF Contexts
<1>12. NewContexts'
  <2>1. ASSUME NEW v \in Thread, v # u PROVE NewOK(v)'
    BY <2>1, <1>4, <1>1, <1>2, <1>3, NullAssumption DEF Stays, Remains, IInv,
       TypeOK, Threads, ThreadOK, NewContexts, NewOK
  <2>2. NewOK(u)'
    BY <1>1, <1>2, <1>3, <1>5, NullAssumption DEF IInv, TypeOK, NewContexts,
       NewOK
  <2> QED BY <2>1, <2>2 DEF NewContexts
<1>13. Kept'
  BY <1>1, <1>2, <1>3 DEF IInv, TypeOK, Kept
<1>14. Seen'
  <2>1. ASSUME NEW v \in Thread, v # u PROVE SeenOK(v)'
    BY <2>1, <1>4, <1>2 DEF Stays, Remains, IInv, Seen, SeenOK, Waiting, SeenOn
  <2>2. SeenOK(u)'
    <3>1. phase[w] \in {SYNC1, PRESYNC2, SYNC2} \/ sig # PRESYNC2
      BY <1>1 DEF IInv, Signals, Before, PREASYNC, SYNC1, PRESYNC2, SYNC2
    <3>2. phase[w] \in {SYNC2, PREMARK, MARK} \/ sig # PREMARK
      BY <1>1 DEF IInv, Signals, Before, PREASYNC, SYNC2, PREMARK, MARK
    <3> QED
      BY <3>1, <3>2, <1>1, <1>2, <1>3, <1>5 DEF SeenOn, SeenOK, Waiting, SYNC1,
         PRESYNC2, SYNC2, PREMARK, MARK
  <2> QED BY <2>1, <2>2 DEF Seen
<1> QED
  BY <1>6, <1>7, <1>8, <1>9, <1>10, <1>11, <1>12, <1>13, <1>14 DEF IInv

\* cancel_user gets the BUSY_FLAG of the context.
LEMMA CancelStep ==
    ASSUME IInv, NEW u \in Thread, cancel_user(u)
    PROVE  IInv'
<1> DEFINE c == tlv[u]
<1>1. /\ at[u] = "C" /\ Alive(u) /\ ~Inside(u)
      /\ Self(u) = c /\ c \in Context /\ owner[c] # Null
      /\ ctx[c].thread = u /\ ctx[c].worker \in Worker
      /\ ctx[c].stack = depth[u] /\ depth[u] \in 1 .. MaxDepth
      /\ \A v \in Thread : tlv[v] = c => v = u
      /\ \A v \in Thread : loc[v].new # c
      /\ ~ctx[c].busy /\ \A v \in Worker : enum[v] # c
  <2>1. at[u] = "C" /\ Alive(u) /\ ~Inside(u) /\ ~ctx[c].busy
    BY DEF cancel_user, MayCancel, Alive, Inside
  <2>2. c \in Context
    BY <2>1, OutsideContext
  <2>3. \A v \in Worker : enum[v] # c
    BY <2>1, <2>2, NullAssumption DEF IInv, Enumeration
  <2> QED BY <2>1, <2>3, OutsideContext
<1>2. /\ at' = [at EXCEPT ![u] = "cancel"]
      /\ UNCHANGED <<on, depth, open, tlv, loc, owner, target, mark, users,
                      cur, act, todo, enum, phase, sig, unsent, owing,
                      gc_count, seen>>
  BY DEF cancel_user, Goto, worker, signal
<1>3. /\ ctx' \in [Context -> User]
      /\ \A d \in Context : d # c => ctx'[d] = ctx[d]
      /\ ctx'[c].stack = ctx[c].stack /\ ctx'[c].thread = u /\ ctx'[c].busy
      /\ ctx'[c].worker = ctx[c].worker
  <2>1. ctx' = [ctx EXCEPT ![c].busy = TRUE]
    BY DEF cancel_user
  <2>3. ctx \in [Context -> User]
    BY DEF IInv, TypeOK, User
  <2> QED BY <2>1, <2>3, <1>1 DEF User
<1>4. ASSUME NEW v \in Thread, v # u
      PROVE  Stays(v) /\ (Alive(v) => Self(v) # c /\ ctx'[Self(v)] = ctx[Self(v)])
  <2>1. /\ at'[v] = at[v] /\ on'[v] = on[v] /\ tlv'[v] = tlv[v]
        /\ depth'[v] = depth[v] /\ open'[v] = open[v] /\ loc'[v] = loc[v]
    BY <1>4, <1>2 DEF IInv, TypeOK
  <2>2. cur' = cur
    BY <1>2
  <2>3. Alive(v) => Self(v) # c /\ ctx'[Self(v)] = ctx[Self(v)]
    BY <1>4, <1>1, <1>2, <1>3, OwnContext
  <2> QED BY <2>1, <2>2, <2>3, OtherThread
<1>5. /\ ~Inside(u)' /\ Alive(u)' /\ ~Entering(u)' /\ ~Moving(u)'
      /\ at'[u] = "cancel"
      /\ on'[u] = on[u] /\ tlv'[u] = c /\ loc'[u] = loc[u]
      /\ open'[u] = open[u] /\ depth'[u] = depth[u] /\ Self(u)' = c
  BY <1>1, <1>2, <1>3 DEF IInv, TypeOK, Self, Inside, Alive, Moving, Entering
<1>6. TypeOK'
  BY <1>1, <1>2, <1>3 DEF IInv, TypeOK, User
<1>7. Signals'
  BY <1>2 DEF IInv, Signals
<1>8. Enumeration'
  BY <1>1, <1>2, <1>3, NullAssumption DEF IInv, TypeOK, Enumeration
<1>9. Threads'
  <2>1. ASSUME NEW v \in Thread, v # u PROVE ThreadOK(v)'
    BY <2>1, <1>4, <1>1, <1>2, <1>3, NullAssumption DEF Stays, Remains, IInv,
       Threads, ThreadOK
  <2>2. ThreadOK(u)'
    BY <1>5, <1>4, <1>2, <1>1, NullAssumption DEF Stays, Remains, IInv, Threads,
       ThreadOK, Inside, Entering, Moving
  <2> QED BY <2>1, <2>2 DEF Threads
<1>10. Places'
  <2>1. ASSUME NEW v \in Thread, v # u PROVE PlaceOK(v)'
    BY <2>1, <1>4, <1>2, OtherPlace
  <2>2. PlaceOK(u)'
    BY <1>1, <1>2, <1>3, <1>5 DEF IInv, TypeOK, Places, PlaceOK
  <2> QED BY <2>1, <2>2 DEF Places
<1>11. Contexts'
  <2>1. ASSUME NEW v \in Worker, NEW d \in users'[v] PROVE ContextOK(v, d)'
    <3>1. d \in Context /\ ContextOK(v, d)
      BY <1>2 DEF IInv, TypeOK, Contexts
    <3>2. CASE d = c
      BY <3>1, <3>2, <1>1, <1>2, <1>3, <1>5, NullAssumption DEF IInv, TypeOK,
         ContextOK, Held
    <3>3. CASE d # c
      <4>1. ctx[d].worker = v => ctx[d].thread # u
        BY <3>1, <3>3, <1>1 DEF ContextOK
      <4>2. Held(d) => Held(d)'
        BY <3>3, <1>4, <1>1, <1>2, <1>3 DEF Held, Stays, Remains
      <4> QED
        BY <3>1, <3>3, <4>1, <4>2, <1>4, <1>2, <1>3 DEF ContextOK, Stays,
           Remains
    <3> QED BY <3>2, <3>3
  <2>2. \A d \in Context : owner'[d] = Null => d \notin target'
    BY <1>2 DEF IInv, Contexts
  <2> QED BY <2>1, <2>2 DEF Contexts
<1>12. NewContexts'
  <2>1. ASSUME NEW v \in Thread, v # u PROVE NewOK(v)'
    BY <2>1, <1>4, <1>1, <1>2, <1>3, NullAssumption DEF Stays, Remains, IInv,
       TypeOK, Threads, ThreadOK, NewContexts, NewOK
  <2>2. NewOK(u)'
    BY <1>1, <1>2, <1>3, <1>5, NullAssumption DEF IInv, TypeOK, NewContexts,
       NewOK
  <2> QED BY <2>1, <2>2 DEF NewContexts
<1>13. Kept'
  BY <1>1, <1>2, <1>3 DEF IInv, TypeOK, Kept
<1>14. Seen'
  <2>1. ASSUME NEW v \in Thread, v # u PROVE SeenOK(v)'
    BY <2>1, <1>4, <1>2 DEF Stays, Remains, IInv, Seen, SeenOK, Waiting
  <2>2. SeenOK(u)'
    BY <1>1, <1>2, <1>3, <1>5 DEF IInv, Seen, SeenOK, Waiting, Moving
  <2> QED BY <2>1, <2>2 DEF Seen
<1> QED
  BY <1>6, <1>7, <1>8, <1>9, <1>10, <1>11, <1>12, <1>13, <1>14 DEF IInv

\* The first acquire_bit of sml_enter_internal.
LEMMA LockStep ==
    ASSUME IInv, NEW u \in Thread, enter_lock(u)
    PROVE  IInv'
<1> DEFINE w == on[u]
           c == tlv[u]
<1>1. /\ at[u] = "lock" /\ Alive(u) /\ ~Inside(u)
      /\ Self(u) = c /\ c \in Context /\ owner[c] # Null
      /\ ctx[c].thread = u /\ ctx[c].worker \in Worker
      /\ ctx[c].stack = depth[u] /\ depth[u] \in 1 .. MaxDepth
      /\ \A v \in Thread : tlv[v] = c => v = u
      /\ \A v \in Thread : loc[v].new # c
      /\ Moving(u) /\ Entering(u) /\ w \in Worker
      /\ ctx[c].worker # w /\ c \in users[ctx[c].worker] /\ owner[c] = ctx[c].worker
      /\ \A v \in Worker : c \in users[v] => v = ctx[c].worker
  <2>1. /\ at[u] = "lock" /\ Alive(u) /\ ~Inside(u) /\ Moving(u) /\ Entering(u)
        /\ w \in Worker /\ ctx[c].worker # w
    BY DEF enter_lock, Alive, Inside, Moving, Entering, IInv, Threads, ThreadOK,
       Places, PlaceOK
  <2>2. /\ c \in users[ctx[c].worker] /\ owner[c] = ctx[c].worker
        /\ \A v \in Worker : c \in users[v] => v = ctx[c].worker
    BY <2>1, OutsideContext DEF enter_lock, IInv, Places, PlaceOK, Contexts,
       ContextOK
  <2> QED BY <2>1, <2>2, OutsideContext
<1>2. /\ at' = [at EXCEPT ![u] = IF ctx[c].busy THEN "spin" ELSE AfterLock(loc[u].phase)]
      /\ UNCHANGED <<on, depth, open, tlv, loc, owner, target, mark, users,
                      cur, act, todo, enum, phase, sig, unsent, owing,
                      gc_count, seen>>
  BY DEF enter_lock, Goto, worker, signal
<1>3. /\ ctx' \in [Context -> User]
      /\ \A d \in Context : d # c => ctx'[d] = ctx[d]
      /\ ctx'[c].stack = ctx[c].stack /\ ctx'[c].thread = u /\ ctx'[c].busy
      /\ ctx'[c].worker = ctx[c].worker
  <2>1. ctx \in [Context -> User]
    BY DEF IInv, TypeOK, User
  <2>2. CASE ctx[c].busy
    BY <2>1, <2>2, <1>1 DEF enter_lock
  <2>3. CASE ~ctx[c].busy
    <3>1. ctx' = [ctx EXCEPT ![c].busy = TRUE]
      BY <2>3 DEF enter_lock
    <3> QED BY <2>1, <3>1, <1>1 DEF User
  <2> QED BY <2>2, <2>3
<1>4. ASSUME NEW v \in Thread, v # u
      PROVE  Stays(v) /\ (Alive(v) => Self(v) # c /\ ctx'[Self(v)] = ctx[Self(v)])
  <2>1. /\ at'[v] = at[v] /\ on'[v] = on[v] /\ tlv'[v] = tlv[v]
        /\ depth'[v] = depth[v] /\ open'[v] = open[v] /\ loc'[v] = loc[v]
    BY <1>4, <1>2 DEF IInv, TypeOK
  <2>2. cur' = cur
    BY <1>2
  <2>3. Alive(v) => Self(v) # c /\ ctx'[Self(v)] = ctx[Self(v)]
    BY <1>4, <1>1, <1>2, <1>3, OwnContext
  <2> QED BY <2>1, <2>2, <2>3, OtherThread
<1>5. /\ ~Inside(u)' /\ Alive(u)' /\ Entering(u)' /\ Moving(u)'
      /\ at'[u] = IF ctx[c].busy THEN "spin" ELSE AfterLock(loc[u].phase)
      /\ on'[u] = on[u] /\ tlv'[u] = c /\ loc'[u] = loc[u]
      /\ open'[u] = open[u] /\ depth'[u] = depth[u] /\ Self(u)' = c
  BY <1>1, <1>2 DEF IInv, TypeOK, Self, Inside, Alive, Moving, Entering,
     AfterLock
<1>6. TypeOK'
  BY <1>1, <1>2, <1>3 DEF IInv, TypeOK, User, AfterLock
<1>7. Signals'
  BY <1>2 DEF IInv, Signals
<1>8. Enumeration'
  <2>1. ASSUME NEW v \in Worker, enum[v] # Null
        PROVE  ctx'[enum[v]].busy /\ ctx'[enum[v]].worker = ctx[enum[v]].worker
    BY <2>1, <1>1, <1>3, ZenonT(40) DEF IInv, TypeOK, Enumeration
  <2> QED BY <2>1, <1>2 DEF IInv, Enumeration
<1>9. Threads'
  <2>1. ASSUME NEW v \in Thread, v # u PROVE ThreadOK(v)'
    BY <2>1, <1>4, <1>1, <1>2, <1>3, NullAssumption DEF Stays, Remains, IInv,
       Threads, ThreadOK
  <2>2. ThreadOK(u)'
    BY <1>5, <1>4, <1>2, <1>1, NullAssumption DEF Stays, Remains, IInv, Threads,
       ThreadOK, Inside, Entering, Moving
  <2> QED BY <2>1, <2>2 DEF Threads
<1>10. Places'
  <2>1. ASSUME NEW v \in Thread, v # u PROVE PlaceOK(v)'
    BY <2>1, <1>4, <1>2, OtherPlace
  <2>2. PlaceOK(u)'
    <3>1. ~ctx[c].busy => \A v \in Worker : enum[v] # c
      BY <1>1, NullAssumption DEF IInv, Enumeration
    <3> QED BY <3>1, <1>1, <1>2, <1>3, <1>5 DEF IInv, Places, PlaceOK, Moving,
       AfterLock
  <2> QED BY <2>1, <2>2 DEF Places
<1>11. Contexts'
  <2>1. ASSUME NEW v \in Worker, NEW d \in users'[v] PROVE ContextOK(v, d)'
    <3>1. d \in Context /\ ContextOK(v, d)
      BY <1>2 DEF IInv, TypeOK, Contexts
    <3>2. CASE d = c
      <4>1. Held(c)'
        <5>1. CASE ctx[c].busy
          BY <5>1, <1>1, <1>2 DEF IInv, Contexts, ContextOK, Held
        <5>2. CASE ~ctx[c].busy
          BY <5>2, <1>1, <1>5 DEF Held, AfterLock
        <5> QED BY <5>1, <5>2
      <4> QED BY <3>1, <3>2, <4>1, <1>1, <1>2, <1>3, <1>5 DEF ContextOK,
         AfterLock
    <3>3. CASE d # c
      <4>1. ctx[d].worker = v => ctx[d].thread # u
        BY <3>1, <3>3, <1>1 DEF ContextOK
      <4>2. Held(d) => Held(d)'
        BY <3>3, <1>4, <1>1, <1>2, <1>3 DEF Held, Stays, Remains
      <4> QED
        BY <3>1, <3>3, <4>1, <4>2, <1>4, <1>2, <1>3 DEF ContextOK, Stays,
           Remains
    <3> QED BY <3>2, <3>3
  <2>2. \A d \in Context : owner'[d] = Null => d \notin target'
    BY <1>2 DEF IInv, Contexts
  <2> QED BY <2>1, <2>2 DEF Contexts
<1>12. NewContexts'
  <2>1. ASSUME NEW v \in Thread, v # u PROVE NewOK(v)'
    BY <2>1, <1>4, <1>1, <1>2, <1>3, NullAssumption DEF Stays, Remains, IInv,
       TypeOK, Threads, ThreadOK, NewContexts, NewOK
  <2>2. NewOK(u)'
    BY <1>1, <1>2, <1>3, <1>5, NullAssumption DEF IInv, TypeOK, NewContexts,
       NewOK
  <2> QED BY <2>1, <2>2 DEF NewContexts
<1>13. Kept'
  BY <1>1, <1>2, <1>3 DEF IInv, TypeOK, Kept
<1>14. Seen'
  <2>1. ASSUME NEW v \in Thread, v # u PROVE SeenOK(v)'
    BY <2>1, <1>4, <1>2 DEF Stays, Remains, IInv, Seen, SeenOK, Waiting
  <2>2. SeenOK(u)'
    <3>1. ctx[c].busy => \E v \in Worker : enum[v] = c
      BY <1>1 DEF IInv, Contexts, ContextOK, Held
    <3> QED BY <3>1, <1>1, <1>2, <1>3, <1>5 DEF IInv, Seen, SeenOK, Waiting,
       AfterLock
  <2> QED BY <2>1, <2>2 DEF Seen
<1> QED
  BY <1>6, <1>7, <1>8, <1>9, <1>10, <1>11, <1>12, <1>13, <1>14 DEF IInv

\* acquire_bit in the busy loop: the enumeration has ended.
LEMMA SpinStep ==
    ASSUME IInv, NEW u \in Thread, enter_spin(u)
    PROVE  IInv'
<1> DEFINE w == on[u]
           c == tlv[u]
<1>1. /\ at[u] = "spin" /\ ~ctx[c].busy /\ Alive(u) /\ ~Inside(u)
      /\ Self(u) = c /\ c \in Context /\ owner[c] # Null
      /\ ctx[c].thread = u /\ ctx[c].worker \in Worker
      /\ ctx[c].stack = depth[u] /\ depth[u] \in 1 .. MaxDepth
      /\ \A v \in Thread : tlv[v] = c => v = u
      /\ \A v \in Thread : loc[v].new # c
      /\ \A v \in Worker : enum[v] # c
      /\ Moving(u) /\ Entering(u) /\ w \in Worker
      /\ ctx[c].worker # w /\ c \in users[ctx[c].worker] /\ owner[c] = ctx[c].worker
      /\ \A v \in Worker : c \in users[v] => v = ctx[c].worker
  <2>1. /\ at[u] = "spin" /\ ~ctx[c].busy /\ Alive(u) /\ ~Inside(u) /\ Moving(u) /\ Entering(u)
        /\ w \in Worker /\ ctx[c].worker # w
    BY DEF enter_spin, Alive, Inside, Moving, Entering, IInv, Threads, ThreadOK,
       Places, PlaceOK
  <2>2. /\ c \in users[ctx[c].worker] /\ owner[c] = ctx[c].worker
        /\ \A v \in Worker : c \in users[v] => v = ctx[c].worker
    BY <2>1, OutsideContext DEF enter_spin, IInv, Places, PlaceOK, Contexts,
       ContextOK
  <2>3. \A v \in Worker : enum[v] # c
    BY <2>1, OutsideContext, NullAssumption DEF IInv, Enumeration
  <2> QED BY <2>1, <2>2, <2>3, OutsideContext
<1>2. /\ at' = [at EXCEPT ![u] = "move"]
      /\ UNCHANGED <<on, depth, open, tlv, loc, owner, target, mark, users,
                      cur, act, todo, enum, phase, sig, unsent, owing,
                      gc_count, seen>>
  BY DEF enter_spin, Goto, worker, signal
<1>3. /\ ctx' \in [Context -> User]
      /\ \A d \in Context : d # c => ctx'[d] = ctx[d]
      /\ ctx'[c].stack = ctx[c].stack /\ ctx'[c].thread = u /\ ctx'[c].busy
      /\ ctx'[c].worker = ctx[c].worker
  <2>1. ctx' = [ctx EXCEPT ![c].busy = TRUE]
    BY DEF enter_spin
  <2>3. ctx \in [Context -> User]
    BY DEF IInv, TypeOK, User
  <2> QED BY <2>1, <2>3, <1>1 DEF User
<1>4. ASSUME NEW v \in Thread, v # u
      PROVE  Stays(v) /\ (Alive(v) => Self(v) # c /\ ctx'[Self(v)] = ctx[Self(v)])
  <2>1. /\ at'[v] = at[v] /\ on'[v] = on[v] /\ tlv'[v] = tlv[v]
        /\ depth'[v] = depth[v] /\ open'[v] = open[v] /\ loc'[v] = loc[v]
    BY <1>4, <1>2 DEF IInv, TypeOK
  <2>2. cur' = cur
    BY <1>2
  <2>3. Alive(v) => Self(v) # c /\ ctx'[Self(v)] = ctx[Self(v)]
    BY <1>4, <1>1, <1>2, <1>3, OwnContext
  <2> QED BY <2>1, <2>2, <2>3, OtherThread
<1>5. /\ ~Inside(u)' /\ Alive(u)' /\ Entering(u)' /\ Moving(u)'
      /\ at'[u] = "move"
      /\ on'[u] = on[u] /\ tlv'[u] = c /\ loc'[u] = loc[u]
      /\ open'[u] = open[u] /\ depth'[u] = depth[u] /\ Self(u)' = c
  BY <1>1, <1>2, <1>3 DEF IInv, TypeOK, Self, Inside, Alive, Moving, Entering
<1>6. TypeOK'
  BY <1>1, <1>2, <1>3 DEF IInv, TypeOK, User
<1>7. Signals'
  BY <1>2 DEF IInv, Signals
<1>8. Enumeration'
  BY <1>1, <1>2, <1>3, NullAssumption DEF IInv, TypeOK, Enumeration
<1>9. Threads'
  <2>1. ASSUME NEW v \in Thread, v # u PROVE ThreadOK(v)'
    BY <2>1, <1>4, <1>1, <1>2, <1>3, NullAssumption DEF Stays, Remains, IInv,
       Threads, ThreadOK
  <2>2. ThreadOK(u)'
    BY <1>5, <1>4, <1>2, <1>1, NullAssumption DEF Stays, Remains, IInv, Threads,
       ThreadOK, Inside, Entering, Moving
  <2> QED BY <2>1, <2>2 DEF Threads
<1>10. Places'
  <2>1. ASSUME NEW v \in Thread, v # u PROVE PlaceOK(v)'
    BY <2>1, <1>4, <1>2, OtherPlace
  <2>2. PlaceOK(u)'
    BY <1>1, <1>2, <1>3, <1>5 DEF IInv, TypeOK, Places, PlaceOK
  <2> QED BY <2>1, <2>2 DEF Places
<1>11. Contexts'
  <2>1. ASSUME NEW v \in Worker, NEW d \in users'[v] PROVE ContextOK(v, d)'
    <3>1. d \in Context /\ ContextOK(v, d)
      BY <1>2 DEF IInv, TypeOK, Contexts
    <3>2. CASE d = c
      BY <3>1, <3>2, <1>1, <1>2, <1>3, <1>5, NullAssumption DEF IInv, TypeOK,
         ContextOK, Held
    <3>3. CASE d # c
      <4>1. ctx[d].worker = v => ctx[d].thread # u
        BY <3>1, <3>3, <1>1 DEF ContextOK
      <4>2. Held(d) => Held(d)'
        BY <3>3, <1>4, <1>1, <1>2, <1>3 DEF Held, Stays, Remains
      <4> QED
        BY <3>1, <3>3, <4>1, <4>2, <1>4, <1>2, <1>3 DEF ContextOK, Stays,
           Remains
    <3> QED BY <3>2, <3>3
  <2>2. \A d \in Context : owner'[d] = Null => d \notin target'
    BY <1>2 DEF IInv, Contexts
  <2> QED BY <2>1, <2>2 DEF Contexts
<1>12. NewContexts'
  <2>1. ASSUME NEW v \in Thread, v # u PROVE NewOK(v)'
    BY <2>1, <1>4, <1>1, <1>2, <1>3, NullAssumption DEF Stays, Remains, IInv,
       TypeOK, Threads, ThreadOK, NewContexts, NewOK
  <2>2. NewOK(u)'
    BY <1>1, <1>2, <1>3, <1>5, NullAssumption DEF IInv, TypeOK, NewContexts,
       NewOK
  <2> QED BY <2>1, <2>2 DEF NewContexts
<1>13. Kept'
  BY <1>1, <1>2, <1>3 DEF IInv, TypeOK, Kept
<1>14. Seen'
  <2>1. ASSUME NEW v \in Thread, v # u PROVE SeenOK(v)'
    BY <2>1, <1>4, <1>2 DEF Stays, Remains, IInv, Seen, SeenOK, Waiting
  <2>2. SeenOK(u)'
    BY <1>1, <1>2, <1>3, <1>5 DEF IInv, Seen, SeenOK, Waiting
  <2> QED BY <2>1, <2>2 DEF Seen
<1> QED
  BY <1>6, <1>7, <1>8, <1>9, <1>10, <1>11, <1>12, <1>13, <1>14 DEF IInv

\* sml_enter_internal enumerates the roots of the thread itself.
LEMMA EnumStep ==
    ASSUME IInv, NEW u \in Thread, enter_enum(u)
    PROVE  IInv'
<1> DEFINE w == on[u]
           c == tlv[u]
<1>1. /\ at[u] = "enum" /\ Alive(u) /\ ~Inside(u)
      /\ Self(u) = c /\ c \in Context /\ owner[c] # Null
      /\ ctx[c].thread = u /\ ctx[c].worker \in Worker
      /\ ctx[c].stack = depth[u] /\ depth[u] \in 1 .. MaxDepth
      /\ \A v \in Thread : tlv[v] = c => v = u
      /\ \A v \in Thread : loc[v].new # c
      /\ \A v \in Worker : enum[v] # c
      /\ Moving(u) /\ Entering(u) /\ w \in Worker
      /\ ctx[c].worker # w /\ c \in users[ctx[c].worker] /\ owner[c] = ctx[c].worker
      /\ \A v \in Worker : c \in users[v] => v = ctx[c].worker
  <2>1. /\ at[u] = "enum" /\ Alive(u) /\ ~Inside(u) /\ Moving(u) /\ Entering(u)
        /\ w \in Worker /\ ctx[c].worker # w
    BY DEF enter_enum, Alive, Inside, Moving, Entering, IInv, Threads, ThreadOK,
       Places, PlaceOK
  <2>2. /\ c \in users[ctx[c].worker] /\ owner[c] = ctx[c].worker
        /\ \A v \in Worker : c \in users[v] => v = ctx[c].worker
    BY <2>1, OutsideContext DEF enter_enum, IInv, Places, PlaceOK, Contexts,
       ContextOK
  <2>3. \A v \in Worker : enum[v] # c
    BY <2>1 DEF IInv, Places, PlaceOK
  <2> QED BY <2>1, <2>2, <2>3, OutsideContext
<1>2. /\ at' = [at EXCEPT ![u] = "move"]
      /\ mark' = mark \cup {c}
      /\ seen' = seen \cup {u}
      /\ UNCHANGED <<on, depth, open, tlv, loc, ctx, owner, target, users,
                      cur, act, todo, enum, phase, sig, unsent, owing,
                      gc_count>>
  BY DEF enter_enum, Goto, Visited, worker, signal
<1>4. ASSUME NEW v \in Thread, v # u
      PROVE  Stays(v) /\ (Alive(v) => Self(v) # c /\ ctx'[Self(v)] = ctx[Self(v)])
  <2>1. /\ at'[v] = at[v] /\ on'[v] = on[v] /\ tlv'[v] = tlv[v]
        /\ depth'[v] = depth[v] /\ open'[v] = open[v] /\ loc'[v] = loc[v]
    BY <1>4, <1>2 DEF IInv, TypeOK
  <2>2. cur' = cur
    BY <1>2
  <2>3. Alive(v) => Self(v) # c /\ ctx'[Self(v)] = ctx[Self(v)]
    BY <1>4, <1>1, <1>2, OwnContext
  <2> QED BY <2>1, <2>2, <2>3, OtherThread
<1>5. /\ ~Inside(u)' /\ Alive(u)' /\ Entering(u)' /\ Moving(u)'
      /\ at'[u] = "move"
      /\ on'[u] = on[u] /\ tlv'[u] = c /\ loc'[u] = loc[u]
      /\ open'[u] = open[u] /\ depth'[u] = depth[u] /\ Self(u)' = c
  BY <1>1, <1>2 DEF IInv, TypeOK, Self, Inside, Alive, Moving, Entering
<1>6. TypeOK'
  BY <1>1, <1>2 DEF IInv, TypeOK
<1>7. Signals'
  BY <1>2 DEF IInv, Signals
<1>8. Enumeration'
  BY <1>1, <1>2, NullAssumption DEF IInv, TypeOK, Enumeration
<1>9. Threads'
  <2>1. ASSUME NEW v \in Thread, v # u PROVE ThreadOK(v)'
    BY <2>1, <1>4, <1>1, <1>2, NullAssumption DEF Stays, Remains, IInv, Threads,
       ThreadOK
  <2>2. ThreadOK(u)'
    BY <1>5, <1>4, <1>2, <1>1, NullAssumption DEF Stays, Remains, IInv, Threads,
       ThreadOK, Inside, Entering, Moving
  <2> QED BY <2>1, <2>2 DEF Threads
<1>10. Places'
  <2>1. ASSUME NEW v \in Thread, v # u PROVE PlaceOK(v)'
    BY <2>1, <1>4, <1>2, OtherPlace
  <2>2. PlaceOK(u)'
    BY <1>1, <1>2, <1>5 DEF IInv, TypeOK, Places, PlaceOK
  <2> QED BY <2>1, <2>2 DEF Places
<1>11. Contexts'
  <2>1. ASSUME NEW v \in Worker, NEW d \in users'[v] PROVE ContextOK(v, d)'
    <3>1. d \in Context /\ ContextOK(v, d)
      BY <1>2 DEF IInv, TypeOK, Contexts
    <3>2. CASE d = c
      BY <3>1, <3>2, <1>1, <1>2, <1>5, NullAssumption DEF IInv, TypeOK,
         ContextOK,
         Held
    <3>3. CASE d # c
      <4>1. ctx[d].worker = v => ctx[d].thread # u
        BY <3>1, <3>3, <1>1 DEF ContextOK
      <4>2. Held(d) => Held(d)'
        BY <3>3, <1>4, <1>1, <1>2 DEF Held, Stays, Remains
      <4> QED
        BY <3>1, <3>3, <4>1, <4>2, <1>4, <1>2 DEF ContextOK, Stays, Remains
    <3> QED BY <3>2, <3>3
  <2>2. \A d \in Context : owner'[d] = Null => d \notin target'
    BY <1>2 DEF IInv, Contexts
  <2> QED BY <2>1, <2>2 DEF Contexts
<1>12. NewContexts'
  <2>1. ASSUME NEW v \in Thread, v # u PROVE NewOK(v)'
    BY <2>1, <1>4, <1>1, <1>2, NullAssumption DEF Stays, Remains, IInv, TypeOK,
       Threads, ThreadOK, NewContexts, NewOK
  <2>2. NewOK(u)'
    BY <1>1, <1>2, <1>5, NullAssumption DEF IInv, TypeOK, NewContexts, NewOK
  <2> QED BY <2>1, <2>2 DEF NewContexts
<1>13. Kept'
  BY <1>1, <1>2 DEF IInv, TypeOK, Kept
<1>14. Seen'
  <2>1. ASSUME NEW v \in Thread, v # u PROVE SeenOK(v)'
    BY <2>1, <1>4, <1>2 DEF Stays, Remains, IInv, Seen, SeenOK, Waiting
  <2>2. SeenOK(u)'
    BY <1>1, <1>2, <1>5 DEF IInv, Seen, SeenOK, Waiting
  <2> QED BY <2>1, <2>2 DEF Seen
<1> QED
  BY <1>6, <1>7, <1>8, <1>9, <1>10, <1>11, <1>12, <1>13, <1>14 DEF IInv

\* user->worker is changed under the lock, and the lock is released.
LEMMA MoveStep ==
    ASSUME IInv, NEW u \in Thread, enter_move(u)
    PROVE  IInv'
<1> DEFINE w == on[u]
           c == tlv[u]
<1>1. /\ at[u] = "move" /\ Alive(u) /\ ~Inside(u)
      /\ Self(u) = c /\ c \in Context /\ owner[c] # Null
      /\ ctx[c].thread = u /\ ctx[c].worker \in Worker
      /\ ctx[c].stack = depth[u] /\ depth[u] \in 1 .. MaxDepth
      /\ \A v \in Thread : tlv[v] = c => v = u
      /\ \A v \in Thread : loc[v].new # c
      /\ \A v \in Worker : enum[v] # c
      /\ Moving(u) /\ Entering(u) /\ w \in Worker
      /\ ctx[c].worker # w /\ c \in users[ctx[c].worker] /\ owner[c] = ctx[c].worker
      /\ \A v \in Worker : c \in users[v] => v = ctx[c].worker
  <2>1. /\ at[u] = "move" /\ Alive(u) /\ ~Inside(u) /\ Moving(u) /\ Entering(u)
        /\ w \in Worker /\ ctx[c].worker # w
    BY DEF enter_move, Alive, Inside, Moving, Entering, IInv, Threads, ThreadOK,
       Places, PlaceOK
  <2>2. /\ c \in users[ctx[c].worker] /\ owner[c] = ctx[c].worker
        /\ \A v \in Worker : c \in users[v] => v = ctx[c].worker
    BY <2>1, OutsideContext DEF enter_move, IInv, Places, PlaceOK, Contexts,
       ContextOK
  <2>3. \A v \in Worker : enum[v] # c
    BY <2>1 DEF IInv, Places, PlaceOK
  <2> QED BY <2>1, <2>2, <2>3, OutsideContext
<1>2. /\ at' = [at EXCEPT ![u] = "copy"]
      /\ UNCHANGED <<on, depth, open, tlv, loc, owner, target, mark, users,
                      cur, act, todo, enum, phase, sig, unsent, owing,
                      gc_count, seen>>
  BY DEF enter_move, Goto, worker, signal
<1>3. /\ ctx' \in [Context -> User]
      /\ \A d \in Context : d # c => ctx'[d] = ctx[d]
      /\ ctx'[c].stack = ctx[c].stack /\ ctx'[c].thread = u /\ ~ctx'[c].busy
      /\ ctx'[c].worker = w
  <2>1. ctx' = [ctx EXCEPT ![c].worker = w, ![c].busy = FALSE]
    BY DEF enter_move
  <2>3. ctx \in [Context -> User]
    BY DEF IInv, TypeOK, User
  <2> QED BY <2>1, <2>3, <1>1 DEF User
<1>4. ASSUME NEW v \in Thread, v # u
      PROVE  Stays(v) /\ (Alive(v) => Self(v) # c /\ ctx'[Self(v)] = ctx[Self(v)])
  <2>1. /\ at'[v] = at[v] /\ on'[v] = on[v] /\ tlv'[v] = tlv[v]
        /\ depth'[v] = depth[v] /\ open'[v] = open[v] /\ loc'[v] = loc[v]
    BY <1>4, <1>2 DEF IInv, TypeOK
  <2>2. cur' = cur
    BY <1>2
  <2>3. Alive(v) => Self(v) # c /\ ctx'[Self(v)] = ctx[Self(v)]
    BY <1>4, <1>1, <1>2, <1>3, OwnContext
  <2> QED BY <2>1, <2>2, <2>3, OtherThread
<1>5. /\ ~Inside(u)' /\ Alive(u)' /\ Entering(u)' /\ ~Moving(u)'
      /\ at'[u] = "copy"
      /\ on'[u] = on[u] /\ tlv'[u] = c /\ loc'[u] = loc[u]
      /\ open'[u] = open[u] /\ depth'[u] = depth[u] /\ Self(u)' = c
  BY <1>1, <1>2, <1>3 DEF IInv, TypeOK, Self, Inside, Alive, Moving, Entering
<1>6. TypeOK'
  BY <1>1, <1>2, <1>3 DEF IInv, TypeOK, User
<1>7. Signals'
  BY <1>2 DEF IInv, Signals
<1>8. Enumeration'
  BY <1>1, <1>2, <1>3, NullAssumption DEF IInv, TypeOK, Enumeration
<1>9. Threads'
  <2>1. ASSUME NEW v \in Thread, v # u PROVE ThreadOK(v)'
    BY <2>1, <1>4, <1>1, <1>2, <1>3, NullAssumption DEF Stays, Remains, IInv,
       Threads, ThreadOK
  <2>2. ThreadOK(u)'
    BY <1>5, <1>4, <1>2, <1>1, NullAssumption DEF Stays, Remains, IInv, Threads,
       ThreadOK, Inside, Entering, Moving
  <2> QED BY <2>1, <2>2 DEF Threads
<1>10. Places'
  <2>1. ASSUME NEW v \in Thread, v # u PROVE PlaceOK(v)'
    BY <2>1, <1>4, <1>2, OtherPlace
  <2>2. PlaceOK(u)'
    BY <1>1, <1>2, <1>3, <1>5 DEF IInv, TypeOK, Places, PlaceOK
  <2> QED BY <2>1, <2>2 DEF Places
<1>11. Contexts'
  <2>1. ASSUME NEW v \in Worker, NEW d \in users'[v] PROVE ContextOK(v, d)'
    <3>1. d \in Context /\ ContextOK(v, d)
      BY <1>2 DEF IInv, TypeOK, Contexts
    <3>2. CASE d = c
      BY <3>1, <3>2, <1>1, <1>2, <1>3, <1>5, NullAssumption DEF IInv, TypeOK,
         ContextOK, Held
    <3>3. CASE d # c
      <4>1. ctx[d].worker = v => ctx[d].thread # u
        BY <3>1, <3>3, <1>1 DEF ContextOK
      <4>2. Held(d) => Held(d)'
        BY <3>3, <1>4, <1>1, <1>2, <1>3 DEF Held, Stays, Remains
      <4> QED
        BY <3>1, <3>3, <4>1, <4>2, <1>4, <1>2, <1>3 DEF ContextOK, Stays,
           Remains
    <3> QED BY <3>2, <3>3
  <2>2. \A d \in Context : owner'[d] = Null => d \notin target'
    BY <1>2 DEF IInv, Contexts
  <2> QED BY <2>1, <2>2 DEF Contexts
<1>12. NewContexts'
  <2>1. ASSUME NEW v \in Thread, v # u PROVE NewOK(v)'
    BY <2>1, <1>4, <1>1, <1>2, <1>3, NullAssumption DEF Stays, Remains, IInv,
       TypeOK, Threads, ThreadOK, NewContexts, NewOK
  <2>2. NewOK(u)'
    BY <1>1, <1>2, <1>3, <1>5, NullAssumption DEF IInv, TypeOK, NewContexts,
       NewOK
  <2> QED BY <2>1, <2>2 DEF NewContexts
<1>13. Kept'
  BY <1>1, <1>2, <1>3 DEF IInv, TypeOK, Kept
<1>14. Seen'
  <2>1. ASSUME NEW v \in Thread, v # u PROVE SeenOK(v)'
    BY <2>1, <1>4, <1>2 DEF Stays, Remains, IInv, Seen, SeenOK, Waiting
  <2>2. SeenOK(u)'
    <3>1. sig = PRESYNC2 => phase[w] \in {SYNC1, PRESYNC2, SYNC2}
      BY <1>1 DEF IInv, Signals, Before, PREASYNC, SYNC1, PRESYNC2, SYNC2
    <3>2. sig = PRESYNC2 => phase[w] \in {SYNC1, PRESYNC2} \/ u \in seen
      BY <3>1, <1>1 DEF IInv, Places, PlaceOK, Seen, SeenOK, PREASYNC, ASYNC,
         PRESYNC1, SYNC1, PRESYNC2, SYNC2, PREMARK, MARK
    <3> QED BY <3>2, <1>1, <1>2, <1>3, <1>5 DEF IInv, Seen, SeenOK, Waiting
  <2> QED BY <2>1, <2>2 DEF Seen
<1> QED
  BY <1>6, <1>7, <1>8, <1>9, <1>10, <1>11, <1>12, <1>13, <1>14 DEF IInv

\* user->worker is changed without the lock: nobody is in worker_sync2.
LEMMA StoreStep ==
    ASSUME IInv, NEW u \in Thread, enter_store(u)
    PROVE  IInv'
<1> DEFINE w == on[u]
           c == tlv[u]
<1>1. /\ at[u] = "store" /\ Alive(u) /\ ~Inside(u)
      /\ Self(u) = c /\ c \in Context /\ owner[c] # Null
      /\ ctx[c].thread = u /\ ctx[c].worker \in Worker
      /\ ctx[c].stack = depth[u] /\ depth[u] \in 1 .. MaxDepth
      /\ \A v \in Thread : tlv[v] = c => v = u
      /\ \A v \in Thread : loc[v].new # c
      /\ \A v \in Worker : enum[v] # c
      /\ Moving(u) /\ Entering(u) /\ w \in Worker
      /\ ctx[c].worker # w /\ c \in users[ctx[c].worker] /\ owner[c] = ctx[c].worker
      /\ \A v \in Worker : c \in users[v] => v = ctx[c].worker
  <2>1. /\ at[u] = "store" /\ Alive(u) /\ ~Inside(u) /\ Moving(u) /\ Entering(u)
        /\ w \in Worker /\ ctx[c].worker # w
    BY DEF enter_store, Alive, Inside, Moving, Entering, IInv, Threads,
       ThreadOK, Places, PlaceOK
  <2>2. /\ c \in users[ctx[c].worker] /\ owner[c] = ctx[c].worker
        /\ \A v \in Worker : c \in users[v] => v = ctx[c].worker
    BY <2>1, OutsideContext DEF enter_store, IInv, Places, PlaceOK, Contexts,
       ContextOK
  <2>3. \A v \in Worker : enum[v] # c
    <3>1. phase[w] \in {PREMARK, MARK, PREASYNC, ASYNC, PRESYNC1}
      BY <2>1 DEF IInv, Places, PlaceOK
    <3>2. sig # PRESYNC2
      BY <2>1, <3>1 DEF IInv, Signals, Before, PREASYNC, ASYNC, PRESYNC1, SYNC1,
         PRESYNC2, SYNC2, PREMARK, MARK
    <3>3. \A v \in Worker : enum[v] = Null
      BY <3>2 DEF IInv, Signals, Enumeration
    <3> QED BY <3>3, OutsideContext, <2>1, NullAssumption
  <2> QED BY <2>1, <2>2, <2>3, OutsideContext
<1>2. /\ at' = [at EXCEPT ![u] = "copy"]
      /\ UNCHANGED <<on, depth, open, tlv, loc, owner, target, mark, users,
                      cur, act, todo, enum, phase, sig, unsent, owing,
                      gc_count, seen>>
  BY DEF enter_store, Goto, worker, signal
<1>3. /\ ctx' \in [Context -> User]
      /\ \A d \in Context : d # c => ctx'[d] = ctx[d]
      /\ ctx'[c].stack = ctx[c].stack /\ ctx'[c].thread = u /\ ctx'[c].busy = ctx[c].busy
      /\ ctx'[c].worker = w
  <2>1. ctx' = [ctx EXCEPT ![c].worker = w]
    BY DEF enter_store
  <2>3. ctx \in [Context -> User]
    BY DEF IInv, TypeOK, User
  <2> QED BY <2>1, <2>3, <1>1 DEF User
<1>4. ASSUME NEW v \in Thread, v # u
      PROVE  Stays(v) /\ (Alive(v) => Self(v) # c /\ ctx'[Self(v)] = ctx[Self(v)])
  <2>1. /\ at'[v] = at[v] /\ on'[v] = on[v] /\ tlv'[v] = tlv[v]
        /\ depth'[v] = depth[v] /\ open'[v] = open[v] /\ loc'[v] = loc[v]
    BY <1>4, <1>2 DEF IInv, TypeOK
  <2>2. cur' = cur
    BY <1>2
  <2>3. Alive(v) => Self(v) # c /\ ctx'[Self(v)] = ctx[Self(v)]
    BY <1>4, <1>1, <1>2, <1>3, OwnContext
  <2> QED BY <2>1, <2>2, <2>3, OtherThread
<1>5. /\ ~Inside(u)' /\ Alive(u)' /\ Entering(u)' /\ ~Moving(u)'
      /\ at'[u] = "copy"
      /\ on'[u] = on[u] /\ tlv'[u] = c /\ loc'[u] = loc[u]
      /\ open'[u] = open[u] /\ depth'[u] = depth[u] /\ Self(u)' = c
  BY <1>1, <1>2, <1>3 DEF IInv, TypeOK, Self, Inside, Alive, Moving, Entering
<1>6. TypeOK'
  BY <1>1, <1>2, <1>3 DEF IInv, TypeOK, User
<1>7. Signals'
  BY <1>2 DEF IInv, Signals
<1>8. Enumeration'
  BY <1>1, <1>2, <1>3, NullAssumption DEF IInv, TypeOK, Enumeration
<1>9. Threads'
  <2>1. ASSUME NEW v \in Thread, v # u PROVE ThreadOK(v)'
    BY <2>1, <1>4, <1>1, <1>2, <1>3, NullAssumption DEF Stays, Remains, IInv,
       Threads, ThreadOK
  <2>2. ThreadOK(u)'
    BY <1>5, <1>4, <1>2, <1>1, NullAssumption DEF Stays, Remains, IInv, Threads,
       ThreadOK, Inside, Entering, Moving
  <2> QED BY <2>1, <2>2 DEF Threads
<1>10. Places'
  <2>1. ASSUME NEW v \in Thread, v # u PROVE PlaceOK(v)'
    BY <2>1, <1>4, <1>2, OtherPlace
  <2>2. PlaceOK(u)'
    BY <1>1, <1>2, <1>3, <1>5 DEF IInv, TypeOK, Places, PlaceOK
  <2> QED BY <2>1, <2>2 DEF Places
<1>11. Contexts'
  <2>1. ASSUME NEW v \in Worker, NEW d \in users'[v] PROVE ContextOK(v, d)'
    <3>1. d \in Context /\ ContextOK(v, d)
      BY <1>2 DEF IInv, TypeOK, Contexts
    <3>2. CASE d = c
      BY <3>1, <3>2, <1>1, <1>2, <1>3, <1>5, NullAssumption DEF IInv, TypeOK,
         ContextOK, Held
    <3>3. CASE d # c
      <4>1. ctx[d].worker = v => ctx[d].thread # u
        BY <3>1, <3>3, <1>1 DEF ContextOK
      <4>2. Held(d) => Held(d)'
        BY <3>3, <1>4, <1>1, <1>2, <1>3 DEF Held, Stays, Remains
      <4> QED
        BY <3>1, <3>3, <4>1, <4>2, <1>4, <1>2, <1>3 DEF ContextOK, Stays,
           Remains
    <3> QED BY <3>2, <3>3
  <2>2. \A d \in Context : owner'[d] = Null => d \notin target'
    BY <1>2 DEF IInv, Contexts
  <2> QED BY <2>1, <2>2 DEF Contexts
<1>12. NewContexts'
  <2>1. ASSUME NEW v \in Thread, v # u PROVE NewOK(v)'
    BY <2>1, <1>4, <1>1, <1>2, <1>3, NullAssumption DEF Stays, Remains, IInv,
       TypeOK, Threads, ThreadOK, NewContexts, NewOK
  <2>2. NewOK(u)'
    BY <1>1, <1>2, <1>3, <1>5, NullAssumption DEF IInv, TypeOK, NewContexts,
       NewOK
  <2> QED BY <2>1, <2>2 DEF NewContexts
<1>13. Kept'
  BY <1>1, <1>2, <1>3 DEF IInv, TypeOK, Kept
<1>14. Seen'
  <2>1. ASSUME NEW v \in Thread, v # u PROVE SeenOK(v)'
    BY <2>1, <1>4, <1>2 DEF Stays, Remains, IInv, Seen, SeenOK, Waiting
  <2>2. SeenOK(u)'
    <3>1. sig = PRESYNC2 => phase[w] \in {SYNC1, PRESYNC2, SYNC2}
      BY <1>1 DEF IInv, Signals, Before, PREASYNC, SYNC1, PRESYNC2, SYNC2
    <3>2. sig = PRESYNC2 => phase[w] \in {SYNC1, PRESYNC2} \/ u \in seen
      BY <3>1, <1>1 DEF IInv, Places, PlaceOK, Seen, SeenOK, PREASYNC, ASYNC,
         PRESYNC1, SYNC1, PRESYNC2, SYNC2, PREMARK, MARK
    <3> QED BY <3>2, <1>1, <1>2, <1>3, <1>5 DEF IInv, Seen, SeenOK, Waiting
  <2> QED BY <2>1, <2>2 DEF Seen
<1> QED
  BY <1>6, <1>7, <1>8, <1>9, <1>10, <1>11, <1>12, <1>13, <1>14 DEF IInv

\* cancel_user is done: the context belongs to no worker any more.
LEMMA CancelEndStep ==
    ASSUME IInv, NEW u \in Thread, cancel_user_end(u)
    PROVE  IInv'
<1> DEFINE c == tlv[u]
<1>1. /\ at[u] = "cancel" /\ Alive(u) /\ ~Inside(u)
      /\ Self(u) = c /\ c \in Context /\ owner[c] # Null
      /\ ctx[c].thread = u /\ ctx[c].worker \in Worker
      /\ ctx[c].stack = depth[u] /\ depth[u] \in 1 .. MaxDepth
      /\ \A v \in Thread : tlv[v] = c => v = u
      /\ \A v \in Thread : loc[v].new # c
      /\ \A v \in Worker : enum[v] # c
  <2>1. at[u] = "cancel" /\ Alive(u) /\ ~Inside(u) /\ \A v \in Worker : enum[v] # c
    BY DEF cancel_user_end, Alive, Inside, IInv, Places, PlaceOK
  <2> QED BY <2>1, OutsideContext
<1>2. /\ at' = [at EXCEPT ![u] = "dead"]
      /\ tlv' = [tlv EXCEPT ![u] = Null]
      /\ depth' = [depth EXCEPT ![u] = 0]
      /\ UNCHANGED <<on, open, loc, owner, target, mark, users, cur, act,
                      todo, enum, phase, sig, unsent, owing, gc_count, seen>>
  BY DEF cancel_user_end, Goto, worker, signal
<1>3. /\ ctx' \in [Context -> User]
      /\ \A d \in Context : d # c => ctx'[d] = ctx[d]
      /\ ctx'[c].stack = ctx[c].stack /\ ctx'[c].thread = u /\ ~ctx'[c].busy
      /\ ctx'[c].worker = Null
  <2>1. ctx' = [ctx EXCEPT ![c].worker = Null, ![c].busy = FALSE]
    BY DEF cancel_user_end, Canceled
  <2>3. ctx \in [Context -> User]
    BY DEF IInv, TypeOK, User
  <2> QED BY <2>1, <2>3, <1>1 DEF User
<1>4. ASSUME NEW v \in Thread, v # u
      PROVE  Stays(v) /\ (Alive(v) => Self(v) # c /\ ctx'[Self(v)] = ctx[Self(v)])
  <2>1. /\ at'[v] = at[v] /\ on'[v] = on[v] /\ tlv'[v] = tlv[v]
        /\ depth'[v] = depth[v] /\ open'[v] = open[v] /\ loc'[v] = loc[v]
    BY <1>4, <1>2 DEF IInv, TypeOK
  <2>2. cur' = cur
    BY <1>2
  <2>3. Alive(v) => Self(v) # c /\ ctx'[Self(v)] = ctx[Self(v)]
    BY <1>4, <1>1, <1>2, <1>3, OwnContext
  <2> QED BY <2>1, <2>2, <2>3, OtherThread
<1>5. /\ ~Inside(u)' /\ ~Alive(u)' /\ ~Entering(u)' /\ ~Moving(u)'
      /\ at'[u] = "dead"
      /\ on'[u] = on[u] /\ tlv'[u] = Null /\ loc'[u] = loc[u]
      /\ open'[u] = open[u] /\ depth'[u] = 0
  BY <1>1, <1>2, <1>3 DEF IInv, TypeOK, Self, Inside, Alive, Moving, Entering
<1>6. TypeOK'
  BY <1>1, <1>2, <1>3, BoundAssumption DEF IInv, TypeOK, User
<1>7. Signals'
  BY <1>2 DEF IInv, Signals
<1>8. Enumeration'
  BY <1>1, <1>2, <1>3, NullAssumption DEF IInv, TypeOK, Enumeration
<1>9. Threads'
  <2>1. ASSUME NEW v \in Thread, v # u PROVE ThreadOK(v)'
    BY <2>1, <1>4, <1>1, <1>2, <1>3, NullAssumption DEF Stays, Remains, IInv,
       Threads, ThreadOK
  <2>2. ThreadOK(u)'
    BY <1>5, <1>4, <1>2, <1>1, NullAssumption DEF Stays, Remains, IInv, Threads,
       ThreadOK, Inside, Entering, Moving
  <2> QED BY <2>1, <2>2 DEF Threads
<1>10. Places'
  <2>1. ASSUME NEW v \in Thread, v # u PROVE PlaceOK(v)'
    BY <2>1, <1>4, <1>2, OtherPlace
  <2>2. PlaceOK(u)'
    BY <1>1, <1>2, <1>3, <1>5 DEF IInv, TypeOK, Places, PlaceOK
  <2> QED BY <2>1, <2>2 DEF Places
<1>11. Contexts'
  <2>1. ASSUME NEW v \in Worker, NEW d \in users'[v] PROVE ContextOK(v, d)'
    <3>1. d \in Context /\ ContextOK(v, d)
      BY <1>2 DEF IInv, TypeOK, Contexts
    <3>2. CASE d = c
      BY <3>1, <3>2, <1>1, <1>2, <1>3, <1>5, NullAssumption DEF IInv, TypeOK,
         ContextOK, Held
    <3>3. CASE d # c
      <4>1. ctx[d].worker = v => ctx[d].thread # u
        BY <3>1, <3>3, <1>1 DEF ContextOK
      <4>2. Held(d) => Held(d)'
        BY <3>3, <1>4, <1>1, <1>2, <1>3 DEF Held, Stays, Remains
      <4> QED
        BY <3>1, <3>3, <4>1, <4>2, <1>4, <1>2, <1>3 DEF ContextOK, Stays,
           Remains
    <3> QED BY <3>2, <3>3
  <2>2. \A d \in Context : owner'[d] = Null => d \notin target'
    BY <1>2 DEF IInv, Contexts
  <2> QED BY <2>1, <2>2 DEF Contexts
<1>12. NewContexts'
  <2>1. ASSUME NEW v \in Thread, v # u PROVE NewOK(v)'
    BY <2>1, <1>4, <1>1, <1>2, <1>3, NullAssumption DEF Stays, Remains, IInv,
       TypeOK, Threads, ThreadOK, NewContexts, NewOK
  <2>2. NewOK(u)'
    BY <1>1, <1>2, <1>3, <1>5, NullAssumption DEF IInv, TypeOK, NewContexts,
       NewOK
  <2> QED BY <2>1, <2>2 DEF NewContexts
<1>13. Kept'
  BY <1>1, <1>2, <1>3 DEF IInv, TypeOK, Kept
<1>14. Seen'
  <2>1. ASSUME NEW v \in Thread, v # u PROVE SeenOK(v)'
    BY <2>1, <1>4, <1>2 DEF Stays, Remains, IInv, Seen, SeenOK, Waiting
  <2>2. SeenOK(u)'
    BY <1>1, <1>2, <1>3, <1>5 DEF IInv, Seen, SeenOK, Waiting
  <2> QED BY <2>1, <2>2 DEF Seen
<1> QED
  BY <1>6, <1>7, <1>8, <1>9, <1>10, <1>11, <1>12, <1>13, <1>14 DEF IInv

\* sml_start of a thread that has no user context.
LEMMA StartStep ==
    ASSUME IInv, NEW u \in Thread, NEW w \in Worker, sml_start_new(u, w)
    PROVE  IInv'
<1>0. PICK n \in Context : sml_start_new(u, w)!(n)
  BY DEF sml_start_new
<1>1. /\ at[u] = "none" /\ ~Alive(u) /\ on[u] = Null /\ tlv[u] = Null
      /\ act[w] = "none" /\ \A v \in Thread : on[v] # w
      /\ n \in Context /\ owner[n] = Null /\ n \notin target
      /\ \A v \in Worker : n \notin users[v] /\ n \notin todo[v] /\ enum[v] # n
      /\ \A v \in Thread : /\ tlv[v] # n /\ loc[v].new # n
                           /\ Alive(v) => Self(v) # n
  <2>1. /\ at[u] = "none" /\ ~Alive(u) /\ on[u] = Null /\ tlv[u] = Null
        /\ act[w] = "none" /\ \A v \in Thread : on[v] # w
    BY <1>0 DEF Unlocked, Alive, IInv, Threads, ThreadOK
  <2>2. owner[n] = Null
    BY <1>0 DEF Allocate
  <2> QED BY <2>1, <2>2, FreeContext
<1>2. /\ at' = [at EXCEPT ![u] = "ML"]
      /\ on' = [on EXCEPT ![u] = w]
      /\ cur' = [cur EXCEPT ![w] = n]
      /\ open' = [open EXCEPT ![u] = TRUE]
      /\ depth' = [depth EXCEPT ![u] = 1]
      /\ users' = [users EXCEPT ![w] = @ \cup {n}]
      /\ owner' = [owner EXCEPT ![n] = w]
      /\ target' = IF AllocatesTarget(phase[w]) THEN target \cup {n} ELSE target
      /\ seen' = SeenOn(u, w)
      /\ UNCHANGED <<tlv, loc, mark, act, todo, enum, phase, sig, unsent,
                      owing, gc_count>>
  BY <1>0 DEF Allocate, Goto, signal
<1>3. /\ ctx' \in [Context -> User]
      /\ \A d \in Context : d # n => ctx'[d] = ctx[d]
      /\ ctx'[n].worker = w /\ ~ctx'[n].busy /\ ctx'[n].thread = u /\ ctx'[n].stack = 1
  <2>1. ctx' = [ctx EXCEPT ![n] = [worker |-> w, busy |-> FALSE,
                                   thread |-> u, stack |-> 1]]
    BY <1>0
  <2>2. 1 \in 0 .. MaxDepth
    BY BoundAssumption
  <2>3. ctx \in [Context -> User]
    BY DEF IInv, TypeOK, User
  <2> QED BY <2>1, <2>2, <2>3, <1>1 DEF User
<1>4. ASSUME NEW v \in Thread, v # u
      PROVE  Stays(v) /\ (Alive(v) => Self(v) # n /\ ctx'[Self(v)] = ctx[Self(v)])
  <2>1. /\ at'[v] = at[v] /\ on'[v] = on[v] /\ tlv'[v] = tlv[v]
        /\ depth'[v] = depth[v] /\ open'[v] = open[v] /\ loc'[v] = loc[v]
    BY <1>4, <1>2 DEF IInv, TypeOK
  <2>2. Inside(v) => cur'[on[v]] = cur[on[v]]
    BY <1>4, <1>1, <1>2, NullAssumption DEF IInv, TypeOK, Threads, ThreadOK
  <2>3. Alive(v) => Self(v) # n /\ ctx'[Self(v)] = ctx[Self(v)]
    BY <1>4, <1>1, <1>2, <1>3, OwnContext
  <2> QED BY <2>1, <2>2, <2>3, OtherThread
<1>5. /\ Inside(u)' /\ Alive(u)' /\ ~Entering(u)' /\ ~Moving(u)'
      /\ at'[u] = "ML"
      /\ on'[u] = w /\ tlv'[u] = Null /\ loc'[u] = loc[u]
      /\ open'[u] /\ depth'[u] = 1 /\ Self(u)' = n
  BY <1>1, <1>2, <1>3 DEF IInv, TypeOK, Self, Inside, Alive, Moving, Entering
<1>6. TypeOK'
  <2>1. depth' \in [Thread -> 0 .. MaxDepth]
    BY <1>1, <1>2, BoundAssumption DEF IInv, TypeOK
  <2>2. seen' \subseteq Thread
    BY <1>2 DEF IInv, TypeOK, SeenOn
  <2>3. /\ ctx' \in [Context -> [worker : Worker \cup {Null}, busy : BOOLEAN,
                               thread : Thread \cup {Null}, stack : 0 .. MaxDepth]]
        /\ users' \in [Worker -> SUBSET Context]
        /\ owner' \in [Context -> Worker \cup {Null}]
        /\ target' \subseteq Context
    BY <1>1, <1>2, <1>3, ZenonT(40) DEF IInv, TypeOK, User
  <2>4. /\ at' \in [Thread -> {"none", "ML", "saved", "C", "lock", "spin", "enum",
                              "move", "store", "copy", "cancel", "dead"}]
        /\ on' \in [Thread -> Worker \cup {Null}]
        /\ open' \in [Thread -> BOOLEAN]
        /\ cur' \in [Worker -> Context \cup {Null}]
    BY <1>1, <1>2 DEF IInv, TypeOK
  <2> QED BY <2>1, <2>2, <2>3, <2>4, <1>2 DEF IInv, TypeOK
<1>7. Signals'
  BY <1>2 DEF IInv, Signals
<1>8. Enumeration'
  BY <1>1, <1>2, <1>3, NullAssumption DEF IInv, TypeOK, Enumeration
<1>9. Threads'
  <2>1. ASSUME NEW v \in Thread, v # u PROVE ThreadOK(v)'
    BY <2>1, <1>4, <1>1, <1>2, <1>3, NullAssumption DEF Stays, Remains, IInv,
       Threads, ThreadOK
  <2>2. ThreadOK(u)'
    BY <1>5, <1>4, <1>2, <1>1, NullAssumption DEF Stays, Remains, IInv, Threads,
       ThreadOK, Inside, Entering, Moving
  <2> QED BY <2>1, <2>2 DEF Threads
<1>10. Places'
  <2>1. ASSUME NEW v \in Thread, v # u PROVE PlaceOK(v)'
    BY <2>1, <1>4, <1>2, OtherPlace
  <2>2. PlaceOK(u)'
    BY <1>1, <1>2, <1>3, <1>5 DEF IInv, TypeOK, Places, PlaceOK
  <2> QED BY <2>1, <2>2 DEF Places
<1>11. Contexts'
  <2>1. ASSUME NEW v \in Worker, NEW d \in users'[v] PROVE ContextOK(v, d)'
    <3>1. d \in Context /\ (d # n => d \in users[v]) /\ (d = n => v = w)
      BY <1>1, <1>2 DEF IInv, TypeOK
    <3>2. CASE d = n
      BY <3>1, <3>2, <1>1, <1>2, <1>3, <1>5, NullAssumption DEF IInv, TypeOK,
         ContextOK
    <3>3. CASE d # n
      <4>1. ContextOK(v, d)
        BY <3>1, <3>3 DEF IInv, Contexts
      <4>2. ctx[d].worker = v => ctx[d].thread # u
        BY <4>1, <1>1 DEF ContextOK
      <4>3. Held(d) => Held(d)'
        BY <1>1, <1>2, <1>4, <1>5 DEF Held, Stays, Remains
      <4> QED
        BY <3>1, <3>3, <4>1, <4>2, <4>3, <1>2, <1>3, <1>4 DEF ContextOK, Stays,
           Remains
    <3> QED BY <3>2, <3>3
  <2>2. \A d \in Context : owner'[d] = Null => d \notin target'
    BY <1>1, <1>2, NullAssumption DEF IInv, TypeOK, Contexts
  <2> QED BY <2>1, <2>2 DEF Contexts
<1>12. NewContexts'
  <2>1. ASSUME NEW v \in Thread, v # u PROVE NewOK(v)'
    BY <2>1, <1>4, <1>1, <1>2, <1>3, NullAssumption DEF Stays, Remains, IInv,
       TypeOK, Threads, ThreadOK, NewContexts, NewOK
  <2>2. NewOK(u)'
    BY <1>1, <1>2, <1>3, <1>5, NullAssumption DEF IInv, TypeOK, NewContexts,
       NewOK
  <2> QED BY <2>1, <2>2 DEF NewContexts
<1>13. Kept'
  <2>1. phase[w] \in {SYNC2, PREMARK, MARK, PREASYNC} => n \notin target'
    BY <1>1, <1>2 DEF AllocatesTarget, PREASYNC, ASYNC, PRESYNC2, SYNC2,
       PREMARK, MARK
  <2>2. ASSUME NEW v \in Worker, NEW d \in users'[v] PROVE d \in users[v] \/ (d = n /\ v = w)
    BY <1>2 DEF IInv, TypeOK
  <2>3. ASSUME NEW v \in Thread, at'[v] = "copy" PROVE v # u
    BY <2>3, <1>5
  <2> QED BY <2>1, <2>2, <2>3, <1>1, <1>2, <1>4 DEF IInv, TypeOK, Kept, Stays,
     Remains
<1>14. Seen'
  <2>1. ASSUME NEW v \in Thread, v # u PROVE SeenOK(v)'
    BY <2>1, <1>4, <1>2 DEF Stays, Remains, IInv, Seen, SeenOK, Waiting, SeenOn
  <2>2. SeenOK(u)'
    <3>1. phase[w] \in {SYNC1, PRESYNC2, SYNC2} \/ sig # PRESYNC2
      BY <1>1 DEF IInv, Signals, Before, PREASYNC, SYNC1, PRESYNC2, SYNC2
    <3>2. phase[w] \in {SYNC2, PREMARK, MARK} \/ sig # PREMARK
      BY <1>1 DEF IInv, Signals, Before, PREASYNC, SYNC2, PREMARK, MARK
    <3> QED
      BY <3>1, <3>2, <1>1, <1>2, <1>3, <1>5 DEF SeenOn, SeenOK, Waiting, SYNC1,
         PRESYNC2, SYNC2, PREMARK, MARK
  <2> QED BY <2>1, <2>2 DEF Seen
<1> QED
  BY <1>6, <1>7, <1>8, <1>9, <1>10, <1>11, <1>12, <1>13, <1>14 DEF IInv

\* sml_enter of a thread that was stolen: a context is allocated.
LEMMA StolenStep ==
    ASSUME IInv, NEW u \in Thread, NEW w \in Worker, sml_enter_stolen(u, w)
    PROVE  IInv'
<1>0. PICK n \in Context : sml_enter_stolen(u, w)!(n)
  BY DEF sml_enter_stolen
<1> DEFINE c == tlv[u]
<1>1. /\ at[u] = "C" /\ Alive(u) /\ ~Inside(u)
      /\ Self(u) = c /\ c \in Context /\ owner[c] # Null
      /\ ctx[c].thread = u /\ ctx[c].worker \in Worker
      /\ ctx[c].stack = depth[u] /\ depth[u] \in 1 .. MaxDepth
      /\ \A v \in Thread : tlv[v] = c => v = u
      /\ \A v \in Thread : loc[v].new # c
      /\ act[w] = "none" /\ on[u] = Null /\ \A v \in Thread : on[v] # w
      /\ ctx[c].worker # w /\ c \in users[ctx[c].worker] /\ owner[c] = ctx[c].worker
      /\ n \in Context /\ owner[n] = Null /\ n \notin target
      /\ \A v \in Worker : n \notin users[v] /\ n \notin todo[v] /\ enum[v] # n
      /\ \A v \in Thread : /\ tlv[v] # n /\ loc[v].new # n
                           /\ Alive(v) => Self(v) # n
  <2>1. /\ at[u] = "C" /\ Alive(u) /\ ~Inside(u) /\ on[u] = Null
        /\ act[w] = "none" /\ \A v \in Thread : on[v] # w
        /\ ctx[c].worker # w /\ owner[n] = Null
    BY <1>0 DEF Unlocked, Allocate, Alive, Inside, IInv, Threads, ThreadOK
  <2>2. /\ Self(u) = c /\ c \in Context /\ owner[c] # Null
        /\ ctx[c].thread = u /\ ctx[c].worker \in Worker
        /\ ctx[c].stack = depth[u] /\ depth[u] \in 1 .. MaxDepth
        /\ \A v \in Thread : tlv[v] = c => v = u
        /\ \A v \in Thread : loc[v].new # c
    BY <2>1, OutsideContext
  <2>3. c \in users[ctx[c].worker] /\ owner[c] = ctx[c].worker
    BY <2>1, <2>2 DEF IInv, Places, PlaceOK, Contexts, ContextOK
  <2>4. /\ n \in Context /\ owner[n] = Null /\ n \notin target
        /\ \A v \in Worker : n \notin users[v] /\ n \notin todo[v] /\ enum[v] # n
        /\ \A v \in Thread : /\ tlv[v] # n /\ loc[v].new # n
                             /\ Alive(v) => Self(v) # n
    BY <2>1, FreeContext
  <2> QED BY <2>1, <2>2, <2>3, <2>4
<1>2. /\ at' = [at EXCEPT ![u] = IF MayMeetSync2(phase[w]) THEN "lock" ELSE "store"]
      /\ on' = [on EXCEPT ![u] = w]
      /\ loc' = [loc EXCEPT ![u] = [new |-> n, phase |-> phase[w]]]
      /\ owner' = [owner EXCEPT ![n] = w]
      /\ target' = IF AllocatesTarget(phase[w]) THEN target \cup {n} ELSE target
      /\ UNCHANGED <<depth, open, tlv, ctx, mark, users, cur, act, todo, enum,
                      phase, sig, unsent, owing, gc_count, seen>>
  BY <1>0 DEF Allocate, Goto, worker, signal
<1>4. ASSUME NEW v \in Thread, v # u
      PROVE  Stays(v) /\ (Alive(v) => Self(v) # c /\ ctx'[Self(v)] = ctx[Self(v)])
  <2>1. /\ at'[v] = at[v] /\ on'[v] = on[v] /\ tlv'[v] = tlv[v]
        /\ depth'[v] = depth[v] /\ open'[v] = open[v] /\ loc'[v] = loc[v]
    BY <1>4, <1>2 DEF IInv, TypeOK
  <2>2. cur' = cur
    BY <1>2
  <2>3. Alive(v) => Self(v) # c /\ ctx'[Self(v)] = ctx[Self(v)]
    BY <1>4, <1>1, <1>2, OwnContext
  <2> QED BY <2>1, <2>2, <2>3, OtherThread
<1>5. /\ ~Inside(u)' /\ Alive(u)' /\ Entering(u)' /\ Moving(u)'
      /\ at'[u] = IF MayMeetSync2(phase[w]) THEN "lock" ELSE "store"
      /\ on'[u] = w /\ tlv'[u] = c /\ loc'[u].new = n /\ loc'[u].phase = phase[w]
      /\ open'[u] = open[u] /\ depth'[u] = depth[u] /\ Self(u)' = c
  BY <1>1, <1>2 DEF IInv, TypeOK, Self, Inside, Alive, Moving, Entering
<1>6. TypeOK'
  BY <1>1, <1>2 DEF IInv, TypeOK
<1>7. Signals'
  BY <1>2 DEF IInv, Signals
<1>8. Enumeration'
  BY <1>1, <1>2, NullAssumption DEF IInv, TypeOK, Enumeration
<1>9. Threads'
  <2>1. ASSUME NEW v \in Thread, v # u PROVE ThreadOK(v)'
    BY <2>1, <1>4, <1>1, <1>2, NullAssumption DEF Stays, Remains, IInv, Threads,
       ThreadOK
  <2>2. ThreadOK(u)'
    BY <1>5, <1>4, <1>2, <1>1, NullAssumption DEF Stays, Remains, IInv, Threads,
       ThreadOK, Inside, Entering, Moving
  <2> QED BY <2>1, <2>2 DEF Threads
<1>10. Places'
  <2>1. ASSUME NEW v \in Thread, v # u PROVE PlaceOK(v)'
    BY <2>1, <1>4, <1>2, OtherPlace
  <2>2. PlaceOK(u)'
    <3>1. phase[w] \in Phase
      BY DEF IInv, TypeOK
    <3>2. IF MayMeetSync2(phase[w]) THEN phase[w] \in {SYNC1, PRESYNC2, SYNC2}
          ELSE phase[w] \in {PREMARK, MARK, PREASYNC, ASYNC, PRESYNC1}
      BY <3>1 DEF MayMeetSync2, Phase, PREASYNC, ASYNC, PRESYNC1, SYNC1,
         PRESYNC2, SYNC2, PREMARK, MARK
    <3> QED
      BY <3>2, <1>1, <1>2, <1>5 DEF PlaceOK, SYNC1, PRESYNC2, SYNC2, PREMARK
  <2> QED BY <2>1, <2>2 DEF Places
<1>11. Contexts'
  <2>1. ASSUME NEW v \in Worker, NEW d \in users'[v] PROVE ContextOK(v, d)'
    <3>1. d \in Context /\ d # n /\ ContextOK(v, d)
      BY <1>1, <1>2 DEF IInv, TypeOK, Contexts
    <3>2. Held(d) => Held(d)'
      BY <1>1, <1>2, <1>4, <1>5 DEF Held, Stays, Remains
    <3>3. ASSUME ctx[d].worker = v
          PROVE  LET t == ctx[d].thread
                 IN  t \in Thread /\ Alive(t)' /\ at'[t] # "copy" /\ Self(t)' = d
      <4> DEFINE t == ctx[d].thread
      <4>1. t \in Thread /\ Alive(t) /\ at[t] # "copy" /\ Self(t) = d
        BY <3>1, <3>3 DEF ContextOK
      <4>2. CASE t = u
        BY <4>1, <4>2, <1>1, <1>2, <1>5
      <4>3. CASE t # u
        BY <4>1, <4>3, <1>2, <1>4 DEF Stays, Remains
      <4> QED BY <4>1, <4>2, <4>3
    <3> QED
      BY <3>1, <3>2, <3>3, <1>2 DEF IInv, TypeOK, ContextOK
  <2>2. \A d \in Context : owner'[d] = Null => d \notin target'
    BY <1>1, <1>2, NullAssumption DEF IInv, TypeOK, Contexts
  <2> QED BY <2>1, <2>2 DEF Contexts
<1>12. NewContexts'
  <2>1. ASSUME NEW v \in Thread, v # u PROVE NewOK(v)'
    BY <2>1, <1>4, <1>1, <1>2, NullAssumption DEF Stays, Remains, IInv, TypeOK,
       Threads, ThreadOK, NewContexts, NewOK
  <2>2. NewOK(u)'
    BY <1>1, <1>2, <1>5, NullAssumption DEF IInv, TypeOK, NewContexts, NewOK
  <2> QED BY <2>1, <2>2 DEF NewContexts
<1>13. Kept'
  BY <1>1, <1>2 DEF IInv, TypeOK, Kept
<1>14. Seen'
  <2>1. ASSUME NEW v \in Thread, v # u PROVE SeenOK(v)'
    BY <2>1, <1>4, <1>2 DEF Stays, Remains, IInv, Seen, SeenOK, Waiting
  <2>2. SeenOK(u)'
    BY <1>1, <1>2, <1>5 DEF IInv, Seen, SeenOK, Waiting, Moving
  <2> QED BY <2>1, <2>2 DEF Seen
<1> QED
  BY <1>6, <1>7, <1>8, <1>9, <1>10, <1>11, <1>12, <1>13, <1>14 DEF IInv

\* The new context takes the place of the old one.
LEMMA CopyStep ==
    ASSUME IInv, NEW u \in Thread, enter_copy(u)
    PROVE  IInv'
<1> DEFINE w == on[u]
           c == tlv[u]
           n == loc[u].new
<1>1. /\ at[u] = "copy" /\ Alive(u) /\ ~Inside(u)
      /\ Self(u) = c /\ c \in Context /\ owner[c] # Null
      /\ ctx[c].thread = u /\ ctx[c].worker \in Worker
      /\ ctx[c].stack = depth[u] /\ depth[u] \in 1 .. MaxDepth
      /\ \A v \in Thread : tlv[v] = c => v = u
      /\ \A v \in Thread : loc[v].new # c
      /\ Entering(u) /\ w \in Worker /\ act[w] # "sync2" /\ ctx[c].worker = w
      /\ n \in Context /\ owner[n] = w
      /\ \A v \in Worker : n \notin users[v] /\ n \notin todo[v] /\ enum[v] # n
      /\ \A v \in Thread : tlv[v] # n /\ (Alive(v) => Self(v) # n)
      /\ \A v \in Thread : v # u => loc[v].new # n /\ on[v] # w
      /\ \A v \in Worker : c \in users[v] => v # w
  <2>1. /\ at[u] = "copy" /\ Alive(u) /\ ~Inside(u) /\ Entering(u)
        /\ w \in Worker /\ act[w] # "sync2" /\ n \in Context
    BY DEF enter_copy, Alive, Inside, Entering, IInv, Threads, ThreadOK
  <2>2. /\ Self(u) = c /\ c \in Context /\ owner[c] # Null
        /\ ctx[c].thread = u /\ ctx[c].worker \in Worker
        /\ ctx[c].stack = depth[u] /\ depth[u] \in 1 .. MaxDepth
        /\ \A v \in Thread : tlv[v] = c => v = u
        /\ \A v \in Thread : loc[v].new # c
    BY <2>1, OutsideContext
  <2>3. /\ owner[n] = w /\ ctx[c].worker = w
        /\ \A v \in Worker : n \notin users[v]
        /\ \A v \in Thread : tlv[v] # n
    BY <2>1, <2>2 DEF IInv, Places, PlaceOK, NewContexts, NewOK
  <2>4. \A v \in Worker : n \notin todo[v] /\ enum[v] # n
    BY <2>1, <2>3, NullAssumption DEF IInv, Enumeration
  <2>5. \A v \in Thread : v # u => loc[v].new # n /\ on[v] # w
    BY <2>1, <2>3, NullAssumption DEF IInv, Threads, ThreadOK, NewContexts,
       NewOK
  <2>6. ASSUME NEW v \in Thread, Alive(v) PROVE Self(v) # n
    <3>1. CASE Inside(v)
      BY <2>3, <2>6, <3>1, OwnContext DEF IInv, Places, PlaceOK, Inside
    <3>2. CASE ~Inside(v)
      BY <2>3, <3>2 DEF Self
    <3> QED BY <3>1, <3>2
  <2>7. \A v \in Worker : c \in users[v] => v # w
    BY <2>1, <2>2, <2>3 DEF IInv, Contexts, ContextOK
  <2> QED BY <2>1, <2>2, <2>3, <2>4, <2>5, <2>6, <2>7
<1>2. /\ at' = [at EXCEPT ![u] = "ML"]
      /\ tlv' = [tlv EXCEPT ![u] = Null]
      /\ loc' = [loc EXCEPT ![u] = NoLoc]
      /\ cur' = [cur EXCEPT ![w] = n]
      /\ open' = [open EXCEPT ![u] = TRUE]
      /\ users' = [users EXCEPT ![w] = @ \cup {n}]
      /\ seen' = IF phase[w] \in {SYNC2, PREMARK, MARK} THEN seen ELSE seen \ {u}
      /\ UNCHANGED <<on, depth, owner, target, mark, act, todo, enum, phase,
                      sig, unsent, owing, gc_count>>
  BY DEF enter_copy, Goto, signal
<1>3. /\ ctx' \in [Context -> User]
      /\ \A d \in Context : d # n => ctx'[d] = ctx[d]
      /\ ctx'[n].worker = w /\ ~ctx'[n].busy /\ ctx'[n].thread = u
      /\ ctx'[n].stack = depth[u]
  <2>1. ctx' = [ctx EXCEPT ![n] = [worker |-> w, busy |-> FALSE,
                                   thread |-> u, stack |-> ctx[c].stack]]
    BY DEF enter_copy
  <2>2. ctx[c].stack \in 0 .. MaxDepth
    BY <1>1, BoundAssumption
  <2>3. ctx \in [Context -> User]
    BY DEF IInv, TypeOK, User
  <2> QED BY <2>1, <2>2, <2>3, <1>1 DEF User
<1>4. ASSUME NEW v \in Thread, v # u
      PROVE  Stays(v) /\ (Alive(v) => Self(v) # n /\ ctx'[Self(v)] = ctx[Self(v)])
  <2>1. /\ at'[v] = at[v] /\ on'[v] = on[v] /\ tlv'[v] = tlv[v]
        /\ depth'[v] = depth[v] /\ open'[v] = open[v] /\ loc'[v] = loc[v]
    BY <1>4, <1>2 DEF IInv, TypeOK
  <2>2. Inside(v) => cur'[on[v]] = cur[on[v]]
    BY <1>4, <1>1, <1>2, NullAssumption DEF IInv, TypeOK, Threads, ThreadOK
  <2>3. Alive(v) => Self(v) # n /\ ctx'[Self(v)] = ctx[Self(v)]
    BY <1>4, <1>1, <1>2, <1>3, OwnContext
  <2> QED BY <2>1, <2>2, <2>3, OtherThread
<1>5. /\ Inside(u)' /\ Alive(u)' /\ ~Entering(u)' /\ ~Moving(u)'
      /\ at'[u] = "ML"
      /\ on'[u] = w /\ tlv'[u] = Null /\ loc'[u] = NoLoc
      /\ open'[u] /\ depth'[u] = depth[u] /\ Self(u)' = n
  BY <1>1, <1>2, <1>3 DEF IInv, TypeOK, Self, Inside, Alive, Moving, Entering
<1>6. TypeOK'
  <2>1. loc' \in [Thread -> [new : Context \cup {Null}, phase : Phase]]
    BY <1>2 DEF IInv, TypeOK, NoLoc, Phase, ASYNC
  <2>2. seen' \subseteq Thread
    BY <1>2 DEF IInv, TypeOK
  <2> QED BY <2>1, <2>2, <1>1, <1>2, <1>3 DEF IInv, TypeOK, User
<1>7. Signals'
  BY <1>2 DEF IInv, Signals
<1>8. Enumeration'
  BY <1>1, <1>2, <1>3, NullAssumption DEF IInv, TypeOK, Enumeration
<1>9. Threads'
  <2>1. ASSUME NEW v \in Thread, v # u PROVE ThreadOK(v)'
    BY <2>1, <1>4, <1>1, <1>2, <1>3, NullAssumption DEF Stays, Remains, IInv,
       Threads, ThreadOK
  <2>2. ThreadOK(u)'
    BY <1>5, <1>4, <1>2, <1>1, NullAssumption DEF Stays, Remains, IInv, Threads,
       ThreadOK, NoLoc
  <2> QED BY <2>1, <2>2 DEF Threads
<1>10. Places'
  <2>1. ASSUME NEW v \in Thread, v # u PROVE PlaceOK(v)'
    BY <2>1, <1>4, <1>2, OtherPlace
  <2>2. PlaceOK(u)'
    BY <1>1, <1>2, <1>3, <1>5 DEF IInv, TypeOK, Places, PlaceOK
  <2> QED BY <2>1, <2>2 DEF Places
<1>11. Contexts'
  <2>1. ASSUME NEW v \in Worker, NEW d \in users'[v] PROVE ContextOK(v, d)'
    <3>1. d \in Context /\ (d # n => d \in users[v]) /\ (d = n => v = w)
      BY <1>1, <1>2 DEF IInv, TypeOK
    <3>2. CASE d = n
      BY <3>1, <3>2, <1>1, <1>2, <1>3, <1>5, NullAssumption DEF IInv, TypeOK,
         ContextOK
    <3>3. CASE d # n
      <4>1. ContextOK(v, d)
        BY <3>1, <3>3 DEF IInv, Contexts
      <4>2. ctx[d].worker = v => ctx[d].thread # u
        BY <4>1, <1>1 DEF ContextOK
      <4>3. Held(d) => Held(d)'
        BY <1>1, <1>2, <1>4, <1>5 DEF Held, Stays, Remains
      <4> QED
        BY <3>1, <3>3, <4>1, <4>2, <4>3, <1>2, <1>3, <1>4 DEF ContextOK, Stays,
           Remains
    <3> QED BY <3>2, <3>3
  <2>2. \A d \in Context : owner'[d] = Null => d \notin target'
    BY <1>2 DEF IInv, Contexts
  <2> QED BY <2>1, <2>2 DEF Contexts
<1>12. NewContexts'
  <2>1. ASSUME NEW v \in Thread, v # u PROVE NewOK(v)'
    BY <2>1, <1>4, <1>1, <1>2, <1>3, NullAssumption DEF Stays, Remains, IInv,
       TypeOK, Threads, ThreadOK, NewContexts, NewOK
  <2>2. NewOK(u)'
    BY <1>1, <1>2, <1>3, <1>5, NullAssumption DEF IInv, TypeOK, NewContexts,
       NewOK
  <2> QED BY <2>1, <2>2 DEF NewContexts
<1>13. Kept'
  <2>1. phase[w] \in {SYNC2, PREMARK, MARK, PREASYNC} => n \notin target'
    BY <1>1, <1>2 DEF IInv, NewContexts, NewOK, AllocatesTarget, PREASYNC,
       ASYNC, PRESYNC2, SYNC2, PREMARK, MARK
  <2>2. ASSUME NEW v \in Worker, NEW d \in users'[v] PROVE d \in users[v] \/ (d = n /\ v = w)
    BY <1>2 DEF IInv, TypeOK
  <2>3. ASSUME NEW v \in Thread, at'[v] = "copy" PROVE v # u
    BY <2>3, <1>5
  <2> QED BY <2>1, <2>2, <2>3, <1>1, <1>2, <1>4 DEF IInv, TypeOK, Kept, Stays,
     Remains
<1>14. Seen'
  <2>1. ASSUME NEW v \in Thread, v # u PROVE SeenOK(v)'
    BY <2>1, <1>4, <1>2 DEF Stays, Remains, IInv, Seen, SeenOK, Waiting
  <2>2. SeenOK(u)'
    <3>1. phase[w] \in {SYNC1, PRESYNC2, SYNC2} \/ sig # PRESYNC2
      BY <1>1 DEF IInv, Signals, Before, PREASYNC, SYNC1, PRESYNC2, SYNC2
    <3>2. phase[w] \in {SYNC2, PREMARK, MARK} \/ sig # PREMARK
      BY <1>1 DEF IInv, Signals, Before, PREASYNC, SYNC2, PREMARK, MARK
    <3>3. Waiting(u) => phase[w] \in {SYNC1, PRESYNC2}
      BY <1>1 DEF IInv, Enumeration, Waiting, Moving
    <3> QED
      BY <3>1, <3>2, <3>3, <1>1, <1>2, <1>3, <1>5 DEF IInv, Seen, SeenOK,
         Waiting, SYNC1, PRESYNC2, SYNC2, PREMARK, MARK
  <2> QED BY <2>1, <2>2 DEF Seen
<1> QED
  BY <1>6, <1>7, <1>8, <1>9, <1>10, <1>11, <1>12, <1>13, <1>14 DEF IInv

-----------------------------------------------------------------------------
(***************************************************************************)
(* The steps of the workers: change_phase and the four actions             *)
(***************************************************************************)

\* state | 1 on the four signals.
LEMMA AcceptSignal ==
    /\ Accept(PREASYNC) = ASYNC /\ Accept(PRESYNC1) = SYNC1
    /\ Accept(PRESYNC2) = SYNC2 /\ Accept(PREMARK) = MARK
  BY DEF Accept, PREASYNC, ASYNC, PRESYNC1, SYNC1, PRESYNC2, SYNC2, PREMARK,
     MARK

\* The types of what the end of an action changes.
LEMMA AnswerType ==
    ASSUME TypeOK, NEW w \in Worker, NEW p \in Phase, Answer(w, p)
    PROVE  /\ act' \in [Worker -> {"none", "send", "sync2"}]
           /\ sig' \in Phase /\ unsent' \subseteq Worker /\ owing' \subseteq Worker
<1>1. CASE owing = {w}
  BY <1>1 DEF TypeOK, Answer, Issue
<1>2. CASE owing # {w}
  BY <1>2 DEF TypeOK, Answer
<1> QED BY <1>1, <1>2

\* A collection is started.
LEMMA GcStep ==
    ASSUME IInv, NEW u \in Thread, sml_gc(u)
    PROVE  IInv'
<1> DEFINE w == on[u]
<1>1. act[w] = "none" /\ w \in Worker /\ sig = PREASYNC /\ owing = {} /\ gc_count < MaxGC
  BY DEF sml_gc, Running, IInv, Threads, ThreadOK, Inside
<1>2. /\ sig' = PRESYNC1
      /\ unsent' = Worker
      /\ owing' = Worker
      /\ act' = [act EXCEPT ![w] = "send"]
      /\ seen' = {}
      /\ UNCHANGED <<at, on, depth, open, tlv, loc, ctx, owner, target,
                    mark, users, cur, todo, enum, phase, gc_count>>
  BY DEF sml_gc, Issue, thread, heap
<1>4. \A v \in Thread : Remains(v)
  BY <1>2 DEF Remains, Self, Inside, Alive, Moving, Entering
<1>6. TypeOK'
  BY <1>1, <1>2 DEF IInv, TypeOK, Phase, PRESYNC1
<1>7. Signals'
  BY <1>1, <1>2, FiniteAssumption DEF IInv, TypeOK, Signals, Before, PREASYNC,
     ASYNC, PRESYNC1, SYNC1, PRESYNC2, SYNC2, PREMARK, MARK
<1>8. Enumeration'
  BY <1>1, <1>2, NullAssumption DEF IInv, TypeOK, Signals, Enumeration
<1>9. Threads'
  <2>1. ASSUME NEW v \in Thread PROVE ThreadOK(v)'
    BY <1>4, <1>1, <1>2, NullAssumption DEF Remains, IInv, TypeOK, Threads,
       ThreadOK
  <2> QED BY <2>1 DEF Threads
<1>10. Places'
  <2>1. ASSUME NEW v \in Thread PROVE PlaceOK(v)'
    BY <1>4, <1>1, <1>2 DEF Remains, IInv, TypeOK, Places, PlaceOK
  <2> QED BY <2>1 DEF Places
<1>11. Contexts'
  <2>1. ASSUME NEW v \in Worker, NEW d \in users'[v] PROVE ContextOK(v, d)'
    <3>1. ContextOK(v, d)
      BY <1>2 DEF IInv, Contexts
    <3>2. Held(d) => Held(d)'
      BY <1>2, <1>4 DEF Held, Remains
    <3> QED BY <3>1, <3>2, <1>2, <1>4 DEF ContextOK, Remains
  <2>2. \A d \in Context : owner'[d] = Null => d \notin target'
    BY <1>2 DEF IInv, Contexts
  <2> QED BY <2>1, <2>2 DEF Contexts
<1>12. NewContexts'
  <2>1. ASSUME NEW v \in Thread PROVE NewOK(v)'
    BY <1>4, <1>1, <1>2 DEF Remains, IInv, TypeOK, NewContexts, NewOK
  <2> QED BY <2>1 DEF NewContexts
<1>13. Kept'
  BY <1>4, <1>1, <1>2 DEF Remains, IInv, TypeOK, Kept
<1>14. Seen'
  <2>1. ASSUME NEW v \in Thread PROVE SeenOK(v)'
    BY <1>4, <1>1, <1>2 DEF Remains, IInv, TypeOK, Seen, SeenOK, Waiting,
       PRESYNC1, PRESYNC2, PREMARK
  <2> QED BY <2>1 DEF Seen
<1> QED
  BY <1>6, <1>7, <1>8, <1>9, <1>10, <1>11, <1>12, <1>13, <1>14 DEF IInv

\* change_phase signals one worker.
LEMMA SignalStep ==
    ASSUME IInv, NEW w \in Worker, change_phase(w)
    PROVE  IInv'
<1>0. PICK s \in unsent : change_phase(w)!(s)
  BY DEF change_phase
<1>1. /\ act[w] = "send" /\ s \in Worker /\ s \in owing /\ phase[s] = Before(sig)
      /\ act[s] # "sync2" /\ sig \in {PREASYNC, PRESYNC1, PRESYNC2, PREMARK}
  BY <1>0 DEF IInv, TypeOK, Signals
<1>2. /\ phase' = [phase EXCEPT ![s] = sig]
      /\ unsent' = unsent \ {s}
      /\ act' = IF unsent = {s} THEN [act EXCEPT ![w] = "none"] ELSE act
      /\ UNCHANGED <<at, on, depth, open, tlv, loc, ctx, owner, target,
                    mark, users, cur, todo, enum, sig, owing, gc_count,
                    seen>>
  BY <1>0 DEF thread, heap
<1>4. \A v \in Thread : Remains(v)
  BY <1>2 DEF Remains, Self, Inside, Alive, Moving, Entering
<1>6. TypeOK'
  BY <1>1, <1>2 DEF IInv, TypeOK
<1>7. Signals'
  BY <1>1, <1>2, FiniteAssumption DEF IInv, TypeOK, Signals, Before, PREASYNC,
     ASYNC, PRESYNC1, SYNC1, PRESYNC2, SYNC2, PREMARK, MARK
<1>8. Enumeration'
  BY <1>1, <1>2, NullAssumption DEF IInv, TypeOK, Signals, Enumeration
<1>9. Threads'
  <2>1. ASSUME NEW v \in Thread PROVE ThreadOK(v)'
    BY <1>4, <1>1, <1>2, NullAssumption DEF Remains, IInv, TypeOK, Threads,
       ThreadOK
  <2> QED BY <2>1 DEF Threads
<1>10. Places'
  <2>1. ASSUME NEW v \in Thread PROVE PlaceOK(v)'
    BY <1>4, <1>1, <1>2 DEF Remains, IInv, TypeOK, Places, PlaceOK, Before,
       Threads, ThreadOK, Entering, Moving, PREASYNC, ASYNC, PRESYNC1, SYNC1,
       PRESYNC2, SYNC2, PREMARK, MARK
  <2> QED BY <2>1 DEF Places
<1>11. Contexts'
  <2>1. ASSUME NEW v \in Worker, NEW d \in users'[v] PROVE ContextOK(v, d)'
    <3>1. ContextOK(v, d)
      BY <1>2 DEF IInv, Contexts
    <3>2. Held(d) => Held(d)'
      BY <1>2, <1>4 DEF Held, Remains
    <3> QED BY <3>1, <3>2, <1>2, <1>4 DEF ContextOK, Remains
  <2>2. \A d \in Context : owner'[d] = Null => d \notin target'
    BY <1>2 DEF IInv, Contexts
  <2> QED BY <2>1, <2>2 DEF Contexts
<1>12. NewContexts'
  <2>1. ASSUME NEW v \in Thread PROVE NewOK(v)'
    BY <1>4, <1>1, <1>2 DEF Remains, IInv, TypeOK, NewContexts, NewOK, Before,
       AllocatesTarget, Threads, ThreadOK, PREASYNC, ASYNC, PRESYNC1, SYNC1,
       PRESYNC2, SYNC2, PREMARK, MARK
  <2> QED BY <2>1 DEF NewContexts
<1>13. Kept'
  BY <1>4, <1>1, <1>2 DEF Remains, IInv, TypeOK, Kept, Before, Threads,
     ThreadOK, Entering, PREASYNC, ASYNC, PRESYNC1, SYNC1, PRESYNC2, SYNC2,
     PREMARK, MARK
<1>14. Seen'
  <2>1. ASSUME NEW v \in Thread PROVE SeenOK(v)'
    BY <1>4, <1>1, <1>2 DEF Remains, IInv, TypeOK, Seen, SeenOK, Waiting,
       Before,
       Threads, ThreadOK, Entering, PREASYNC, ASYNC, PRESYNC1, SYNC1, PRESYNC2,
       SYNC2, PREMARK, MARK
  <2> QED BY <2>1 DEF Seen
<1> QED
  BY <1>6, <1>7, <1>8, <1>9, <1>10, <1>11, <1>12, <1>13, <1>14 DEF IInv

\* worker_sync1.
LEMMA Sync1Step ==
    ASSUME IInv, NEW w \in Worker, worker_sync1(w)
    PROVE  IInv'
<1>1. /\ phase[w] = PRESYNC1 /\ act[w] = "none" /\ w \in owing /\ w \notin unsent /\ sig = PRESYNC1
      /\ \A u \in Thread : on[u] = w => Inside(u)
  <2>1. phase[w] = PRESYNC1 /\ act[w] = "none"
        /\ \A u \in Thread : on[u] = w => Inside(u)
    BY DEF worker_sync1, Accepts, Inside
  <2>2. w \in owing /\ w \notin unsent /\ sig = PRESYNC1
    BY <2>1 DEF IInv, Signals, Before, PREASYNC, ASYNC, PRESYNC1, SYNC1,
       PRESYNC2, SYNC2, PREMARK, MARK
  <2> QED BY <2>1, <2>2
<1>2. /\ phase' = [phase EXCEPT ![w] = SYNC1]
      /\ act' = [act EXCEPT ![w] = IF owing = {w} THEN "send" ELSE "none"]
      /\ sig' = IF owing = {w} THEN PRESYNC2 ELSE sig
      /\ unsent' = IF owing = {w} THEN Worker ELSE unsent
      /\ owing' = IF owing = {w} THEN Worker ELSE owing \ {w}
      /\ UNCHANGED <<at, on, depth, open, tlv, loc, ctx, owner, target,
                    mark, users, cur, todo, enum, gc_count, seen>>
  BY AcceptSignal DEF worker_sync1, Accepts, Answer, Issue, thread, heap
<1>4. \A v \in Thread : Remains(v)
  BY <1>2 DEF Remains, Self, Inside, Alive, Moving, Entering
<1>6. TypeOK'
  BY <1>1, <1>2 DEF IInv, TypeOK, Phase, PREASYNC, ASYNC, PRESYNC1, SYNC1,
     PRESYNC2, SYNC2, PREMARK, MARK
<1>7. Signals'
  BY <1>1, <1>2, FiniteAssumption DEF IInv, TypeOK, Signals, Before, PREASYNC,
     ASYNC, PRESYNC1, SYNC1, PRESYNC2, SYNC2, PREMARK, MARK
<1>8. Enumeration'
  BY <1>1, <1>2, NullAssumption DEF IInv, TypeOK, Signals, Enumeration
<1>9. Threads'
  <2>1. ASSUME NEW v \in Thread PROVE ThreadOK(v)'
    BY <1>4, <1>1, <1>2, NullAssumption DEF Remains, IInv, TypeOK, Threads,
       ThreadOK
  <2> QED BY <2>1 DEF Threads
<1>10. Places'
  <2>1. ASSUME NEW v \in Thread PROVE PlaceOK(v)'
    BY <1>4, <1>1, <1>2 DEF Remains, IInv, TypeOK, Places, PlaceOK, Threads,
       ThreadOK, Inside, Moving, PREASYNC, ASYNC, PRESYNC1, SYNC1, PRESYNC2,
       SYNC2, PREMARK, MARK
  <2> QED BY <2>1 DEF Places
<1>11. Contexts'
  <2>1. ASSUME NEW v \in Worker, NEW d \in users'[v] PROVE ContextOK(v, d)'
    <3>1. ContextOK(v, d)
      BY <1>2 DEF IInv, Contexts
    <3>2. Held(d) => Held(d)'
      BY <1>2, <1>4 DEF Held, Remains
    <3> QED BY <3>1, <3>2, <1>2, <1>4 DEF ContextOK, Remains
  <2>2. \A d \in Context : owner'[d] = Null => d \notin target'
    BY <1>2 DEF IInv, Contexts
  <2> QED BY <2>1, <2>2 DEF Contexts
<1>12. NewContexts'
  <2>1. ASSUME NEW v \in Thread PROVE NewOK(v)'
    BY <1>4, <1>1, <1>2 DEF Remains, IInv, TypeOK, NewContexts, NewOK,
       AllocatesTarget, Threads, ThreadOK, Inside, Entering, Moving, PREASYNC,
       ASYNC, PRESYNC1, SYNC1, PRESYNC2, SYNC2, PREMARK, MARK
  <2> QED BY <2>1 DEF NewContexts
<1>13. Kept'
  BY <1>4, <1>1, <1>2 DEF Remains, IInv, TypeOK, Kept, Threads, ThreadOK,
     Inside, PREASYNC, ASYNC, PRESYNC1, SYNC1, PRESYNC2, SYNC2, PREMARK, MARK
<1>14. Seen'
  <2>1. ASSUME NEW v \in Thread PROVE SeenOK(v)'
    <3>1. CASE owing = {w}
      <4>1. \A x \in Worker : phase'[x] = SYNC1
        BY <3>1, <1>1, <1>2 DEF IInv, TypeOK, Signals, PRESYNC1, SYNC1
      <4>2. Alive(v) => Waiting(v)'
        BY <4>1, <1>2, <1>4, OwnContext DEF Remains, Waiting
      <4>3. at[v] \in {"spin", "move"} => loc[v].phase # SYNC2
        BY <4>1, <1>4, <1>9, <1>10 DEF Remains, Threads, ThreadOK, Entering,
           Moving,
           Places, PlaceOK, SYNC1, SYNC2, PREMARK
      <4> QED BY <3>1, <4>2, <4>3, <1>2, <1>4 DEF Remains, SeenOK, PRESYNC2,
         PREMARK
    <3>2. CASE owing # {w}
      BY <3>2, <1>1, <1>2 DEF SeenOK, PRESYNC1, PRESYNC2, PREMARK
    <3> QED BY <3>1, <3>2
  <2> QED BY <2>1 DEF Seen
<1> QED
  BY <1>6, <1>7, <1>8, <1>9, <1>10, <1>11, <1>12, <1>13, <1>14 DEF IInv

\* The action of MARK.
LEMMA MarkStep ==
    ASSUME IInv, NEW w \in Worker, worker_mark(w)
    PROVE  IInv'
<1>1. /\ phase[w] = PREMARK /\ act[w] = "none" /\ w \in owing /\ w \notin unsent /\ sig = PREMARK
      /\ \A u \in Thread : on[u] = w => Inside(u)
  <2>1. phase[w] = PREMARK /\ act[w] = "none"
        /\ \A u \in Thread : on[u] = w => Inside(u)
    BY DEF worker_mark, Accepts, Inside
  <2>2. w \in owing /\ w \notin unsent /\ sig = PREMARK
    BY <2>1 DEF IInv, Signals, Before, PREASYNC, ASYNC, PRESYNC1, SYNC1,
       PRESYNC2, SYNC2, PREMARK, MARK
  <2> QED BY <2>1, <2>2
<1>2. /\ phase' = [phase EXCEPT ![w] = MARK]
      /\ act' = [act EXCEPT ![w] = IF owing = {w} THEN "send" ELSE "none"]
      /\ sig' = IF owing = {w} THEN PREASYNC ELSE sig
      /\ unsent' = IF owing = {w} THEN Worker ELSE unsent
      /\ owing' = IF owing = {w} THEN Worker ELSE owing \ {w}
      /\ UNCHANGED <<at, on, depth, open, tlv, loc, ctx, owner, target,
                    mark, users, cur, todo, enum, gc_count, seen>>
  BY AcceptSignal DEF worker_mark, Accepts, Answer, Issue, thread, heap
<1>4. \A v \in Thread : Remains(v)
  BY <1>2 DEF Remains, Self, Inside, Alive, Moving, Entering
<1>6. TypeOK'
  BY <1>1, <1>2 DEF IInv, TypeOK, Phase, PREASYNC, ASYNC, PRESYNC1, SYNC1,
     PRESYNC2, SYNC2, PREMARK, MARK
<1>7. Signals'
  BY <1>1, <1>2, FiniteAssumption DEF IInv, TypeOK, Signals, Before, PREASYNC,
     ASYNC, PRESYNC1, SYNC1, PRESYNC2, SYNC2, PREMARK, MARK
<1>8. Enumeration'
  BY <1>1, <1>2, NullAssumption DEF IInv, TypeOK, Signals, Enumeration
<1>9. Threads'
  <2>1. ASSUME NEW v \in Thread PROVE ThreadOK(v)'
    BY <1>4, <1>1, <1>2, NullAssumption DEF Remains, IInv, TypeOK, Threads,
       ThreadOK
  <2> QED BY <2>1 DEF Threads
<1>10. Places'
  <2>1. ASSUME NEW v \in Thread PROVE PlaceOK(v)'
    BY <1>4, <1>1, <1>2 DEF Remains, IInv, TypeOK, Places, PlaceOK, Threads,
       ThreadOK, Inside, Moving, PREASYNC, ASYNC, PRESYNC1, SYNC1, PRESYNC2,
       SYNC2, PREMARK, MARK
  <2> QED BY <2>1 DEF Places
<1>11. Contexts'
  <2>1. ASSUME NEW v \in Worker, NEW d \in users'[v] PROVE ContextOK(v, d)'
    <3>1. ContextOK(v, d)
      BY <1>2 DEF IInv, Contexts
    <3>2. Held(d) => Held(d)'
      BY <1>2, <1>4 DEF Held, Remains
    <3> QED BY <3>1, <3>2, <1>2, <1>4 DEF ContextOK, Remains
  <2>2. \A d \in Context : owner'[d] = Null => d \notin target'
    BY <1>2 DEF IInv, Contexts
  <2> QED BY <2>1, <2>2 DEF Contexts
<1>12. NewContexts'
  <2>1. ASSUME NEW v \in Thread PROVE NewOK(v)'
    BY <1>4, <1>1, <1>2 DEF Remains, IInv, TypeOK, NewContexts, NewOK,
       AllocatesTarget, Threads, ThreadOK, Inside, Entering, Moving, PREASYNC,
       ASYNC, PRESYNC1, SYNC1, PRESYNC2, SYNC2, PREMARK, MARK
  <2> QED BY <2>1 DEF NewContexts
<1>13. Kept'
  BY <1>4, <1>1, <1>2 DEF Remains, IInv, TypeOK, Kept, Threads, ThreadOK,
     Inside, PREASYNC, ASYNC, PRESYNC1, SYNC1, PRESYNC2, SYNC2, PREMARK, MARK
<1>14. Seen'
  <2>1. ASSUME NEW v \in Thread PROVE SeenOK(v)'
    BY <1>4, <1>1, <1>2 DEF Remains, IInv, TypeOK, Seen, SeenOK, Waiting,
       Before,
       Signals, Threads, ThreadOK, Inside, PREASYNC, ASYNC, PRESYNC1, SYNC1,
       PRESYNC2, SYNC2, PREMARK, MARK
  <2> QED BY <2>1 DEF Seen
<1> QED
  BY <1>6, <1>7, <1>8, <1>9, <1>10, <1>11, <1>12, <1>13, <1>14 DEF IInv

\* worker_sync2 begins: all users of the worker have to be enumerated.
LEMMA Sync2Step ==
    ASSUME IInv, NEW w \in Worker, worker_sync2(w)
    PROVE  IInv'
<1>1. /\ phase[w] = PRESYNC2 /\ act[w] = "none" /\ w \in owing /\ w \notin unsent
      /\ sig = PRESYNC2 /\ todo[w] = {} /\ enum[w] = Null
      /\ \A u \in Thread : on[u] = w => Inside(u)
  <2>1. /\ phase[w] = PRESYNC2 /\ act[w] = "none"
        /\ \A u \in Thread : on[u] = w => Inside(u)
    BY DEF worker_sync2, Accepts, Inside
  <2>2. w \in owing /\ w \notin unsent /\ sig = PRESYNC2
    BY <2>1 DEF IInv, Signals, Before, PREASYNC, ASYNC, PRESYNC1, SYNC1,
       PRESYNC2, SYNC2, PREMARK, MARK
  <2>3. todo[w] = {} /\ enum[w] = Null
    BY <2>1 DEF IInv, Enumeration
  <2> QED BY <2>1, <2>2, <2>3
<1>2. /\ phase' = [phase EXCEPT ![w] = SYNC2]
      /\ act' = [act EXCEPT ![w] = "sync2"]
      /\ todo' = [todo EXCEPT ![w] = users[w]]
      /\ open' = [u \in Thread |-> IF on[u] = w /\ at[u] = "ML" THEN FALSE ELSE open[u]]
      /\ UNCHANGED <<at, on, depth, tlv, loc, ctx, owner, target, mark,
                    users, cur, enum, sig, unsent, owing, gc_count, seen>>
  BY AcceptSignal DEF worker_sync2, Accepts, Poll, heap, signal
<1>4. \A v \in Thread : Remains(v)
  BY <1>2 DEF Remains, Self, Inside, Alive, Moving, Entering
<1>6. TypeOK'
  <2>1. open' \in [Thread -> BOOLEAN]
    BY <1>2 DEF IInv, TypeOK
  <2>2. /\ phase' \in [Worker -> Phase]
        /\ act' \in [Worker -> {"none", "send", "sync2"}]
        /\ todo' \in [Worker -> SUBSET Context]
    BY <1>2 DEF IInv, TypeOK, Phase, SYNC2
  <2>3. UNCHANGED <<at, on, depth, tlv, loc, ctx, owner, target, mark, users, cur,
                    enum, sig, unsent, owing, gc_count, seen>>
    BY <1>2
  <2> QED BY <2>1, <2>2, <2>3 DEF IInv, TypeOK
<1>7. Signals'
  BY <1>1, <1>2, FiniteAssumption DEF IInv, TypeOK, Signals, Before, PREASYNC,
     ASYNC, PRESYNC1, SYNC1, PRESYNC2, SYNC2, PREMARK, MARK
<1>8. Enumeration'
  BY <1>1, <1>2, NullAssumption DEF IInv, TypeOK, Signals, Enumeration
<1>9. Threads'
  <2>1. ASSUME NEW v \in Thread PROVE ThreadOK(v)'
    BY <1>4, <1>1, <1>2, NullAssumption DEF Remains, IInv, TypeOK, Threads,
       ThreadOK
  <2> QED BY <2>1 DEF Threads
<1>10. Places'
  <2>1. ASSUME NEW v \in Thread PROVE PlaceOK(v)'
    BY <1>4, <1>1, <1>2 DEF Remains, IInv, TypeOK, Places, PlaceOK, Threads,
       ThreadOK, Inside, Moving, PREASYNC, ASYNC, PRESYNC1, SYNC1, PRESYNC2,
       SYNC2, PREMARK, MARK
  <2> QED BY <2>1 DEF Places
<1>11. Contexts'
  <2>1. ASSUME NEW v \in Worker, NEW d \in users'[v] PROVE ContextOK(v, d)'
    <3>1. ContextOK(v, d)
      BY <1>2 DEF IInv, Contexts
    <3>2. Held(d) => Held(d)'
      BY <1>2, <1>4 DEF Held, Remains
    <3> QED BY <3>1, <3>2, <1>2, <1>4 DEF ContextOK, Remains
  <2>2. \A d \in Context : owner'[d] = Null => d \notin target'
    BY <1>2 DEF IInv, Contexts
  <2> QED BY <2>1, <2>2 DEF Contexts
<1>12. NewContexts'
  <2>1. ASSUME NEW v \in Thread PROVE NewOK(v)'
    BY <1>4, <1>1, <1>2 DEF Remains, IInv, TypeOK, NewContexts, NewOK,
       AllocatesTarget, Threads, ThreadOK, Inside, Entering, Moving, PREASYNC,
       ASYNC, PRESYNC1, SYNC1, PRESYNC2, SYNC2, PREMARK, MARK
  <2> QED BY <2>1 DEF NewContexts
<1>13. Kept'
  BY <1>4, <1>1, <1>2 DEF Remains, IInv, TypeOK, Kept, Threads, ThreadOK,
     Inside, PREASYNC, ASYNC, PRESYNC1, SYNC1, PRESYNC2, SYNC2, PREMARK, MARK
<1>14. Seen'
  <2>1. ASSUME NEW v \in Thread PROVE SeenOK(v)'
    <3>1. Waiting(v) /\ Alive(v) => Waiting(v)'
      <4> SUFFICES ASSUME Waiting(v), Alive(v) PROVE Waiting(v)'
        OBVIOUS
      <4> DEFINE x == ctx[Self(v)].worker
      <4>1. x \in Worker /\ (at[v] # "copy" => Self(v) \in users[x])
        BY OwnContext DEF IInv, Places, PlaceOK
      <4>2. on[v] # w \/ ~Moving(v)
        BY <1>1 DEF Moving, Inside
      <4>3. CASE x = w
        <5>1. at[v] # "copy"
          BY <4>3, <1>1 DEF IInv, Places, PlaceOK, Inside
        <5> QED BY <4>1, <4>3, <5>1, <1>2, <1>4 DEF IInv, TypeOK, Waiting,
           Remains
      <4>4. CASE x # w
        BY <4>1, <4>2, <4>4, <1>2, <1>4 DEF IInv, TypeOK, Waiting, Remains
      <4> QED BY <4>3, <4>4
    <3> QED BY <3>1, <1>2, <1>4 DEF Remains, IInv, Seen, SeenOK
  <2> QED BY <2>1 DEF Seen
<1> QED
  BY <1>6, <1>7, <1>8, <1>9, <1>10, <1>11, <1>12, <1>13, <1>14 DEF IInv

\* worker_sync2 locks a user: it is enumerated, or dropped if it has left.
LEMMA Sync2LockStep ==
    ASSUME IInv, NEW w \in Worker, sync2_lock(w)
    PROVE  IInv'
<1>0. PICK c \in todo[w] : sync2_lock(w)!(c)
  BY DEF sync2_lock
<1> DEFINE mine == ctx[c].worker = w
<1>1. /\ act[w] = "sync2" /\ enum[w] = Null /\ ~ctx[c].busy
      /\ c \in Context /\ c \in todo[w] /\ c \in users[w] /\ owner[c] = w
      /\ \A v \in Worker : enum[v] # c
      /\ \A v \in Worker : c \in users[v] => v = w
      /\ \A u \in Thread : tlv[u] = c => at[u] \notin {"enum", "move", "cancel"}
  <2>1. /\ act[w] = "sync2" /\ enum[w] = Null /\ ~ctx[c].busy
        /\ c \in Context /\ c \in todo[w] /\ c \in users[w]
    BY <1>0 DEF IInv, TypeOK, Enumeration
  <2>2. owner[c] = w /\ \A v \in Worker : c \in users[v] => v = w
    BY <2>1 DEF IInv, Contexts, ContextOK
  <2>3. \A v \in Worker : enum[v] # c
    BY <2>1, NullAssumption DEF IInv, Enumeration
  <2>4. \A u \in Thread : tlv[u] = c => at[u] \notin {"enum", "move", "cancel"}
    BY <2>1 DEF IInv, Places, PlaceOK
  <2> QED BY <2>1, <2>2, <2>3, <2>4
<1>2. /\ enum' = IF mine THEN [enum EXCEPT ![w] = c] ELSE enum
      /\ users' = IF mine THEN users ELSE [users EXCEPT ![w] = @ \ {c}]
      /\ todo' = IF mine THEN todo ELSE [todo EXCEPT ![w] = @ \ {c}]
      /\ UNCHANGED <<at, on, depth, open, tlv, loc, owner, target, mark,
                    cur, act, phase, sig, unsent, owing, gc_count, seen>>
  BY <1>0 DEF Belongs, thread, signal
<1>3. /\ ctx' \in [Context -> User]
      /\ \A d \in Context : d # c => ctx'[d] = ctx[d]
      /\ ctx'[c].worker = ctx[c].worker /\ ctx'[c].busy
      /\ ctx'[c].thread = ctx[c].thread /\ ctx'[c].stack = ctx[c].stack
  <2> DEFINE locked == [ctx[c] EXCEPT !.busy = TRUE]
  <2>1. ctx' = [ctx EXCEPT ![c] = locked]
    BY <1>0
  <2>2. ctx \in [Context -> User] /\ c \in Context
    BY <1>1 DEF IInv, TypeOK, User
  <2>3. /\ locked \in User /\ locked.worker = ctx[c].worker /\ locked.busy
        /\ locked.thread = ctx[c].thread /\ locked.stack = ctx[c].stack
    <3>1. ctx[c] \in User
      BY <2>2
    <3> QED BY <3>1 DEF User
  <2> HIDE DEF locked
  <2>4. ctx'[c] = locked /\ \A d \in Context : d # c => ctx'[d] = ctx[d]
    BY <2>1, <2>2
  <2>5. ctx' \in [Context -> User]
    BY <2>1, <2>2, <2>3
  <2> QED BY <2>3, <2>4, <2>5
<1>4. \A v \in Thread : Remains(v)
  BY <1>2 DEF Remains, Self, Inside, Alive, Moving, Entering
<1>6. TypeOK'
  BY <1>1, <1>2, <1>3 DEF IInv, TypeOK, User
<1>7. Signals'
  BY <1>2 DEF IInv, Signals
<1>8. Enumeration'
  BY <1>1, <1>2, <1>3, NullAssumption DEF IInv, TypeOK, Signals, Enumeration
<1>9. Threads'
  <2>1. ASSUME NEW v \in Thread PROVE ThreadOK(v)'
    BY <1>4, <1>1, <1>2, <1>3, NullAssumption DEF Remains, IInv, TypeOK,
       Threads,
       ThreadOK
  <2> QED BY <2>1 DEF Threads
<1>10. Places'
  <2>1. ASSUME NEW v \in Thread PROVE PlaceOK(v)'
    <3>1. PlaceOK(v)
      BY DEF IInv, Places
    <3>2. \A d \in Context : /\ ctx'[d].worker = ctx[d].worker /\ ctx'[d].thread = ctx[d].thread
                             /\ ctx'[d].stack = ctx[d].stack /\ (ctx[d].busy => ctx'[d].busy)
      BY <1>1, <1>3
    <3>3. Alive(v) /\ at[v] # "copy" => Self(v) \in users'[ctx[Self(v)].worker]
      BY <3>1, <1>1, <1>2 DEF PlaceOK, IInv, TypeOK
    <3>4. at[v] \in {"enum", "move", "cancel"} => \A x \in Worker : enum'[x] # tlv[v]
      BY <3>1, <1>1, <1>2 DEF PlaceOK, IInv, TypeOK
    <3>5. Moving(v) \/ at[v] \in {"cancel", "enum", "move"} => tlv[v] \in Context
      BY BetweenContext, OwnContext DEF Moving
    <3>6. Alive(v) => Self(v) \in Context
      BY OwnContext
    <3>7. Inside(v) \/ at[v] = "copy" => Alive(v)
      BY DEF Inside, Alive
    <3> QED
      BY <3>1, <3>2, <3>3, <3>4, <3>5, <3>6, <3>7, <1>2, <1>4 DEF PlaceOK,
         Remains
  <2> QED BY <2>1 DEF Places
<1>11. Contexts'
  <2>1. ASSUME NEW v \in Worker, NEW d \in users'[v] PROVE ContextOK(v, d)'
    <3>1. d \in Context /\ d \in users[v] /\ (d = c => mine)
      BY <1>1, <1>2 DEF IInv, TypeOK
    <3>2. ContextOK(v, d)
      BY <3>1 DEF IInv, Contexts
    <3>3. CASE d = c
      <4>1. Held(d)'
        BY <3>1, <3>3, <1>2 DEF Held, IInv, TypeOK
      <4> QED BY <3>1, <3>2, <3>3, <4>1, <1>2, <1>3, <1>4 DEF ContextOK, Remains
    <3>4. CASE d # c
      <4>1. Held(d) => Held(d)'
        BY <3>4, <1>1, <1>2, <1>4, NullAssumption DEF Held, Remains, IInv,
           TypeOK
      <4> QED BY <3>1, <3>2, <3>4, <4>1, <1>2, <1>3, <1>4 DEF ContextOK, Remains
    <3> QED BY <3>3, <3>4
  <2>2. \A d \in Context : owner'[d] = Null => d \notin target'
    BY <1>2 DEF IInv, Contexts
  <2> QED BY <2>1, <2>2 DEF Contexts
<1>12. NewContexts'
  <2>1. ASSUME NEW v \in Thread PROVE NewOK(v)'
    BY <1>4, <1>1, <1>2, <1>3 DEF Remains, IInv, TypeOK, NewContexts, NewOK
  <2> QED BY <2>1 DEF NewContexts
<1>13. Kept'
  <2>1. ASSUME NEW v \in Thread, at[v] = "copy"
        PROVE  phase[on[v]] \notin {MARK, PREASYNC, ASYNC, PRESYNC1}
    BY <2>1, <1>1 DEF IInv, Threads, ThreadOK, Entering, Signals, Before,
       PREASYNC,
       ASYNC, PRESYNC1, SYNC1, PRESYNC2, SYNC2, MARK
  <2>2. ASSUME NEW v \in Worker, NEW d \in users'[v]
        PROVE  d \in users[v] /\ (d \in todo[v] => d \in todo'[v])
    BY <1>1, <1>2 DEF IInv, TypeOK
  <2> QED BY <2>1, <2>2, <1>2 DEF IInv, Kept
<1>14. Seen'
  <2>1. ASSUME NEW v \in Thread PROVE SeenOK(v)'
    <3>1. \A d \in Context : ctx'[d].worker = ctx[d].worker
      BY <1>1, <1>3
    <3>2. Alive(v) => Self(v) \in Context /\ ctx[Self(v)].worker \in Worker
      BY OwnContext
    <3>3. Alive(v) /\ Waiting(v) => Waiting(v)' 
      BY <3>1, <3>2, <1>1, <1>2, <1>4 DEF Waiting, Remains, IInv, TypeOK
    <3>4. at[v] = "spin" => tlv[v] # Null
      BY BetweenContext, OwnContext, NullAssumption DEF Moving
    <3> QED
      BY <3>3, <3>4, <1>1, <1>2, <1>4 DEF Remains, IInv, TypeOK, Seen, SeenOK
  <2> QED BY <2>1 DEF Seen
<1> QED
  BY <1>6, <1>7, <1>8, <1>9, <1>10, <1>11, <1>12, <1>13, <1>14 DEF IInv

\* worker_sync2 enumerates the roots of a user and unlocks it.
LEMMA Sync2EnumStep ==
    ASSUME IInv, NEW w \in Worker, sync2_enum(w)
    PROVE  IInv'
<1> DEFINE c == enum[w]
           t == ctx[c].thread
<1>1. /\ c \in Context /\ c \in todo[w] /\ c \in users[w] /\ ctx[c].worker = w
      /\ act[w] = "sync2" /\ t \in Thread /\ Alive(t) /\ Self(t) = c /\ owner[c] = w
      /\ \A v \in Worker : enum[v] = c \/ c \in users[v] => v = w
      /\ \A u \in Thread : tlv[u] = c => u = t /\ at[u] \notin {"enum", "move", "cancel"}
  <2>1. /\ c \in Context /\ c \in todo[w] /\ c \in users[w] /\ ctx[c].worker = w
        /\ act[w] = "sync2"
    BY DEF sync2_enum, IInv, TypeOK, Enumeration
  <2>2. /\ t \in Thread /\ Alive(t) /\ Self(t) = c /\ owner[c] = w
        /\ \A v \in Worker : enum[v] = c \/ c \in users[v] => v = w
    BY <2>1, NullAssumption DEF IInv, Contexts, ContextOK, Enumeration
  <2>3. \A u \in Thread : tlv[u] = c => at[u] \notin {"enum", "move", "cancel"}
    BY <2>1 DEF IInv, Places, PlaceOK
  <2>4. \A u \in Thread : tlv[u] = c => u = t
    BY <2>1, <2>2, OwnContext, NullAssumption DEF IInv, Threads, ThreadOK, Self
  <2> QED BY <2>1, <2>2, <2>3, <2>4
<1>2. /\ mark' = mark \cup {c}
      /\ seen' = seen \cup {t}
      /\ todo' = [todo EXCEPT ![w] = @ \ {c}]
      /\ enum' = [enum EXCEPT ![w] = Null]
      /\ UNCHANGED <<at, on, depth, open, tlv, loc, owner, target, users,
                    cur, act, phase, sig, unsent, owing, gc_count>>
  BY DEF sync2_enum, Visited, thread, signal
<1>3. /\ ctx' \in [Context -> User]
      /\ \A d \in Context : d # c => ctx'[d] = ctx[d]
      /\ ctx'[c].worker = ctx[c].worker /\ ~ctx'[c].busy
      /\ ctx'[c].thread = ctx[c].thread /\ ctx'[c].stack = ctx[c].stack
  <2>1. ctx' = [ctx EXCEPT ![c].busy = FALSE]
    BY DEF sync2_enum
  <2>2. ctx \in [Context -> User]
    BY DEF IInv, TypeOK, User
  <2> QED BY <2>1, <2>2, <1>1 DEF User
<1>4. \A v \in Thread : Remains(v)
  BY <1>2 DEF Remains, Self, Inside, Alive, Moving, Entering
<1>6. TypeOK'
  BY <1>1, <1>2, <1>3 DEF IInv, TypeOK, User
<1>7. Signals'
  BY <1>2 DEF IInv, Signals
<1>8. Enumeration'
  BY <1>1, <1>2, <1>3, NullAssumption DEF IInv, TypeOK, Signals, Enumeration
<1>9. Threads'
  <2>1. ASSUME NEW v \in Thread PROVE ThreadOK(v)'
    BY <1>4, <1>1, <1>2, <1>3, NullAssumption DEF Remains, IInv, TypeOK,
       Threads,
       ThreadOK
  <2> QED BY <2>1 DEF Threads
<1>10. Places'
  <2>1. ASSUME NEW v \in Thread PROVE PlaceOK(v)'
    <3>1. PlaceOK(v)
      BY DEF IInv, Places
    <3>2. \A d \in Context : /\ ctx'[d].worker = ctx[d].worker /\ ctx'[d].thread = ctx[d].thread
                             /\ ctx'[d].stack = ctx[d].stack /\ (d # c => ctx'[d].busy = ctx[d].busy)
      BY <1>1, <1>3
    <3>3. Alive(v) /\ at[v] # "copy" => Self(v) \in users'[ctx[Self(v)].worker]
      BY <3>1, <1>1, <1>2 DEF PlaceOK, IInv, TypeOK
    <3>4. at[v] \in {"enum", "move", "cancel"} =>
              tlv[v] # c /\ tlv[v] # Null /\ \A x \in Worker : enum'[x] # tlv[v]
      BY <3>1, <1>1, <1>2, BetweenContext, OwnContext, NullAssumption
         DEF PlaceOK, IInv, TypeOK, Moving
    <3>5. Moving(v) \/ at[v] \in {"cancel", "enum", "move"} => tlv[v] \in Context
      BY BetweenContext, OwnContext DEF Moving
    <3>6. Alive(v) => Self(v) \in Context
      BY OwnContext
    <3>7. Inside(v) \/ at[v] = "copy" => Alive(v)
      BY DEF Inside, Alive
    <3> QED
      BY <3>1, <3>2, <3>3, <3>4, <3>5, <3>6, <3>7, <1>2, <1>4 DEF PlaceOK,
         Remains
  <2> QED BY <2>1 DEF Places
<1>11. Contexts'
  <2>1. ASSUME NEW v \in Worker, NEW d \in users'[v] PROVE ContextOK(v, d)'
    <3>1. d \in Context /\ ContextOK(v, d)
      BY <1>2 DEF IInv, TypeOK, Contexts
    <3>2. d # c /\ Held(d) => Held(d)'
      BY <1>1, <1>2, <1>4 DEF Held, Remains, IInv, TypeOK
    <3> QED BY <3>1, <3>2, <1>2, <1>3, <1>4 DEF ContextOK, Remains
  <2>2. \A d \in Context : owner'[d] = Null => d \notin target'
    BY <1>2 DEF IInv, Contexts
  <2> QED BY <2>1, <2>2 DEF Contexts
<1>12. NewContexts'
  <2>1. ASSUME NEW v \in Thread PROVE NewOK(v)'
    BY <1>4, <1>1, <1>2, <1>3 DEF Remains, IInv, TypeOK, NewContexts, NewOK
  <2> QED BY <2>1 DEF NewContexts
<1>13. Kept'
  BY <1>4, <1>1, <1>2, <1>3 DEF Remains, IInv, TypeOK, Kept
<1>14. Seen'
  <2>1. ASSUME NEW v \in Thread PROVE SeenOK(v)'
    <3>1. \A d \in Context : ctx'[d].worker = ctx[d].worker
      BY <1>1, <1>3
    <3>2. Alive(v) => Self(v) \in Context /\ ctx[Self(v)].worker \in Worker
      BY OwnContext
    <3>3. Alive(v) /\ Waiting(v) => Waiting(v)' \/ v = t
      BY <3>1, <3>2, <1>1, <1>2, <1>4, OwnContext DEF Waiting, Remains, IInv,
         TypeOK
    <3>4. at[v] = "spin" /\ tlv[v] = c => v = t
      BY <1>1
    <3> QED
      BY <3>3, <3>4, <1>1, <1>2, <1>4 DEF Remains, IInv, TypeOK, Seen, SeenOK
  <2> QED BY <2>1 DEF Seen
<1> QED
  BY <1>6, <1>7, <1>8, <1>9, <1>10, <1>11, <1>12, <1>13, <1>14 DEF IInv

\* worker_sync2 is done.
LEMMA Sync2EndStep ==
    ASSUME IInv, NEW w \in Worker, sync2_end(w)
    PROVE  IInv'
<1>1. /\ phase[w] = SYNC2 /\ act[w] = "sync2" /\ todo[w] = {} /\ enum[w] = Null
      /\ w \in owing /\ w \notin unsent /\ sig = PRESYNC2
      /\ \A u \in Thread : on[u] = w => Inside(u)
  BY NullAssumption DEF sync2_end, IInv, Signals, Enumeration, Threads, ThreadOK
<1>2. /\ act' = [act EXCEPT ![w] = IF owing = {w} THEN "send" ELSE "none"]
      /\ sig' = IF owing = {w} THEN PREMARK ELSE sig
      /\ unsent' = IF owing = {w} THEN Worker ELSE unsent
      /\ owing' = IF owing = {w} THEN Worker ELSE owing \ {w}
      /\ open' = [u \in Thread |-> IF on[u] = w /\ at[u] = "ML" THEN TRUE ELSE open[u]]
      /\ UNCHANGED <<at, on, depth, tlv, loc, ctx, owner, target, mark,
                    users, cur, todo, enum, phase, gc_count, seen>>
  BY DEF sync2_end, Answer, Issue, Poll, heap
<1>4. \A v \in Thread : Remains(v)
  BY <1>2 DEF Remains, Self, Inside, Alive, Moving, Entering
<1>6. TypeOK'
  <2>1. open' \in [Thread -> BOOLEAN]
    BY <1>2 DEF IInv, TypeOK
  <2>2. act' \in [Worker -> {"none", "send", "sync2"}]
    BY <1>2 DEF IInv, TypeOK
  <2>3. sig' \in Phase /\ unsent' \subseteq Worker /\ owing' \subseteq Worker
    BY <1>2 DEF IInv, TypeOK, Phase, PREMARK
  <2>4. UNCHANGED <<at, on, depth, tlv, loc, ctx, owner, target, mark, users, cur,
                    todo, enum, phase, gc_count, seen>>
    BY <1>2
  <2> QED BY <2>1, <2>2, <2>3, <2>4 DEF IInv, TypeOK
<1>7. Signals'
  BY <1>1, <1>2, FiniteAssumption DEF IInv, TypeOK, Signals, Before, PREASYNC,
     ASYNC, PRESYNC1, SYNC1, PRESYNC2, SYNC2, PREMARK, MARK
<1>8. Enumeration'
  BY <1>1, <1>2, NullAssumption DEF IInv, TypeOK, Signals, Enumeration
<1>9. Threads'
  <2>1. ASSUME NEW v \in Thread PROVE ThreadOK(v)'
    BY <1>4, <1>1, <1>2, NullAssumption DEF Remains, IInv, TypeOK, Threads,
       ThreadOK
  <2> QED BY <2>1 DEF Threads
<1>10. Places'
  <2>1. ASSUME NEW v \in Thread PROVE PlaceOK(v)'
    BY <1>4, <1>1, <1>2 DEF Remains, IInv, TypeOK, Places, PlaceOK, Threads,
       ThreadOK, Inside, Moving, PREASYNC, ASYNC, PRESYNC1, SYNC1, PRESYNC2,
       SYNC2, PREMARK, MARK
  <2> QED BY <2>1 DEF Places
<1>11. Contexts'
  <2>1. ASSUME NEW v \in Worker, NEW d \in users'[v] PROVE ContextOK(v, d)'
    <3>1. ContextOK(v, d)
      BY <1>2 DEF IInv, Contexts
    <3>2. Held(d) => Held(d)'
      BY <1>2, <1>4 DEF Held, Remains
    <3> QED BY <3>1, <3>2, <1>2, <1>4 DEF ContextOK, Remains
  <2>2. \A d \in Context : owner'[d] = Null => d \notin target'
    BY <1>2 DEF IInv, Contexts
  <2> QED BY <2>1, <2>2 DEF Contexts
<1>12. NewContexts'
  <2>1. ASSUME NEW v \in Thread PROVE NewOK(v)'
    BY <1>4, <1>1, <1>2 DEF Remains, IInv, TypeOK, NewContexts, NewOK,
       AllocatesTarget, Threads, ThreadOK, Inside, Entering, Moving, PREASYNC,
       ASYNC, PRESYNC1, SYNC1, PRESYNC2, SYNC2, PREMARK, MARK
  <2> QED BY <2>1 DEF NewContexts
<1>13. Kept'
  BY <1>4, <1>1, <1>2 DEF Remains, IInv, TypeOK, Kept, Threads, ThreadOK,
     Inside, PREASYNC, ASYNC, PRESYNC1, SYNC1, PRESYNC2, SYNC2, PREMARK, MARK
<1>14. Seen'
  <2>1. ASSUME NEW v \in Thread PROVE SeenOK(v)'
    <3>1. CASE owing = {w}
      <4>1. \A x \in Worker : phase[x] = SYNC2
        BY <3>1, <1>1 DEF IInv, Signals, PRESYNC2, SYNC2
      <4>2. \A x \in Worker : todo[x] = {}
        BY <3>1, <1>1 DEF IInv, Signals, Enumeration
      <4>3. Alive(v) => ~Waiting(v)
        BY <4>1, <4>2, OwnContext DEF IInv, Threads, ThreadOK, Waiting,
           Entering, SYNC1, PRESYNC2, SYNC2
      <4> QED BY <3>1, <4>3, <1>1, <1>2, <1>4 DEF Remains, IInv, Seen, SeenOK,
         PRESYNC2, PREMARK
    <3>2. CASE owing # {w}
      BY <3>2, <1>1, <1>2, <1>4 DEF Remains, IInv, Seen, SeenOK, Waiting
    <3> QED BY <3>1, <3>2
  <2> QED BY <2>1 DEF Seen
<1> QED
  BY <1>6, <1>7, <1>8, <1>9, <1>10, <1>11, <1>12, <1>13, <1>14 DEF IInv

\* worker_async: the allocator of the worker releases what is not marked.
LEMMA AsyncStep ==
    ASSUME IInv, NEW w \in Worker, worker_async(w)
    PROVE  IInv'
<1> DEFINE garbage == {c \in target : owner[c] = w /\ c \notin mark}
           own == {c \in Context : owner[c] = w}
<1>1. /\ phase[w] = PREASYNC /\ act[w] = "none" /\ w \in owing /\ w \notin unsent
      /\ sig = PREASYNC /\ \A u \in Thread : on[u] = w => Inside(u)
      /\ \A v \in Worker : enum[v] = Null /\ users[v] \cap garbage = {}
      /\ \A v \in Worker : v # w => users[v] \cap own = {}
      /\ \A u \in Thread : Alive(u) => Self(u) \notin garbage
      /\ \A u \in Thread : tlv[u] # Null => tlv[u] \notin garbage
      /\ \A u \in Thread : Entering(u) => loc[u].new \notin own
  <2>1. /\ phase[w] = PREASYNC /\ act[w] = "none"
        /\ \A u \in Thread : on[u] = w => Inside(u)
    BY DEF worker_async, Accepts, Inside
  <2>2. w \in owing /\ w \notin unsent /\ sig = PREASYNC
    BY <2>1 DEF IInv, Signals, Before, PREASYNC, ASYNC, PRESYNC1, SYNC1,
       PRESYNC2, SYNC2, PREMARK, MARK
  <2>3. \A v \in Worker : enum[v] = Null /\ todo[v] = {}
    BY <2>2 DEF IInv, Signals, Enumeration, PREASYNC, PRESYNC2
  <2>4. /\ \A v \in Worker : users[v] \cap garbage = {}
        /\ \A v \in Worker : v # w => users[v] \cap own = {}
    BY <2>1, <2>3 DEF IInv, Kept, Contexts, ContextOK
  <2>5. ASSUME NEW u \in Thread, at[u] = "copy" PROVE tlv[u] \notin garbage
    <3>1. on[u] \in Worker /\ phase[on[u]] \in {MARK, PREASYNC, ASYNC}
      BY <2>2, <2>5 DEF IInv, Threads, ThreadOK, Entering, Signals, Before,
         PREASYNC, ASYNC, PRESYNC1, SYNC1, PRESYNC2, SYNC2, PREMARK, MARK
    <3> QED BY <3>1, <2>4, <2>5 DEF IInv, Kept
  <2>6. ASSUME NEW u \in Thread, Alive(u) PROVE Self(u) \notin garbage
    <3>1. CASE at[u] = "copy"
      BY <3>1, <2>5 DEF Self, Inside
    <3>2. CASE at[u] # "copy"
      BY <3>2, <2>4, <2>6 DEF IInv, Places, PlaceOK
    <3> QED BY <3>1, <3>2
  <2>7. \A u \in Thread : tlv[u] # Null => tlv[u] \notin garbage
    BY <2>6 DEF IInv, Threads, ThreadOK, Self
  <2>8. \A u \in Thread : Entering(u) => loc[u].new \notin own
    BY <2>1 DEF IInv, Threads, ThreadOK, NewContexts, NewOK, Entering, Moving,
       Inside
  <2> QED BY <2>1, <2>2, <2>3, <2>4, <2>6, <2>7, <2>8
<1>2. /\ phase' = [phase EXCEPT ![w] = ASYNC]
      /\ owner' = [c \in Context |-> IF c \in garbage THEN Null ELSE owner[c]]
      /\ target' = (target \cup own) \ garbage
      /\ mark' = mark \ own
      /\ owing' = owing \ {w}
      /\ gc_count' = IF owing = {w} THEN gc_count + 1 ELSE gc_count
      /\ UNCHANGED <<at, on, depth, open, tlv, loc, users, cur, act, todo,
                    enum, sig, unsent, seen>>
  BY AcceptSignal DEF worker_async, Accepts, thread
<1>3. /\ ctx' \in [Context -> User]
      /\ \A c \in Context : c \notin garbage => ctx'[c] = ctx[c]
  <2>1. ctx' = [c \in Context |-> IF c \in garbage THEN NoUser ELSE ctx[c]]
    BY DEF worker_async
  <2>2. NoUser \in User
    BY BoundAssumption DEF NoUser, User
  <2>3. ctx \in [Context -> User]
    BY DEF IInv, TypeOK, User
  <2> QED BY <2>1, <2>2, <2>3
<1>4. \A v \in Thread : Remains(v)
  BY <1>2 DEF Remains, Self, Inside, Alive, Moving, Entering
<1>6. TypeOK'
  <2>1. gc_count' \in 0 .. MaxGC
    BY <1>1, <1>2, BoundAssumption DEF IInv, TypeOK, Signals
  <2>2. /\ phase' \in [Worker -> Phase] /\ owner' \in [Context -> Worker \cup {Null}]
        /\ target' \subseteq Context /\ mark' \subseteq Context /\ owing' \subseteq Worker
    BY <1>2 DEF IInv, TypeOK, Phase, ASYNC
  <2> QED BY <2>1, <2>2, <1>2, <1>3 DEF IInv, TypeOK, User
<1>7. Signals'
  BY <1>1, <1>2, <1>3, FiniteAssumption DEF IInv, TypeOK, Signals, Before,
     PREASYNC, ASYNC, PRESYNC1, SYNC1, PRESYNC2, SYNC2, PREMARK, MARK
<1>8. Enumeration'
  BY <1>1, <1>2, <1>3, NullAssumption DEF IInv, TypeOK, Signals, Enumeration
<1>9. Threads'
  <2>1. ASSUME NEW v \in Thread PROVE ThreadOK(v)'
    BY <1>4, <1>1, <1>2, <1>3, NullAssumption DEF Remains, IInv, TypeOK,
       Threads,
       ThreadOK
  <2> QED BY <2>1 DEF Threads
<1>10. Places'
  <2>1. ASSUME NEW v \in Thread PROVE PlaceOK(v)'
    <3>1. PlaceOK(v)
      BY DEF IInv, Places
    <3>2. Alive(v) => Self(v) \in Context /\ ctx'[Self(v)] = ctx[Self(v)]
      BY <1>1, <1>3, OwnContext
    <3>3. Moving(v) \/ at[v] = "cancel" => ctx'[tlv[v]] = ctx[tlv[v]]
      BY <3>2, BetweenContext
    <3>4. at[v] \in {"lock", "spin", "enum", "move", "store"} =>
              Moving(v) /\ phase'[on[v]] = phase[on[v]]
      BY <1>1, <1>2 DEF IInv, TypeOK, Moving, Inside
    <3>5. Inside(v) \/ at[v] = "copy" => Alive(v)
      BY DEF Inside, Alive
    <3> QED BY <3>1, <3>2, <3>3, <3>4, <3>5, <1>2, <1>4 DEF PlaceOK, Remains
  <2> QED BY <2>1 DEF Places
<1>11. Contexts'
  <2>1. ASSUME NEW v \in Worker, NEW d \in users'[v] PROVE ContextOK(v, d)'
    <3>1. d \in Context /\ d \notin garbage /\ ContextOK(v, d)
      BY <1>1, <1>2 DEF IInv, TypeOK, Contexts
    <3>2. Held(d) => Held(d)'
      BY <1>2, <1>4 DEF Held, Remains
    <3> QED BY <3>1, <3>2, <1>2, <1>3, <1>4 DEF ContextOK, Remains
  <2>2. \A d \in Context : owner'[d] = Null => d \notin target'
    BY <1>2, NullAssumption DEF IInv, TypeOK, Contexts
  <2> QED BY <2>1, <2>2 DEF Contexts
<1>12. NewContexts'
  <2>1. ASSUME NEW v \in Thread PROVE NewOK(v)'
    <3>1. NewOK(v)
      BY DEF IInv, NewContexts
    <3>2. tlv[v] # Null => owner'[tlv[v]] # Null
      BY <3>1, <1>1, <1>2 DEF NewOK, IInv, TypeOK
    <3>3. ASSUME Entering(v)
          PROVE  /\ owner'[loc[v].new] = owner[loc[v].new]
                 /\ phase'[on[v]] = phase[on[v]]
                 /\ loc[v].new \notin target => loc[v].new \notin target'
      BY <3>3, <1>1, <1>2 DEF IInv, TypeOK, Threads, ThreadOK, Entering, Moving,
         Inside
    <3> QED BY <3>1, <3>2, <3>3, <1>2, <1>4 DEF NewOK, Remains, AllocatesTarget
  <2> QED BY <2>1 DEF NewContexts
<1>13. Kept'
  <2>1. ASSUME NEW v \in Worker, NEW d \in users[v],
               phase'[v] \in {SYNC2, PREMARK, MARK, PREASYNC}
        PROVE  d \in mark' \/ d \notin target' \/ d \in todo[v]
    <3>1. v # w
      BY <2>1, <1>2 DEF IInv, TypeOK, PREASYNC, ASYNC, PRESYNC1, SYNC1,
         PRESYNC2, SYNC2, PREMARK, MARK
    <3>2. d \notin own /\ phase'[v] = phase[v]
      BY <3>1, <1>1, <1>2 DEF IInv, TypeOK
    <3> QED BY <2>1, <3>2, <1>2 DEF IInv, Kept
  <2>2. ASSUME NEW v \in Thread, at[v] = "copy",
               phase'[on[v]] \in {MARK, PREASYNC, ASYNC, PRESYNC1}
        PROVE  tlv[v] \in users[owner'[tlv[v]]]
    <3>1. on[v] # w /\ on[v] \in Worker /\ tlv[v] \in Context /\ tlv[v] \notin garbage
      BY <2>2, <1>1, BetweenContext, OwnContext DEF IInv, Threads, ThreadOK,
         Entering, Inside
    <3>2. phase'[on[v]] = phase[on[v]] /\ owner'[tlv[v]] = owner[tlv[v]]
      BY <3>1, <1>2 DEF IInv, TypeOK
    <3> QED BY <2>2, <3>2 DEF IInv, Kept
  <2> QED BY <2>1, <2>2, <1>2, <1>4 DEF Kept, Remains
<1>14. Seen'
  <2>1. ASSUME NEW v \in Thread PROVE SeenOK(v)'
    BY <1>1, <1>2 DEF SeenOK, PREASYNC, PRESYNC2, PREMARK
  <2> QED BY <2>1 DEF Seen
<1> QED
  BY <1>6, <1>7, <1>8, <1>9, <1>10, <1>11, <1>12, <1>13, <1>14 DEF IInv

-----------------------------------------------------------------------------
\* The invariant holds before any thread has started.
LEMMA InitInvariant == Init => IInv
<1> SUFFICES ASSUME Init PROVE IInv
  OBVIOUS
<1>1. \A u \in Thread : /\ at[u] = "none" /\ ~Alive(u) /\ ~Inside(u)
                        /\ ~Moving(u) /\ ~Entering(u)
                        /\ on[u] = Null /\ tlv[u] = Null /\ depth[u] = 0 /\ ~open[u]
                        /\ loc[u].new = Null
  BY DEF Init, NoLoc, Alive, Inside, Moving, Entering
<1>2. \A w \in Worker : /\ users[w] = {} /\ todo[w] = {} /\ enum[w] = Null
                        /\ act[w] = "none" /\ phase[w] = ASYNC
  BY DEF Init
<1>3. TypeOK
  <2>1. /\ NoUser \in User
        /\ NoLoc \in [new : Context \cup {Null}, phase : Phase]
    BY BoundAssumption DEF NoUser, User, NoLoc, Phase, ASYNC
  <2> QED BY <2>1, BoundAssumption DEF Init, TypeOK, User, Phase, PREASYNC,
     ASYNC
<1>4. Signals
  BY <1>2 DEF Init, Signals, PREASYNC, ASYNC
<1>5. Enumeration
  BY <1>2 DEF Enumeration
<1>6. Threads
  BY <1>1, NullAssumption DEF Threads, ThreadOK
<1>7. Places
  BY <1>1 DEF Places, PlaceOK
<1>8. Contexts
  BY <1>2 DEF Contexts, Init
<1>9. NewContexts
  BY <1>1 DEF NewContexts, NewOK
<1>10. Kept
  BY <1>1, <1>2 DEF Kept
<1>11. Seen
  BY <1>1 DEF Seen, SeenOK
<1> QED BY <1>3, <1>4, <1>5, <1>6, <1>7, <1>8, <1>9, <1>10, <1>11 DEF IInv

\* Nothing happens.
LEMMA StutterStep ==
    ASSUME IInv, UNCHANGED vars
    PROVE  IInv'
<1>1. UNCHANGED <<at, on, depth, open, tlv, loc, ctx, owner, target, mark, users, cur,
                  act, todo, enum, phase, sig, unsent, owing, gc_count, seen>>
  BY DEF vars, thread, heap, worker, signal
<1>2. \A v \in Thread : Stays(v)
  BY <1>1 DEF Stays, Remains, Self, Inside, Alive, Moving, Entering
<1>3. TypeOK' /\ Signals' /\ Enumeration'
  BY <1>1 DEF IInv, TypeOK, Signals, Enumeration
<1>4. Threads' /\ Places'
  BY <1>1, <1>2 DEF IInv, Threads, ThreadOK, Places, PlaceOK, Stays, Remains
<1>5. Contexts'
  <2>1. \A c \in Context : Held(c) => Held(c)'
    BY <1>1 DEF Held
  <2>2. \A u \in Thread : Alive(u) => Alive(u)' /\ Self(u)' = Self(u)
    BY <1>2 DEF Stays, Remains
  <2> QED BY <1>1, <2>1, <2>2 DEF IInv, TypeOK, Contexts, ContextOK
<1>6. NewContexts'
  BY <1>1, <1>2 DEF IInv, NewContexts, NewOK, Stays, Remains, AllocatesTarget
<1>7. Kept' /\ Seen'
  BY <1>1, <1>2 DEF IInv, Kept, Seen, SeenOK, Waiting, Stays, Remains
<1> QED BY <1>3, <1>4, <1>5, <1>6, <1>7 DEF IInv

\* Every step of the threads and of the workers keeps the invariant.
LEMMA NextInvariant ==
    ASSUME ~StolenCallback, IInv, [Next]_vars
    PROVE  IInv'
<1>1. ASSUME NEW u \in Thread, Choose(u) PROVE IInv'
  BY <1>1, StartStep, CallbackStep, EnterSameStep, StolenStep, EndStep,
     LeaveStep,
     SaveStep, CancelStep, GcStep DEF Choose
<1>2. ASSUME NEW u \in Thread, Proceed(u) PROVE IInv'
  BY <1>2, LockStep, SpinStep, EnumStep, MoveStep, StoreStep, CopyStep,
     CancelEndStep
     DEF Proceed
<1>3. ASSUME NEW w \in Worker, Collect(w) PROVE IInv'
  BY <1>3, SignalStep, Sync1Step, Sync2Step, Sync2LockStep, Sync2EnumStep,
     Sync2EndStep,
     MarkStep, AsyncStep DEF Collect
<1> QED BY <1>1, <1>2, <1>3, UnsaveStep, StutterStep DEF Next

-----------------------------------------------------------------------------
\* Whatever the threads, workers and contexts are, and however the threads are
\* stolen between workers, the invariant holds as long as no callback is made by a
\* thread that was stolen.
THEOREM UserRootsInvariant == ~StolenCallback => (Spec => []IInv)
<1> SUFFICES ASSUME ~StolenCallback PROVE Spec => []IInv
  OBVIOUS
<1>1. IInv /\ [Next]_vars => IInv'
  BY NextInvariant
<1> QED BY <1>1, InitInvariant, PTL DEF Spec

\* The variables have their types: depth of callbacks and collections stay
\* within their bounds and no pointer is wild.
THEOREM UserRootsTypes == ~StolenCallback => (Spec => []TypeOK)
<1>1. IInv => TypeOK
  BY DEF IInv
<1> QED BY <1>1, UserRootsInvariant, PTL

\* What somebody enumerates is locked, and belongs to a thread with closed ranges.
LEMMA LockedContext ==
    ASSUME IInv, NEW c \in Context, NEW u \in Thread,
           ctx[c].busy, Alive(u), Self(u) = c, ctx[c].thread = u, ~open[u]
    PROVE  LET t == ctx[c].thread
           IN  /\ ctx[c].busy /\ t # Null /\ at[t] # "dead"
               /\ ctx[c].stack = depth[t] /\ depth[t] > 0 /\ ~open[t]
  BY OwnContext, NullAssumption DEF Alive, IInv, Threads, ThreadOK

\* worker_sync2 and sml_enter_internal enumerate a context only under its lock,
\* one at a time, and what they find are the closed ranges of a thread that exists.
THEOREM EnumerationSafe == ~StolenCallback => (Spec => []EnumSafe)
<1>1. ASSUME IInv PROVE EnumSafe
  <2>1. ASSUME NEW w \in Worker, enum[w] # Null
        PROVE  /\ enum[w] \in Context /\ ctx[enum[w]].busy /\ ctx[enum[w]].worker = w
               /\ \E u \in Thread : /\ Alive(u) /\ Self(u) = enum[w]
                                     /\ ctx[enum[w]].thread = u /\ ~open[u]
    <3> DEFINE c == enum[w]
               u == ctx[c].thread
    <3>1. /\ c \in Context /\ c \in users[w] /\ ctx[c].busy /\ ctx[c].worker = w
          /\ act[w] = "sync2"
      BY <1>1, <2>1 DEF IInv, TypeOK, Enumeration
    <3>2. u \in Thread /\ Alive(u) /\ Self(u) = c
      BY <1>1, <3>1 DEF IInv, Contexts, ContextOK
    <3>3. ~open[u]
      BY <1>1, <3>1, <3>2 DEF IInv, Threads, ThreadOK, Places, PlaceOK, Inside
    <3> QED BY <3>1, <3>2, <3>3
  <2>2. ASSUME NEW u \in Thread, at[u] = "enum"
        PROVE  /\ tlv[u] \in Context /\ ctx[tlv[u]].busy /\ Alive(u) /\ Self(u) = tlv[u]
               /\ ctx[tlv[u]].thread = u /\ ~open[u]
               /\ \A w \in Worker : enum[w] # tlv[u]
    BY <1>1, <2>2, BetweenContext, OwnContext DEF IInv, Threads, ThreadOK,
       Places, PlaceOK, Moving
  <2>3. ASSUME NEW c \in Enumerated
        PROVE  LET u == ctx[c].thread
               IN  /\ ctx[c].busy /\ u # Null /\ at[u] # "dead"
                   /\ ctx[c].stack = depth[u] /\ depth[u] > 0 /\ ~open[u]
    <3>1. CASE \E w \in Worker : c = enum[w] /\ c # Null
      BY <1>1, <3>1, <2>1, LockedContext
    <3>2. CASE \E u \in Thread : at[u] = "enum" /\ c = tlv[u]
      BY <1>1, <3>2, <2>2, LockedContext
    <3> QED BY <3>1, <3>2 DEF Enumerated
  <2> QED BY <2>1, <2>2, <2>3 DEF EnumSafe
<1> QED BY <1>1, UserRootsInvariant, PTL

\* When MARK is issued, every thread has been enumerated since it last ran on a
\* worker that had not answered SYNC2, wherever it was stolen to meanwhile.
THEOREM AllRootsEnumerated == ~StolenCallback => (Spec => []RootsEnumerated)
<1>1. IInv => RootsEnumerated
  BY DEF IInv, Seen, SeenOK, Alive, RootsEnumerated
<1> QED BY <1>1, UserRootsInvariant, PTL

\* No collection releases a context that a thread or a list refers to.
THEOREM ContextsKept == ~StolenCallback => (Spec => []ContextKept)
<1>1. ASSUME IInv PROVE ContextKept
  <2>1. ASSUME NEW w \in Worker, NEW c \in users[w] PROVE owner[c] # Null
    BY <1>1, <2>1, NullAssumption DEF IInv, Contexts, ContextOK
  <2>2. ASSUME NEW u \in Thread, tlv[u] # Null PROVE owner[tlv[u]] # Null
    BY <1>1, <2>2 DEF IInv, NewContexts, NewOK
  <2>3. ASSUME NEW u \in Thread, loc[u].new # Null PROVE owner[loc[u].new] # Null
    BY <1>1, <2>3, NullAssumption DEF IInv, NewContexts, NewOK, Threads,
       ThreadOK
  <2>4. ASSUME NEW u \in Thread, Inside(u) PROVE owner[cur[on[u]]] # Null
    BY <1>1, <2>1, <2>4 DEF IInv, Places, PlaceOK, Inside, Alive, Self
  <2> QED BY <2>1, <2>2, <2>3, <2>4 DEF ContextKept, Referenced, Inside
<1> QED BY <1>1, UserRootsInvariant, PTL

\* A thread or a worker never waits for a BUSY_FLAG that nobody will clear: the
\* flag that worker_sync2 leaves set is that of a context nobody wants any more.
THEOREM LocksReleased == ~StolenCallback => (Spec => []LockReleased)
<1>1. ASSUME IInv PROVE LockReleased
  <2>1. ASSUME NEW u \in Thread, at[u] \in {"C", "lock", "spin"}
        PROVE  \E w \in Worker : tlv[u] \in users[w]
    BY <1>1, <2>1 DEF IInv, Places, PlaceOK, Alive, Inside, Self
  <2>2. \A w \in Worker : todo[w] \subseteq users[w]
    BY <1>1 DEF IInv, Enumeration
  <2>3. \A w \in Worker : \A c \in users[w] : ctx[c].busy => Held(c)
    BY <1>1 DEF IInv, Contexts, ContextOK
  <2> QED BY <2>1, <2>2, <2>3 DEF LockReleased, Held
<1> QED BY <1>1, UserRootsInvariant, PTL


=============================================================================
