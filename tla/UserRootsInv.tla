---------------------------- MODULE UserRootsInv ----------------------------
(***************************************************************************)
(* The inductive invariant of user contexts.  Its conjuncts say, in turn,  *)
(* how far the handshake is, what worker_sync2 has in hand, where each     *)
(* thread is, where its context is, what the contexts in the lists are,    *)
(* and which of them survive the collection in progress.  It holds as long *)
(* as no callback is made by a thread that was stolen.                     *)
(***************************************************************************)
EXTENDS UserRoots

\* struct sml_user
User == [worker : Worker \cup {Null}, busy : BOOLEAN,
         thread : Thread \cup {Null}, stack : 0 .. MaxDepth]

\* The thread executes ML code, or C code that allocates
Inside(u) == at[u] \in {"ML", "saved"}

\* The thread is in sml_enter_internal, before user->worker is changed and before
\* the new context has replaced the old one
Moving(u) == at[u] \in {"lock", "spin", "enum", "move", "store"}
Entering(u) == Moving(u) \/ at[u] = "copy"

Alive(u) == at[u] \notin {"none", "dead"}

\* The context of the thread
Self(u) == IF Inside(u) THEN cur[on[u]] ELSE tlv[u]

\* The phase of a worker that has not got signal p
Before(p) == IF p = PREASYNC THEN MARK ELSE p - 1

\* One signal at a time: who has not got it, who has not answered, and who has
Signals ==
    /\ sig \in {PREASYNC, PRESYNC1, PRESYNC2, PREMARK}
    /\ unsent \subseteq owing
    /\ \A w \in Worker :
        /\ w \in unsent => phase[w] = Before(sig)
        /\ w \in owing \ unsent => phase[w] = IF act[w] = "sync2" THEN SYNC2 ELSE sig
        /\ w \notin owing => phase[w] = sig + 1
        /\ act[w] = "sync2" => w \in owing \ unsent /\ sig = PRESYNC2
        /\ act[w] = "send" => w \in owing /\ unsent # {}
        /\ \A v \in Worker : act[w] = "send" /\ act[v] = "send" => v = w
    /\ unsent # {} => \E w \in Worker : act[w] = "send"
    /\ sig # PREASYNC \/ owing # {} => gc_count < MaxGC

\* What worker_sync2 has to do
Enumeration ==
    \A w \in Worker :
        /\ todo[w] \subseteq users[w]
        /\ act[w] # "sync2" => todo[w] = {} /\ enum[w] = Null
        /\ enum[w] # Null => /\ enum[w] \in todo[w]
                             /\ ctx[enum[w]].busy
                             /\ ctx[enum[w]].worker = w

\* A thread, the worker it has locked and its ranges
ThreadOK(u) ==
    /\ ~Alive(u) => on[u] = Null /\ tlv[u] = Null /\ depth[u] = 0
    /\ Inside(u) => on[u] \in Worker /\ tlv[u] = Null
    /\ at[u] \in {"C", "cancel"} => on[u] = Null
    /\ Entering(u) => on[u] \in Worker /\ loc[u].new \in Context
    /\ ~Entering(u) => loc[u].new = Null
    /\ Alive(u) => depth[u] > 0 /\ Self(u) \in Context
    /\ open[u] <=> at[u] = "ML" /\ act[on[u]] # "sync2"
    /\ \A w \in Worker : on[u] = w /\ act[w] = "sync2" => Inside(u)
    /\ \A v \in Thread : on[u] = on[v] /\ on[u] # Null => u = v

Threads == \A u \in Thread : ThreadOK(u)

\* A thread, its context and the worker the context belongs to.  While it moves,
\* its new worker accepts no signal.
PlaceOK(u) ==
    /\ Alive(u) => /\ ctx[Self(u)].thread = u
                   /\ ctx[Self(u)].stack = depth[u]
                   /\ ctx[Self(u)].worker \in Worker
    /\ Alive(u) /\ at[u] # "copy" => Self(u) \in users[ctx[Self(u)].worker]
    /\ Inside(u) \/ at[u] = "copy" => ctx[Self(u)].worker = on[u]
    /\ Moving(u) => ctx[tlv[u]].worker # on[u]
    /\ at[u] \in {"enum", "move", "cancel"} =>
           ctx[tlv[u]].busy /\ \A w \in Worker : enum[w] # tlv[u]
    /\ at[u] \in {"lock", "spin", "enum", "move"} =>
           /\ phase[on[u]] \in {SYNC1, PRESYNC2, SYNC2, PREMARK}
           /\ loc[u].phase = SYNC2 <=> phase[on[u]] \in {SYNC2, PREMARK}
    /\ at[u] = "store" =>
           phase[on[u]] \in {PREMARK, MARK, PREASYNC, ASYNC, PRESYNC1}

Places == \A u \in Thread : PlaceOK(u)

\* Who has the BUSY_FLAG of a context and will release it
Held(c) ==
    \/ \E w \in Worker : enum[w] = c
    \/ \E u \in Thread : tlv[u] = c /\ at[u] \in {"enum", "move", "cancel"}

\* Context c is in use, in the list of the worker w that has allocated it
ContextOK(w, c) ==
    /\ owner[c] = w
    /\ ctx[c].worker = w => /\ ctx[c].thread \in Thread
                            /\ Alive(ctx[c].thread)
                            /\ at[ctx[c].thread] # "copy"
                            /\ Self(ctx[c].thread) = c
    /\ ctx[c].busy => Held(c)

Contexts ==
    /\ \A c \in Context : owner[c] = Null => c \notin target
    /\ \A w \in Worker : \A c \in users[w] : ContextOK(w, c)

\* user and new_user of sml_enter_internal
NewOK(u) ==
    /\ tlv[u] # Null => owner[tlv[u]] # Null
    /\ Entering(u) =>
        /\ owner[loc[u].new] = on[u]
        /\ \A w \in Worker : loc[u].new \notin users[w]
        /\ \A v \in Thread : loc[u].new # tlv[v]
        /\ ~AllocatesTarget(phase[on[u]]) => loc[u].new \notin target

NewContexts == \A u \in Thread : NewOK(u)

\* Contexts that the allocator of their worker will not release: those in its
\* list, once they are enumerated, and the old one of a thread that moves while
\* others release
Kept ==
    /\ \A w \in Worker : \A c \in users[w] :
        phase[w] \in {SYNC2, PREMARK, MARK, PREASYNC}
            => c \in mark \/ c \notin target \/ c \in todo[w]
    /\ \A u \in Thread :
        at[u] = "copy" /\ phase[on[u]] \in {MARK, PREASYNC, ASYNC, PRESYNC1}
            => tlv[u] \in users[owner[tlv[u]]]

\* The roots of the thread will be enumerated by the worker its context belongs
\* to, or by the one it moves to
Waiting(u) ==
    LET w == ctx[Self(u)].worker
    IN  \/ phase[w] \in {SYNC1, PRESYNC2}
        \/ Self(u) \in todo[w]
        \/ Moving(u) /\ phase[on[u]] \in {SYNC1, PRESYNC2}

\* Every thread has been enumerated or will be.  One that enters a worker that
\* has answered SYNC2 has seen to it.
SeenOK(u) ==
    /\ sig = PRESYNC2 /\ Alive(u) => u \in seen \/ Waiting(u)
    /\ sig = PREMARK /\ Alive(u) => u \in seen
    /\ sig = PRESYNC2 /\ at[u] = "spin" /\ loc[u].phase = SYNC2
           => u \in seen \/ \E w \in Worker : enum[w] = tlv[u]
    /\ sig = PRESYNC2 /\ at[u] = "move" /\ loc[u].phase = SYNC2 => u \in seen

Seen == \A u \in Thread : SeenOK(u)

IInv ==
    /\ TypeOK
    /\ Signals /\ Enumeration /\ Threads /\ Places /\ Contexts /\ NewContexts
    /\ Kept /\ Seen

=============================================================================
