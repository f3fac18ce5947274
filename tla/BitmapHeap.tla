----------------------------- MODULE BitmapHeap -----------------------------
(***************************************************************************)
(* The collector of src/runtime/heap_bitmap.c, built with MINOR_GC and     *)
(* without MULTITHREAD.  Objects do not move: an address is a segment and  *)
(* the index of a block.  An object is old when its mark bit is set; a     *)
(* minor collection keeps the marks, and the mark stack doubles as the     *)
(* list of old objects that may refer to young ones.  There is one block   *)
(* size, so one sub-heap.                                                  *)
(***************************************************************************)
EXTENDS Mutator, FiniteSetsExt

CONSTANTS
    MaxSegments,    \* heap_space.max_num_segments
    MinSegments,    \* heap_space.min_num_segments
    NumBlocks,      \* blocks of a segment
    MinorThreshold  \* marked blocks of a segment that minor collections leave alone

ASSUME SegmentAssumption ==
    /\ MinSegments \in Nat \ {0} /\ MaxSegments \in Nat /\ MinSegments <= MaxSegments
    /\ NumBlocks \in Nat \ {0} /\ MinorThreshold \in 1 .. NumBlocks

Block == (1 .. MaxSegments) \X (1 .. NumBlocks)

VARIABLES
    objects,        \* blocks with an object that has not been reclaimed (the
                    \* code has no such variable)
    mark,           \* blocks whose mark bit is set; live_count counts them
    stack,          \* the list from stack_top, top first
    seglist,        \* the segments of the sub-heap, in list order
    unreserved,     \* number of segments in front of *subheap->unreserved
    minor_space,    \* number of segments in front of *subheap->minor_space
    freelist,       \* heap_space.freelist
    committed,      \* heap_space.bitmap
    num_committed,  \* heap_space.num_committed
    ptr,            \* alloc_ptr: segment and block that is tried next, or <<>>
    gc_mode,        \* "MINOR" or "MAJOR"
    unmarked        \* roots that have not been looked at yet

bitmapVars == <<objects, mark, stack, seglist, unreserved, minor_space, freelist, committed,
                num_committed, ptr, gc_mode, unmarked>>

\* init_heap_space and init_subheaps
BitmapInit ==
    /\ objects = {} /\ mark = {} /\ stack = <<>>
    /\ seglist = <<>> /\ unreserved = 0 /\ minor_space = 0
    /\ freelist = [i \in 1 .. MinSegments |-> i]
    /\ committed = 1 .. MinSegments /\ num_committed = MinSegments
    /\ ptr = <<>> /\ gc_mode = "MINOR" /\ unmarked = {}

live_count(g) == Cardinality({b \in mark : b[1] = g})

\* The elements of list that are in set, in the order of the list
Those(list, set) ==
    LET first[n \in 0 .. Len(list)] ==
            IF n = 0 THEN <<>>
            ELSE IF list[n] \in set THEN Append(first[n - 1], list[n])
            ELSE first[n - 1]
    IN  first[Len(list)]

-----------------------------------------------------------------------------
\* The updated object is old and is not in the stack yet
ObjectBarrier(a) == a \in mark /\ ~Contains(stack, a)

bitmap_write(s, t) ==
    LET p == slot[t]
        a == slot[s]
    IN  /\ mode = "run"
        /\ IF s \in Global
           THEN /\ slot' = [slot EXCEPT ![s] = p]
                /\ barriered' = barriered \cup {s}
                /\ IF p # Null /\ p \notin mark
                   THEN mark' = mark \cup {p} /\ stack' = <<p>> \o stack
                   ELSE UNCHANGED <<mark, stack>>
                /\ UNCHANGED field
           ELSE /\ a # Null
                /\ field' = [field EXCEPT ![a] = p]
                /\ stack' = IF ObjectBarrier(a) THEN <<a>> \o stack ELSE stack
                /\ UNCHANGED <<slot, barriered, mark>>
        /\ UNCHANGED <<request, mode, objects, seglist, unreserved, minor_space, freelist,
                       committed, num_committed, ptr, gc_mode, unmarked>>

-----------------------------------------------------------------------------
\* find_bitmap: free blocks of segment g from block i on
FreeFrom(g, i) == {j \in i .. NumBlocks : <<g, j>> \notin mark}

\* The object of the waiting allocation is at block j of segment g
Allocated(g, j, r) ==
    /\ Initialise(<<g, j>>, r[1], r[2])
    /\ objects' = objects \cup {<<g, j>>}
    /\ ptr' = <<g, j + 1>>
    /\ UNCHANGED <<barriered, mark, stack, minor_space, gc_mode, unmarked>>

\* The bitmaps of a segment of the free list are clear, so that init_segment has
\* only to move the sentinels
init_segment(g) == 1

\* find_segment with the free list free: an unreserved segment, which has a free
\* block, or a new one
find_segment(free, r) ==
    \/ /\ unreserved < Len(seglist)
       /\ LET g == seglist[unreserved + 1]
              i == FreeFrom(g, 1)
          IN  i # {} /\ Allocated(g, Min(i), r)
       /\ unreserved' = unreserved + 1
       /\ freelist' = free
       /\ UNCHANGED seglist
    \/ /\ unreserved = Len(seglist) /\ free # <<>>
       /\ Allocated(Head(free), init_segment(Head(free)), r)
       /\ seglist' = Append(seglist, Head(free))
       /\ unreserved' = unreserved + 1
       /\ freelist' = Tail(free)

NoSegment(free) == unreserved = Len(seglist) /\ free = <<>>

clear_all_bitmaps == mark' = {}
flush_stack == stack' = <<>>

\* do_gc begins.  A minor collection starts with the objects in the stack; a
\* major one drops them and clears all marks.
DoGC(m, r) ==
    /\ request' = r /\ mode' = "trace" /\ gc_mode' = m
    /\ IF m = "MINOR" THEN UNCHANGED <<mark, stack>> ELSE flush_stack /\ clear_all_bitmaps
    /\ unmarked' = IF m = "MINOR" THEN Var ELSE Roots
    /\ UNCHANGED <<slot, field, barriered, objects, seglist, unreserved, minor_space, freelist,
                   committed, num_committed, ptr>>

bitmap_alloc(s, t) ==
    LET i == IF ptr = <<>> THEN {} ELSE FreeFrom(ptr[1], ptr[2])
    IN  /\ mode = "run"
        /\ \/ /\ i # {}
              /\ Allocated(ptr[1], Min(i), <<s, t>>)
              /\ UNCHANGED <<seglist, unreserved, freelist, committed, num_committed>>
           \/ /\ i = {}
              /\ find_segment(freelist, <<s, t>>)
              /\ UNCHANGED <<committed, num_committed>>
           \/ i = {} /\ NoSegment(freelist) /\ DoGC("MINOR", <<s, t>>)

\* sml_heap_gc
bitmap_gc == mode = "run" /\ DoGC("MAJOR", <<>>)

-----------------------------------------------------------------------------
\* push, with rest as the rest of the stack
push(p, rest) ==
    IF p \in objects /\ p \notin mark
    THEN mark' = mark \cup {p} /\ stack' = <<p>> \o rest
    ELSE mark' = mark /\ stack' = rest

\* An object is popped and its field is pushed: pop, and the loop of mark
pop ==
    /\ mode = "trace" /\ stack # <<>>
    /\ push(field[Head(stack)], Tail(stack))
    /\ UNCHANGED <<mutator, objects, seglist, unreserved, minor_space, freelist, committed,
                   num_committed, ptr, gc_mode, unmarked>>

\* mark of a root
mark_root ==
    /\ mode = "trace" /\ stack = <<>> /\ unmarked # {}
    /\ LET s == CHOOSE r \in unmarked : TRUE
       IN  push(slot[s], <<>>) /\ unmarked' = unmarked \ {s}
    /\ UNCHANGED <<mutator, objects, seglist, unreserved, minor_space, freelist, committed,
                   num_committed, ptr, gc_mode>>

\* mark of an object that an object outside of the heap or a finalizer needs
mark_kept ==
    /\ mode = "trace" /\ stack = <<>> /\ unmarked = {}
    /\ \E p \in objects \ mark : push(p, <<>>)
    /\ UNCHANGED <<mutator, objects, seglist, unreserved, minor_space, freelist, committed,
                   num_committed, ptr, gc_mode, unmarked>>

\* Mutant: a full segment goes to the unfilled ones
FilledNot(g) == live_count(g) > (IF gc_mode = "MINOR" THEN MinorThreshold ELSE NumBlocks)

\* A segment with this many marks is filled
Filled(g) == live_count(g) >= (IF gc_mode = "MINOR" THEN MinorThreshold ELSE NumBlocks)

\* shrink_heap(1) with the free list free.  free_segment subtracts the segment
\* from num_committed, and shrink_heap subtracts it again.
shrink_heap(free) ==
    IF num_committed > MinSegments /\ free # <<>>
    THEN /\ freelist' = Tail(free)
         /\ committed' = committed \ {Head(free)}
         /\ num_committed' = num_committed - 2
    ELSE freelist' = free /\ UNCHANGED <<committed, num_committed>>

\* sweep and shrink_heap, or sweep_minor, which starts at minor_space
bitmap_sweep ==
    LET kept == SubSeq(seglist, 1, IF gc_mode = "MINOR" THEN minor_space ELSE 0)
        swept == SubSeq(seglist, Len(kept) + 1, Len(seglist))
        empty == {g \in ToSet(swept) : live_count(g) = 0}
        full == {g \in ToSet(swept) : Filled(g)}
        unfilled == ToSet(swept) \ (full \cup empty)
        filled == kept \o Those(swept, full)
        free == Those(swept, empty) \o freelist
    IN  /\ mode = "trace" /\ stack = <<>> /\ unmarked = {}
        /\ seglist' = filled \o Those(swept, unfilled)
        /\ unreserved' = Len(filled) /\ minor_space' = Len(filled)
        /\ IF gc_mode = "MAJOR" THEN shrink_heap(free)
           ELSE freelist' = free /\ UNCHANGED <<committed, num_committed>>
        /\ ptr' = <<>>
        /\ objects' = objects \cap mark
        /\ field' = [b \in Block |-> IF b \in mark THEN field[b] ELSE Null]
        /\ mode' = IF request = <<>> THEN "run" ELSE "retry"
        /\ UNCHANGED <<slot, barriered, request, mark, stack, gc_mode, unmarked>>

-----------------------------------------------------------------------------
\* extend_heap: the first MinSegments segments that are not committed
NewSegments ==
    LET idle == Those([i \in 1 .. MaxSegments |-> i], (1 .. MaxSegments) \ committed)
    IN  SubSeq(idle, 1, Min({MinSegments, Len(idle)}))

\* sml_alloc goes on after a collection: a major one follows a minor one that
\* was not enough, and the heap is extended after a major one
bitmap_retry ==
    /\ mode = "retry"
    /\ \/ find_segment(freelist, request) /\ UNCHANGED <<committed, num_committed>>
       \/ NoSegment(freelist) /\ gc_mode = "MINOR" /\ DoGC("MAJOR", request)
       \/ /\ NoSegment(freelist) /\ gc_mode = "MAJOR" /\ NewSegments # <<>>
          /\ find_segment(NewSegments, request)
          /\ committed' = committed \cup ToSet(NewSegments)
          /\ num_committed' = num_committed + Len(NewSegments)
       \/ /\ NoSegment(freelist) /\ gc_mode = "MAJOR" /\ NewSegments = <<>>
          /\ mode' = "over"
          /\ UNCHANGED <<slot, field, barriered, request, bitmapVars>>

BitmapNext ==
    \/ compiled_code /\ UNCHANGED bitmapVars
    \/ \E t \in Var : (\E s \in Var \cup Global : bitmap_write(s, t))
                      \/ (\E s \in Var : bitmap_alloc(s, t))
    \/ bitmap_gc
    \/ pop \/ mark_root \/ mark_kept \/ bitmap_sweep \/ bitmap_retry

-----------------------------------------------------------------------------
(* Between collections a pointer from an old object to a young one is      *)
(* known to the next minor collection: sml_write has put the object into   *)
(* the mark stack.  What a global refers to has been marked.               *)
WritesKnown ==
    mode = "run" =>
        /\ \A a \in mark : field[a] \in mark \cup {Null} \/ Contains(stack, a)
        /\ \A g \in barriered : slot[g] \in mark \cup {Null}

(* find_segment takes the next unreserved segment and relies on it to have *)
(* a free block, although the write barrier sets mark bits between         *)
(* collections.                                                            *)
UnreservedHasRoom ==
    mode \in {"run", "retry"} =>
        \A i \in unreserved + 1 .. Len(seglist) : live_count(seglist[i]) < NumBlocks

(* "heap exceeded" is said only after a collection that found every block  *)
(* in use: the segment lists overlook no room that the collection made.    *)
OverMeansMarked == mode = "over" => Block \subseteq mark

=============================================================================
