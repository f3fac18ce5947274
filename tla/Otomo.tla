------------------------------- MODULE Otomo --------------------------------
(***************************************************************************)
(* The collector of src/runtime/heap_otomo.c, built without UPPER and      *)
(* NOT_CLEAR_BITMAP.  Objects do not move: an address is the index of a    *)
(* block.  A bitmap says which blocks survived the last collection, and a  *)
(* second one above it which of its words are full; new objects are        *)
(* allocated behind a cursor that only moves forward, so that their bits   *)
(* stay clear.  There is one block size, and the tree has one level.       *)
(***************************************************************************)
EXTENDS Mutator, FiniteSetsExt

CONSTANTS
    BlockCounts,    \* heap_layout.block_counts
    WordBits        \* bits of a word of a bitmap

\* BITMAP_ROUND: the words of a bitmap for n bits
BITMAP_ROUND(n) == (n + WordBits - 1) \div WordBits

ASSUME LayoutAssumption ==
    /\ BlockCounts \in Nat \ {0} /\ WordBits \in Nat \ {0}
    /\ BITMAP_ROUND(BlockCounts) < WordBits

OtomoAddr == 0 .. BlockCounts - 1

ASSUME NullIsNoBlock == Null \notin OtomoAddr

VARIABLES
    held,           \* blocks with an object that has not been reclaimed (the
                    \* code has no such variable)
    leaf,           \* bits that are set in the bitmap
    tree,           \* bits that are set in tree[0]
    cursor,         \* the bit of b_info->bitmap, and the block of next_obj
    marking_stack,  \* from the top
    unseen          \* roots that have not been looked at yet

otomoVars == <<held, leaf, tree, cursor, marking_stack, unseen>>

\* The bits from n on in the last word of a bitmap for n bits, which has one word
\* more when n fills its words
Sentinel(n) == n .. (n \div WordBits + 1) * WordBits - 1

\* The bits of word k
WordOf(k) == k * WordBits .. (k + 1) * WordBits - 1

\* bitmap_clear
bitmap_clear ==
    /\ leaf' = Sentinel(BlockCounts)
    /\ tree' = Sentinel(BITMAP_ROUND(BlockCounts))
    /\ cursor' = 0

OtomoInit ==
    /\ held = {} /\ marking_stack = <<>> /\ unseen = {}
    /\ leaf = Sentinel(BlockCounts)
    /\ tree = Sentinel(BITMAP_ROUND(BlockCounts))
    /\ cursor = 0

-----------------------------------------------------------------------------
\* sml_write
otomo_write(s, t) ==
    /\ mode = "run"
    /\ IF s \in Global
       THEN /\ slot' = [slot EXCEPT ![s] = slot[t]]
            /\ barriered' = barriered \cup {s}
            /\ UNCHANGED field
       ELSE /\ slot[s] # Null
            /\ field' = [field EXCEPT ![slot[s]] = slot[t]]
            /\ UNCHANGED <<slot, barriered>>
    /\ UNCHANGED <<request, mode, otomoVars>>

-----------------------------------------------------------------------------
\* Mutant: off by one
WordsBeyond(k) == {m \in WordOf(k \div WordBits) : m > k + 1} \ tree

\* Words above k that are not full, according to the tree
WordsAfter(k) == {m \in WordOf(k \div WordBits) : m > k} \ tree

\* NEXT_AND_SET_BITPTR: the free bits of the cursor's word behind the cursor
FreeInWord(c) == {i \in WordOf(c \div WordBits) : i > c} \ leaf

\* search_bitptr: the block that is found, if any.  If the tree were wrong and
\* the word full, next_obj would be the block behind the word.
search_bitptr(c) ==
    LET k == c \div WordBits
        m == Min(WordsAfter(k))
    IN  CASE FreeInWord(c) # {} -> {Min(FreeInWord(c))}
          [] FreeInWord(c) = {} /\ WordsAfter(k) = {} -> {}
          [] OTHER -> {Min((WordOf(m) \ leaf) \cup {(m + 1) * WordBits})}

\* heap_alloc and HEAP_FAST_ALLOC: the block for the next object, if any
NextBlock == IF cursor \notin leaf THEN {cursor} ELSE search_bitptr(cursor)

heap_alloc(r) == \E b \in NextBlock :
    /\ Initialise(b, r[1], r[2])
    /\ held' = held \cup {b}
    /\ cursor' = b + 1
    /\ UNCHANGED <<barriered, leaf, tree, marking_stack, unseen>>

\* sml_heap_gc begins
Clear(r) ==
    /\ request' = r /\ mode' = "trace"
    /\ bitmap_clear
    /\ unseen' = Roots
    /\ UNCHANGED <<slot, field, barriered, held, marking_stack>>

otomo_alloc(s, t) ==
    /\ mode = "run"
    /\ heap_alloc(<<s, t>>) \/ (NextBlock = {} /\ Clear(<<s, t>>))

otomo_gc == mode = "run" /\ Clear(<<>>)

-----------------------------------------------------------------------------
\* The words that the bit of b fills
Filling(bits, b) == {k \in {b \div WordBits} : WordOf(k) \subseteq bits}

\* mark, with rest as the rest of the stack
MarkBlock(b, rest) ==
    IF b = Null \/ b \in leaf
    THEN marking_stack' = rest /\ UNCHANGED <<leaf, tree>>
    ELSE /\ leaf' = leaf \cup {b}
         /\ tree' = tree \cup Filling(leaf', b)
         /\ marking_stack' = <<b>> \o rest

\* A step of the loop over the marking stack
otomo_pop ==
    /\ mode = "trace" /\ unseen = {} /\ marking_stack # <<>>
    /\ MarkBlock(field[Head(marking_stack)], Tail(marking_stack))
    /\ UNCHANGED <<mutator, held, cursor, unseen>>

\* A step of sml_rootset_enum_ptr(mark, MAJOR), which does not pop
otomo_mark_root ==
    /\ mode = "trace" /\ unseen # {}
    /\ LET s == CHOOSE r \in unseen : TRUE
       IN  MarkBlock(slot[s], marking_stack) /\ unseen' = unseen \ {s}
    /\ UNCHANGED <<mutator, held, cursor>>

\* mark_all of an object p that an object outside of the heap or a finalizer
\* needs.  It calls mark(*slot), so p itself is taken for the slot.
mark_all ==
    /\ mode = "trace" /\ unseen = {} /\ marking_stack = <<>>
    /\ \E p \in held : field[p] \notin leaf /\ MarkBlock(field[p], <<>>)
    /\ UNCHANGED <<mutator, held, cursor, unseen>>

\* sml_heap_gc ends: what is not marked can be allocated again
otomo_end ==
    /\ mode = "trace" /\ unseen = {} /\ marking_stack = <<>>
    /\ held' = held \cap leaf
    /\ field' = [b \in OtomoAddr |-> IF b \in leaf THEN field[b] ELSE Null]
    /\ mode' = IF request = <<>> THEN "run" ELSE "retry"
    /\ UNCHANGED <<slot, barriered, request, leaf, tree, cursor, marking_stack, unseen>>

\* sml_heap_slow_alloc goes on after the collection
otomo_retry ==
    /\ mode = "retry"
    /\ \/ heap_alloc(request)
       \/ /\ NextBlock = {} /\ mode' = "over"
          /\ UNCHANGED <<slot, field, barriered, request, otomoVars>>

OtomoNext ==
    \/ compiled_code /\ UNCHANGED otomoVars
    \/ \E t \in Var : (\E s \in Var \cup Global : otomo_write(s, t))
                      \/ (\E s \in Var : otomo_alloc(s, t))
    \/ otomo_gc
    \/ otomo_pop \/ otomo_mark_root \/ mark_all \/ otomo_end \/ otomo_retry

-----------------------------------------------------------------------------
(* "heap exceeded" is said only when every block is in use: the search     *)
(* through the bitmap and its tree overlooks no block that the collection  *)
(* has freed.                                                              *)
OverMeansInUse == mode = "over" => OtomoAddr \subseteq leaf

=============================================================================
