------------------------------- MODULE Bitmap -------------------------------
(***************************************************************************)
(* The two-level bitmap of a segment, src/runtime/heap_concurrent.c, and   *)
(* the bit pointers of src/runtime/smlsharp.h.  A bit of bitmap[0] says    *)
(* that a block is used, a bit of bitmap[1] that a word of bitmap[0] is    *)
(* filled.  A bitmap is the set of the indices of its bits that are set.   *)
(***************************************************************************)
EXTENDS Integers, FiniteSetsExt

CONSTANT WordBits   \* BITPTR_WORDBITS

Ceiling(a, b) == ((a + b - 1) \div b) * b

\* bmbits[i] for bmlen[i] = len: there is room for a sentinel bit
BitsFor(len) == Ceiling(len + 1, WordBits)

\* bitmap_sentinel: the unused bits of the last word are set
Sentinel(len) == len .. BitsFor(len) - 1

\* Number of words of bitmap[0] for n blocks, which is bmlen[1]
Words(n) == BitsFor(n) \div WordBits

\* BITPTR_NEXT0: the 0 bits of the current word from bit k on; the first one is
\* taken, none is BITPTR_NEXT_FAILED
Zeros(bits, k) == (k .. (k \div WordBits) * WordBits + WordBits - 1) \ bits

\* bitmap[0] of a segment whose blocks in used are used: copy_collect_bitmap
Level0(n, used) == used \cup Sentinel(n)

\* The words of bitmap[0] that are filled
FilledWords(n, used) ==
    {i \in 0 .. Words(n) - 1 : Zeros(Level0(n, used), i * WordBits) = {}}

\* bitmap[1] as copy_collect_bitmap constructs it
Level1(n, used) == FilledWords(n, used) \cup Sentinel(Words(n))

\* bitmap[1] as init_segment leaves it: no block is used, and no word is taken
\* for filled, not even one of sentinels only
Level1New(n) == Sentinel(Words(n))

NotFound == -1

\* Mutant: the bit of the current word is looked at again in bitmap[1]
UpIndexSame(k) == k \div WordBits

\* The bit of bitmap[1] the search goes on with when it fails at bit k
UpIndex(k) == (k \div WordBits) + 1

\* find_bitmap: the search for a free block at or after block k, which goes up
\* to bitmap[1] when the word has none, goes on there linearly
\* (bitptr_linear_search) up to its last word, and comes down again
find_bitmap(n, b0, b1, k) ==
    LET here == Zeros(b0, k)
        near == Zeros(b1, UpIndex(k))
        far == (((UpIndex(k) \div WordBits) + 1) * WordBits
                    .. BitsFor(Words(n)) - 1) \ b1
        word == IF near # {} THEN Min(near) ELSE IF far # {} THEN Min(far) ELSE NotFound
        below == Zeros(b0, word * WordBits)
    IN  IF here # {} THEN Min(here)
        ELSE IF word = NotFound \/ below = {} THEN NotFound ELSE Min(below)

\* What it is to find: the first block at or after block k that is not used
FirstFree(n, used, k) ==
    LET free == (k .. n - 1) \ used IN IF free = {} THEN NotFound ELSE Min(free)

-----------------------------------------------------------------------------
(***************************************************************************)
(* compute_segment_layout, with the sizes of a 64-bit build                *)
(***************************************************************************)
SegmentSize == 32768
Bitmap0Offset == 32
SlotSize == 8
HeaderSize == 4
MaxAlign == 16

BitmapLimit(n) ==
    Bitmap0Offset + (2 * BitsFor(n) + BitsFor(Words(n))) \div 8

BlockOffset(n, size) ==
    Ceiling(Ceiling(BitmapLimit(n), SlotSize) + SlotSize * n + HeaderSize,
            IF MaxAlign < size THEN MaxAlign ELSE size)

BlockLimit(n, size) == BlockOffset(n, size) + size * n

\* The first guess: the share of the bitmaps is 1/8 byte for a block, as
\* 32/31/8 is 0 in integers
FirstGuess(size) == (8 * (SegmentSize - Bitmap0Offset)) \div (8 * (size + SlotSize) + 1)

\* num_blocks: the guess is decremented until the blocks fit
NumBlocks(size) ==
    Max({n \in 1 .. FirstGuess(size) : BlockLimit(n, size) <= SegmentSize})

BlockSizes == {8, 16, 32, 64, 128, 256, 512, 1024, 2048, 4096}

=============================================================================
