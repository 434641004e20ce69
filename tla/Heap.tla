--------------------------------- MODULE Heap ---------------------------------
(***************************************************************************)
(* The kernel heap: src/lib/heap/heap.c.  The unit is the word of four     *)
(* bytes: every size is rounded up to it and every address is a multiple.  *)
(* Each call runs in a critical section, so it is one step.  The header    *)
(* that heap_alloc writes before the pointer it returns is the record kept *)
(* in live; callers free what they hold, once.                             *)
(***************************************************************************)
EXTENDS Integers, FiniteSets, SequencesExt

CONSTANTS
    HEAP_START, HEAP_LEN,  \* in words
    Requests,              \* sizes given to heap_alloc, in words
    Alignments,            \* alignments given to it, in words; 0 for none
    NULL

\* No chunk is smaller than the struct that is written into it.
HeaderWords == 3

ASSUME HeapAssumption ==
    /\ HEAP_START \in Nat \ {0}
    /\ HEAP_LEN \in Nat /\ HEAP_LEN >= HeaderWords
    /\ Requests \subseteq Nat
    /\ Alignments \subseteq Nat
    /\ NULL \notin Nat

VARIABLES
    free_list,   \* chunks in the list, from its head
    live,        \* the headers of allocations: what the caller got, and the chunk
    result       \* the pointer the last heap_alloc returned

vars == <<free_list, live, result>>

End(c) == c.base + c.len
WordsOf(c) == c.base .. End(c) - 1

-----------------------------------------------------------------------------
(* Operators                                                               *)

\* More than one bit is set in a number that is a multiple of an odd one.
Malformed(alignment) ==
    \E d \in 3 .. alignment : d % 2 = 1 /\ alignment % d = 0

\* sizeof(void *) is a word, and 16 bytes the least alignment.
Aligned(alignment) ==
    IF alignment = 0 THEN 0 ELSE IF alignment < 4 THEN 4 ELSE alignment

\* Fault: no room for the worst case of the alignment.
Needed_Tight(size, alignment) == size + HeaderWords

Needed(size, alignment) == size + HeaderWords + Aligned(alignment)

\* Fault: rounds towards the header.
RoundUp_Down(x, alignment) ==
    IF alignment = 0 THEN x ELSE (x \div alignment) * alignment

RoundUp(x, alignment) ==
    IF alignment = 0 THEN x ELSE ((x + alignment - 1) \div alignment) * alignment

Before(list, c) == {i \in DOMAIN list : list[i].base < c.base}

\* Fault: only the previous chunk is merged.
heap_insert_free_chunk_Half(list, c) ==
    LET at == Cardinality(Before(list, c)) + 1
        joinsLast == at > 1 /\ End(list[at - 1]) = c.base
        chunk == IF joinsLast
                 THEN [base |-> list[at - 1].base, len |-> list[at - 1].len + c.len]
                 ELSE c
    IN  SubSeq(list, 1, IF joinsLast THEN at - 2 ELSE at - 1)
        \o <<chunk>> \o SubSeq(list, at, Len(list))

\* The list is walked to the first chunk behind c; c goes before it, is merged
\* into the chunk before, and then takes in the chunk behind.
heap_insert_free_chunk(list, c) ==
    LET at == Cardinality(Before(list, c)) + 1
        joinsLast == at > 1 /\ End(list[at - 1]) = c.base
        joinsNext == at <= Len(list) /\ End(c) = list[at].base
        chunk == [base |-> IF joinsLast THEN list[at - 1].base ELSE c.base,
                  len  |-> c.len + (IF joinsLast THEN list[at - 1].len ELSE 0)
                                 + (IF joinsNext THEN list[at].len ELSE 0)]
    IN  SubSeq(list, 1, IF joinsLast THEN at - 2 ELSE at - 1)
        \o <<chunk>>
        \o SubSeq(list, IF joinsNext THEN at + 1 ELSE at, Len(list))

-----------------------------------------------------------------------------
(* Operations                                                              *)

Init ==
    /\ free_list = heap_insert_free_chunk(<<>>, [base |-> HEAP_START, len |-> HEAP_LEN])
    /\ live = {}
    /\ result = NULL

\* Fault: the header keeps the size that was asked for, not the chunk's.
Cut_AsAsked(chunk, size) ==
    [taken |-> [chunk EXCEPT !.len = size],
     left  |-> IF chunk.len > size + HeaderWords
               THEN <<[base |-> chunk.base + size, len |-> chunk.len - size]>>
               ELSE <<>>]

\* Fault: a chunk is split whenever anything is left.
Cut_Crumbs(chunk, size) ==
    IF chunk.len > size
    THEN [taken |-> [chunk EXCEPT !.len = size],
          left  |-> <<[base |-> chunk.base + size, len |-> chunk.len - size]>>]
    ELSE [taken |-> chunk, left |-> <<>>]

\* A chunk is split if what is left can hold more than the header of a chunk.
Cut(chunk, size) ==
    IF chunk.len > size + HeaderWords
    THEN [taken |-> [chunk EXCEPT !.len = size],
          left  |-> <<[base |-> chunk.base + size, len |-> chunk.len - size]>>]
    ELSE [taken |-> chunk, left |-> <<>>]

\* First fit.
heap_alloc(size, alignment) ==
    LET need == Needed(size, alignment)
        fits == {i \in DOMAIN free_list : free_list[i].len >= need}
    IN  \/ /\ Malformed(alignment) \/ fits = {}
           /\ result' = NULL
           /\ UNCHANGED <<free_list, live>>
        \/ /\ ~Malformed(alignment)
           /\ \E i \in fits :
                 LET cut == Cut(free_list[i], need)
                     ptr == RoundUp(cut.taken.base + HeaderWords, Aligned(alignment))
                 IN  /\ \A j \in fits : i <= j
                     /\ free_list' = SubSeq(free_list, 1, i - 1) \o cut.left
                                     \o SubSeq(free_list, i + 1, Len(free_list))
                     /\ live' = live \cup {[ptr |-> ptr, chunk |-> cut.taken]}
                     /\ result' = ptr

\* heap_free of a pointer that was allocated and not freed since.
heap_free(block) ==
    /\ free_list' = heap_insert_free_chunk(free_list, block.chunk)
    /\ live' = live \ {block}
    /\ UNCHANGED result

Next ==
    \/ \E size \in Requests, alignment \in Alignments : heap_alloc(size, alignment)
    \/ \E block \in live : heap_free(block)

Spec == Init /\ [][Next]_vars

-----------------------------------------------------------------------------
(* Properties                                                              *)

Chunks == [base : Nat, len : HeaderWords .. HEAP_LEN]

\* Type invariant.  Every chunk, free or allocated, can hold the struct
\* free_heap_chunk that heap_free writes at its start.
HeapTypeOK ==
    /\ free_list \in Seq(Chunks)
    /\ live \subseteq [ptr : Nat, chunk : Chunks]
    /\ result \in Nat \cup {NULL}

\* However chunks are cut and merged, the free list stays in address order
\* with no two chunks touching: what was freed is merged as far as it can be.
FreeListInv ==
    \A i \in DOMAIN free_list :
        i < Len(free_list) => End(free_list[i]) < free_list[i + 1].base

FreeWords == UNION {WordsOf(free_list[i]) : i \in DOMAIN free_list}

\* No word is lost or owned twice: the chunks of the list and those of the
\* live allocations cover the heap exactly.
NoWordLost ==
    /\ FreeWords \cup UNION {WordsOf(b.chunk) : b \in live}
         = HEAP_START .. HEAP_START + HEAP_LEN - 1
    /\ \A b \in live :
          /\ WordsOf(b.chunk) \cap FreeWords = {}
          /\ \A c \in live : b # c => WordsOf(b.chunk) \cap WordsOf(c.chunk) = {}

\* The header of an allocation lies in its own chunk, so no caller that stays
\* within its size overwrites the header of another.
HeaderKept == \A b \in live : b.ptr - HeaderWords >= b.chunk.base

\* heap.c: no word is lost or owned twice, and every header stays whole.
HeapInv == HeapTypeOK /\ FreeListInv /\ NoWordLost /\ HeaderKept

\* The heap keeps its promise: regions as large and aligned as asked, apart
\* from each other, and no failure while a run of free words would do.
Promise == INSTANCE HeapPromise WITH
    Words <- HEAP_START .. HEAP_START + HEAP_LEN - 1,
    BadAlignments <- {a \in Alignments : Malformed(a)},
    free <- FreeWords,
    blocks <- {[ptr |-> b.ptr, words |-> WordsOf(b.chunk)] : b \in live}
PromiseSpec == Promise!Spec

=============================================================================
