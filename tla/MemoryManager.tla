---------------------------- MODULE MemoryManager ----------------------------
(***************************************************************************)
(* LinuxMemoryManager/mm.c: the blocks of one page family, or of the       *)
(* family of variable buffers.  Sizes are in any unit: META stands for     *)
(* sizeof(block_meta_data_t), PAGE_HDR for what precedes the first block   *)
(* in a page.                                                              *)
(***************************************************************************)
EXTENDS Integers, Sequences, FiniteSets, SequencesExt

CONSTANTS
  META,
  PAGE_HDR,
  SYSTEM_PAGE_SIZE,
  Sizes,     \* sizes applications ask for
  MaxPages   \* bound: pages of the family

\* A block header takes room, and one page holds more than headers.
MemoryAssumption ==
  /\ META \in Nat \ {0} /\ PAGE_HDR \in Nat /\ SYSTEM_PAGE_SIZE \in Nat
  /\ PAGE_HDR + META < SYSTEM_PAGE_SIZE
  /\ Sizes \subseteq Nat

VARIABLES
  pages,      \* the list from first_page: an index, a size and the blocks in order
  free_list   \* free_block_priority_list_head, biggest first: pairs of page_index and offset

vars == <<pages, free_list>>

\* MAX_PAGE_ALLOCATABLE_MEMORY
max_allocatable(units) == SYSTEM_PAGE_SIZE * units - PAGE_HDR - META

Data(b) == b.offset + META

\* NEXT_META_BLOCK_BY_SIZE
next_by_size(b) == Data(b) + b.block_size

PageEnd(page) == SYSTEM_PAGE_SIZE * page.units

Init == pages = <<>> /\ free_list = <<>>

-----------------------------------------------------------------------------
(* The list of free blocks.                                                *)

PageOf(pgs, ref) == CHOOSE p \in DOMAIN pgs : pgs[p].page_index = ref[1]
BlockOf(page, ref) == CHOOSE b \in DOMAIN page.blocks : page.blocks[b].offset = ref[2]

SizeIn(pgs, ref) ==
  LET page == pgs[PageOf(pgs, ref)] IN page.blocks[BlockOf(page, ref)].block_size

\* mm_add_free_block_meta_data_to_free_block_list: before the first smaller one.
add_free_block(pgs, list, ref) ==
  InsertAt(list, CHOOSE i \in 1..(Len(list) + 1) :
                   /\ i <= Len(list) => SizeIn(pgs, list[i]) < SizeIn(pgs, ref)
                   /\ \A j \in 1..(i - 1) : SizeIn(pgs, list[j]) >= SizeIn(pgs, ref), ref)

\* remove_glthread of priority_thread_glue
unlisted(list, ref) == RemoveAt(list, CHOOSE i \in DOMAIN list : list[i] = ref)

-----------------------------------------------------------------------------
(* xcalloc, xcalloc_buff                                                   *)

\* mm_get_available_page_index: the pages numbered without a gap from 0.
Numbered == {k \in DOMAIN pages : \A j \in 1..k : pages[j].page_index = j - 1}

\* allocate_vm_page: after them; one free block.
new_page(units) ==
  LET n == Cardinality(Numbered) IN
  InsertAt(pages, n + 1,
           [page_index |-> n, units |-> units,
            blocks |-> <<[offset |-> PAGE_HDR, block_size |-> max_allocatable(units), is_free |-> TRUE]>>])

\* Too small a rest stays with the block, unknown to it.
splits(remaining) == remaining >= META

\* mm_split_free_data_block_for_allocation
split(pgs, list, ref, size) ==
  LET p == PageOf(pgs, ref)
      b == BlockOf(pgs[p], ref)
      block == pgs[p].blocks[b]
      taken == [offset |-> block.offset, block_size |-> size, is_free |-> FALSE]
      remaining == block.block_size - size
      rest  == [offset |-> next_by_size(taken), block_size |-> remaining - META, is_free |-> TRUE]
      blocks == [pgs[p].blocks EXCEPT ![b] = taken]
  IN IF splits(remaining)
     THEN /\ pages' = [pgs EXCEPT ![p].blocks = InsertAt(blocks, b + 1, rest)]
          /\ free_list' = add_free_block(pages', unlisted(list, ref), <<ref[1], rest.offset>>)
     ELSE /\ pages' = [pgs EXCEPT ![p].blocks = blocks]
          /\ free_list' = unlisted(list, ref)

\* mm_allocate_free_data_block: from the biggest free block, or from a new page.
Alloc(size) ==
  LET units == size \div max_allocatable(1) + 1
      fits  == free_list # <<>> /\ SizeIn(pages, Head(free_list)) >= size
      pgs   == new_page(units)
      ref   == <<Cardinality(Numbered), PAGE_HDR>>
  IN IF fits THEN split(pages, free_list, Head(free_list), size)
     ELSE /\ Len(pages) < MaxPages
          /\ split(pgs, add_free_block(pgs, free_list, ref), ref, size)

-----------------------------------------------------------------------------
(* xfree                                                                   *)

\* Mutant: the next block is not looked at.
room_to_end(page, b) == PageEnd(page) - Data(page.blocks[b])

\* A block that is freed gets back the room that was too small for a block.
room(page, b) ==
  LET end == IF b < Len(page.blocks) THEN page.blocks[b + 1].offset ELSE PageEnd(page)
  IN end - Data(page.blocks[b])

\* mm_union_free_blocks: the second block is gone; the size of the first stays.
union(blocks, b) == RemoveAt(blocks, b + 1)

IsFree(blocks, b) == b \in DOMAIN blocks /\ blocks[b].is_free

\* Mutant: only the block before is looked at.
unions_prev_only(blocks, b) == IF IsFree(blocks, b - 1) THEN union(blocks, b - 1) ELSE blocks

\* The next block and the block before are taken in if they are free.
unions(blocks, b) ==
  LET next_done == IF IsFree(blocks, b + 1) THEN union(blocks, b) ELSE blocks
  IN IF IsFree(blocks, b - 1) THEN union(next_done, b - 1) ELSE next_done

\* mm_free_blocks: an empty page is returned to the kernel.
Free(p, b) ==
  LET page   == pages[p]
      ref(k) == <<page.page_index, page.blocks[k].offset>>
      freed  == [offset |-> page.blocks[b].offset, block_size |-> room(page, b), is_free |-> TRUE]
      blocks == unions([page.blocks EXCEPT ![b] = freed], b)
      no_next == IF IsFree(page.blocks, b + 1) THEN unlisted(free_list, ref(b + 1)) ELSE free_list
      list   == IF IsFree(page.blocks, b - 1) THEN unlisted(no_next, ref(b - 1)) ELSE no_next
      start  == IF IsFree(page.blocks, b - 1) THEN b - 1 ELSE b
  IN /\ ~page.blocks[b].is_free
     /\ IF Len(blocks) = 1
        THEN pages' = RemoveAt(pages, p) /\ free_list' = list
        ELSE /\ pages' = [pages EXCEPT ![p].blocks = blocks]
             /\ free_list' = add_free_block(pages', list, ref(start))

Next ==
  \/ \E size \in Sizes : Alloc(size)
  \/ \E p \in DOMAIN pages : \E b \in DOMAIN pages[p].blocks : Free(p, b)

Spec == Init /\ [][Next]_vars

-----------------------------------------------------------------------------
(* Properties.                                                             *)

Blocks == UNION {{<<pages[p], b>> : b \in DOMAIN pages[p].blocks} : p \in DOMAIN pages}
Block(x) == x[1].blocks[x[2]]

\* The pieces that applications hold, each with its header, and what they asked for.
Pieces == {META + size : size \in Sizes}
live == {[page |-> x[1].page_index, at |-> Block(x).offset, size |-> META + Block(x).block_size] :
           x \in {y \in Blocks : ~Block(y).is_free}}

\* mm_free_blocks, mm_split_free_data_block_for_allocation: no block reaches past
\* the end of its page; two free blocks are never neighbours; no page is kept
\* without a block in use; pages have numbers of their own; and the list of free
\* blocks holds each of them once, the biggest first.
BlocksSound ==
  /\ \A x \in Blocks :
       /\ Block(x).block_size \in 0..(PageEnd(x[1]) - Data(Block(x)))
       /\ Block(x).is_free => ~IsFree(x[1].blocks, x[2] + 1)
  /\ \A p \in DOMAIN pages : \E b \in DOMAIN pages[p].blocks : ~pages[p].blocks[b].is_free
  /\ \A j, k \in DOMAIN pages : j < k => pages[j].page_index < pages[k].page_index
  /\ ToSet(free_list) =
       {<<x[1].page_index, Block(x).offset>> : x \in {y \in Blocks : Block(y).is_free}}
  /\ IsInjective(free_list)
  /\ \A j, k \in DOMAIN free_list : j < k => SizeIn(pages, free_list[j]) >= SizeIn(pages, free_list[k])
=============================================================================
