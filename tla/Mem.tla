-------------------------------- MODULE Mem --------------------------------
(***************************************************************************)
(* The memory manager of newland/arch/x86/src/mem.c: the bitmap of used    *)
(* page frames, the page directories and page tables, and the operations   *)
(* the rest of the kernel calls: liballoc_alloc, liballoc_free (alloc.c)   *)
(* for the kernel heap, mem_alloc_pgdir and mem_free_pgdir for the address *)
(* space of a process, and mem_map for the segments of a program.          *)
(*                                                                         *)
(* Memory is counted in pages.  A directory entry and a page table entry   *)
(* have one layout (present bit and frame), so a frame that serves as a    *)
(* directory or as a table is a function from index to frame, or Absent    *)
(* where the present bit is clear.  The code reaches tables through their  *)
(* physical addresses, which the kernel maps to themselves.  What programs *)
(* write into their pages is left out, and UserPage bounds the addresses   *)
(* mem_map is given so that none of their pages is walked as a table.  The *)
(* write and user bits are left out, and so is isuser for mem_alloc and    *)
(* mem_allocident, which no caller sets.                                   *)
(***************************************************************************)
EXTENDS Integers, FiniteSets

CONSTANTS Frames,     \* page frames of the 32-bit address space: 1024 * 1024
          Entries,    \* entries of a table: 1024
          KrnlTables, \* entries of a directory that map the kernel: 256
          Total,      \* total_mem / PAGE_SIZE
          Image,      \* used_mem / PAGE_SIZE at boot: the end of the kernel
          Reserved,   \* frames mem_loadmmap marks for a reserved region
          PageSize,   \* PAGE_SIZE, which alloc.c multiplies its page counts by
          MaxPages,   \* bound: pages of one call
          UserPage    \* bound: the pages programs are linked at

VARIABLES used,       \* the bitmap mem: frames in use
          used_mem,   \* in pages, a 32-bit number of bytes in the code
          page,       \* page[f][i]: entry i of the table in frame f
          dirs,       \* page directories handed out to processes
          blocks      \* <<page, count>> handed out to liballoc

vars == <<used, used_mem, page, dirs, blocks>>

Frame == 0..(Frames - 1)
Index == 0..(Entries - 1)
KrnlPage == 0..(KrnlTables * Entries - 1)
Page == 0..(Entries * Entries - 1)
Absent == -1
Blank == [i \in Index |-> Absent]

\* krnl_pgdir and krnl_pgtbl, which lie in the kernel image behind the low
\* memory.
krnl_pgdir == 1
krnl_pgtbl(i) == 2 + i

\* Mutant: the error code keeps its sign.
Enomem_signed == -12

\* The frame -NEWLAND_ENOMEM lies in when it is taken for an address.
Enomem == Frames - 1

ASSUME LayoutAssumption ==
    /\ {Frames, Entries, KrnlTables, Total, Image, PageSize} \subseteq Nat
    /\ KrnlTables \in 1..(Entries - 1) /\ PageSize >= 1 /\ MaxPages \in Nat
    /\ krnl_pgtbl(KrnlTables) <= Image /\ Image + 2 <= Total
    /\ Total < Frames /\ KrnlTables * Entries < Frames /\ Frames <= Entries * Entries
    /\ Image + 2 <= KrnlTables * Entries
    /\ Reserved \subseteq Frame /\ UserPage \subseteq Page

TypeOK ==
    /\ used \subseteq Frame /\ used_mem \in Frame
    /\ page \in [Frame -> [Index -> Frame \cup {Absent}]]
    /\ dirs \subseteq Frame
    /\ blocks \subseteq (KrnlPage \X Nat)
-----------------------------------------------------------------------------
\* The calls work on a copy of the memory state and leave what it has become.
Memory == [used |-> used, used_mem |-> used_mem, page |-> page]
Becomes(m) == /\ used' = m.used /\ used_mem' = m.used_mem /\ page' = m.page

\* The frames of count pages from frame a on: addresses wrap at 32 bits.
Run(a, count) == {(a + i) % Frames : i \in 0..(count - 1)}

phys_setused(m, S) ==
    [m EXCEPT !.used = @ \cup S, !.used_mem = (@ + Cardinality(S \ m.used)) % Frames]

\* Mutant: frames that are free already are counted too.
phys_setfree_twice(m, S) ==
    [m EXCEPT !.used = @ \ S, !.used_mem = (@ - Cardinality(S)) % Frames]

phys_setfree(m, S) ==
    [m EXCEPT !.used = @ \ S, !.used_mem = (@ - Cardinality(S \cap m.used)) % Frames]

\* The first element of S, or none.
First(S, none) == IF S = {} THEN none ELSE CHOOSE x \in S : \A y \in S : x <= y

\* The frame phys_alloc starts at; only the start is compared with total_mem.
phys_fit(m, count) ==
    First({a \in 0..(Total - 1) : Run(a, count) \cap m.used = {}}, Enomem)
phys_fits(m, count) == \E a \in 0..(Total - 1) : Run(a, count) \cap m.used = {}
phys_alloc(m, count) ==
    IF phys_fits(m, count) THEN phys_setused(m, Run(phys_fit(m, count), count)) ELSE m
-----------------------------------------------------------------------------
PD_INDEX(v) == v \div Entries
PT_INDEX(v) == v % Entries

page_ispresent(m, dir, v) ==
    LET pt == m.page[dir][PD_INDEX(v)] IN pt # Absent /\ m.page[pt][PT_INDEX(v)] # Absent
virt_ispresent(m, dir, v, count) ==
    \A i \in 0..(count - 1) : page_ispresent(m, dir, v + i)
virt2phys(m, dir, v) == m.page[m.page[dir][PD_INDEX(v)]][PT_INDEX(v)]

\* The table that maps the kernel page v, the same in every directory.
KrnlEntry(m, v) == m.page[krnl_pgtbl(PD_INDEX(v))][PT_INDEX(v)]

\* virt_map and virt_unmap on pages of the kernel, whose tables are present:
\* the entry of page v + i becomes frames[i].
SetKrnl(m, v, frames) ==
    [m EXCEPT !.page = [f \in Frame |-> [i \in Index |->
        LET w == (f - krnl_pgtbl(0)) * Entries + i
        IN  IF f \in krnl_pgtbl(0)..krnl_pgtbl(KrnlTables - 1) /\ w - v \in DOMAIN frames
            THEN frames[w - v] ELSE m.page[f][i]]]]
MapKrnl(m, v, p, count) == SetKrnl(m, v, [i \in 0..(count - 1) |-> (p + i) % Frames])
virt_unmap(m, v, count) == SetKrnl(m, v, [i \in 0..(count - 1) |-> Absent])

\* memset of count pages from the address v of the kernel on.
Zero(m, v, count) ==
    LET hit == {KrnlEntry(m, w) : w \in v..(v + count - 1)}
    IN  [m EXCEPT !.page = [f \in Frame |-> IF f \in hit THEN Blank ELSE m.page[f]]]

\* The searches of virt_alloc and mem_allocident: the first count pages in a
\* row that are all free, or page 0 (NULL).
FirstRow(count, free) == First({v \in free : v..(v + count - 1) \subseteq free}, 0)
virt_fit(m, count) == FirstRow(count, {w \in KrnlPage : KrnlEntry(m, w) = Absent})
virt_alloc(m, p, count) ==
    IF virt_fit(m, count) = 0 THEN m ELSE MapKrnl(m, virt_fit(m, count), p, count)

\* mem_allocident(dir, 1, iswrite, 0): one page mapped to itself.
ident_fit(m) == FirstRow(1, {w \in KrnlPage \ m.used : KrnlEntry(m, w) = Absent})
mem_allocident(m) ==
    LET v == ident_fit(m)
    IN  IF v = 0 THEN m ELSE Zero(MapKrnl(phys_setused(m, {v}), v, v, 1), v, 1)

\* mem_alloc takes frame 0 for a failure of phys_alloc, whose error it does not look
\* at, nor at the one of virt_alloc, whose NULL it clears count pages from.
mem_alloc(m, count) ==
    IF phys_fit(m, count) = 0 THEN phys_alloc(m, count)
    ELSE Zero(virt_alloc(phys_alloc(m, count), phys_fit(m, count), count), virt_fit(m, count), count)
mem_alloc_page(m, count) == IF phys_fit(m, count) = 0 THEN 0 ELSE virt_fit(m, count)

\* Mutant: the frames are kept.
mem_free_unmap(m, v, count) ==
    IF virt_ispresent(m, krnl_pgdir, v, count) THEN virt_unmap(m, v, count) ELSE m

mem_free(m, v, count) ==
    IF virt_ispresent(m, krnl_pgdir, v, count)
    THEN virt_unmap(phys_setfree(m, Run(virt2phys(m, krnl_pgdir, v), count)), v, count)
    ELSE m

\* virt_map of one page into any directory.  The directory entry it adds for a
\* new table names the frame the entry itself lies in, the directory's own; the
\* page is entered into the new table.
virt_map(m, dir, v, p) ==
    LET pdi == PD_INDEX(v)
        missing == m.page[dir][pdi] = Absent
        pt == IF missing THEN ident_fit(m) ELSE m.page[dir][pdi]
        mt == IF missing THEN [mem_allocident(m) EXCEPT !.page[dir][pdi] = dir] ELSE m
    IN  [mt EXCEPT !.page[pt][PT_INDEX(v)] = p]

\* The loop of mem_map: an absent page gets a frame, and ENOMEM for one.
MapPage(m, dir, v) ==
    IF page_ispresent(m, dir, v) THEN m
    ELSE virt_map(phys_alloc(m, 1), dir, v, phys_fit(m, 1))
-----------------------------------------------------------------------------
\* The kernel runs as long as its directory stands and maps its image to itself.
Running ==
    /\ \A i \in 0..(KrnlTables - 1) : page[krnl_pgdir][i] = krnl_pgtbl(i)
    /\ \A v \in 0..(Image - 1) : KrnlEntry(Memory, v) = v

liballoc_alloc(pages) ==
    /\ Running
    /\ Becomes(mem_alloc(Memory, pages * PageSize))
    /\ LET v == mem_alloc_page(Memory, pages * PageSize)
       IN  blocks' = IF v = 0 THEN blocks ELSE blocks \cup {<<v, pages * PageSize>>}
    /\ UNCHANGED dirs

liballoc_free(b) ==
    /\ Running
    /\ Becomes(mem_free(Memory, b[1], b[2]))
    /\ blocks' = blocks \ {b}
    /\ UNCHANGED dirs

\* Mutant: the last kernel table is left out.
NewEntries_short == [i \in Index |-> IF i < KrnlTables - 1 THEN krnl_pgtbl(i) ELSE Absent]

\* The entries of a new directory.
NewEntries == [i \in Index |-> IF i < KrnlTables THEN krnl_pgtbl(i) ELSE Absent]

mem_alloc_pgdir ==
    /\ Running /\ ident_fit(Memory) # 0
    /\ LET dir == ident_fit(Memory)
       IN  /\ Becomes([mem_allocident(Memory) EXCEPT !.page[dir] = NewEntries])
           /\ dirs' = dirs \cup {dir}
    /\ UNCHANGED blocks

\* The inner loop counts i instead of x: it looks at entry 0 of the first table
\* only, and the outer loop ends with it.
mem_free_pgdir(dir) ==
    LET pdi == First({i \in KrnlTables..(Entries - 1) : page[dir][i] # Absent}, Absent)
        pt == page[dir][pdi]
        freed == IF page[pt][0] = Absent THEN Memory ELSE phys_setfree(Memory, {page[pt][0]})
    IN  /\ Running
        /\ Becomes(mem_free(IF pdi = Absent THEN Memory ELSE mem_free(freed, pt, 1), dir, 1))
        /\ dirs' = dirs \ {dir}
        /\ UNCHANGED blocks

mem_map(dir, v, count) ==
    LET done[i \in 0..count] == IF i = 0 THEN Memory ELSE MapPage(done[i - 1], dir, v + i - 1)
    IN  /\ Running
        /\ Becomes(done[count])
        /\ UNCHANGED <<dirs, blocks>>
-----------------------------------------------------------------------------
\* mem_init has entered the kernel tables and mapped the image and one page
\* more, rounded up once more, to itself; used_mem starts at the end of the
\* image and counts those pages again.
Mapped == 0..(Image + 1)

Init ==
    /\ used = Reserved \cup Mapped
    /\ used_mem = (Image + Cardinality(Mapped \ Reserved)) % Frames
    /\ page = [f \in Frame |-> [i \in Index |->
         LET w == (f - krnl_pgtbl(0)) * Entries + i
         IN  CASE f = krnl_pgdir /\ i < KrnlTables -> krnl_pgtbl(i)
               [] f \in krnl_pgtbl(0)..krnl_pgtbl(KrnlTables - 1) /\ w \in Mapped -> w
               [] OTHER -> Absent]]
    /\ dirs = {} /\ blocks = {}

Next ==
    \/ \E pages \in 1..MaxPages : liballoc_alloc(pages)
    \/ \E b \in blocks : liballoc_free(b)
    \/ mem_alloc_pgdir
    \/ \E dir \in dirs : mem_free_pgdir(dir)
    \/ \E dir \in dirs, v \in UserPage, count \in 1..MaxPages : mem_map(dir, v, count)

Spec == Init /\ [][Next]_vars
-----------------------------------------------------------------------------
(***************************************************************************)
(* used_mem moves with the bitmap: whatever is set or freed twice, also by *)
(* the wrong frames mem_free_pgdir frees and the ones an error code names, *)
(* it stays ahead of the number of used frames by what the boot put there  *)
(* (the image is counted twice, reserved frames not at all).               *)
(***************************************************************************)
UsedCounted ==
    used_mem = (Cardinality(used) + Image - Cardinality(Reserved)) % Frames

(***************************************************************************)
(* mem_map's promise in mem.h: a page that was absent and that it maps is  *)
(* translated by the directory to a frame that was free.                   *)
(***************************************************************************)
MapTakesEffect ==
    [][\A dir \in dirs, v \in UserPage :
          mem_map(dir, v, 1) /\ ~page_ispresent(Memory, dir, v)
          => /\ page_ispresent(Memory, dir, v)'
             /\ virt2phys(Memory, dir, v)' \in Frame \ used]_vars
=============================================================================
