------------------------------- MODULE Memory -------------------------------
(***************************************************************************)
(* Physical frames, page tables and the address spaces built from them:    *)
(* frames.rs, mmu.rs, elf.rs, and the parts of process.rs, ring.rs and     *)
(* user.rs that allocate, map and reclaim a program's memory.              *)
(*                                                                         *)
(* Memory is modelled word by word, because both structures are kept in    *)
(* the memory they manage: the free list links frames through their first  *)
(* word, and a page table is a frame of descriptors.  A frame is named by  *)
(* its number (address / PageSize), 0 being the null address, and has      *)
(* Entries words.  A word is a descriptor: its type bits, the frame it     *)
(* points at and its permissions.  A raw address has type bits 0, so a     *)
(* free-list link is an invalid descriptor; and page and table descriptors *)
(* have the same type bits, 3, as on the machine.                          *)
(*                                                                         *)
(* Every operation runs with interrupts masked (in a syscall, an exception *)
(* or the poller's drain) or alone at boot, so each is one step.  The      *)
(* interleaving that remains is that of the operations: programs are       *)
(* created, preempted, set up their rings and exit in any order, and the   *)
(* TLB caches any translation at any time.                                 *)
(***************************************************************************)
EXTENDS Integers, FiniteSets, SequencesExt

CONSTANTS Entries,      \* descriptors per table (512 in the code)
          PageSize,     \* bytes per page and frame
          KernelEnd,    \* first byte after the kernel image
          RamTop,       \* first byte after RAM
          AddrTop,      \* number of addresses (2^64 in the code)
          HeapPage,     \* page number of the kernel heap's first page
          HeapPages,    \* pages of kernel heap
          UserStackPage, \* page number of the user stack
          UserRingPage, \* page number of a process's ring
          Images,       \* embedded programs: sequences of segments
          MaxProcs,     \* bound on the programs created
          ProbedAddrs,  \* addresses and lengths put to is_user_range
          ProbedLens

VARIABLES m,        \* memory, the frame allocator and the MMU
          procs,    \* the process table
          current   \* pid of the running process, 0 for a kernel task

vars == <<m, procs, current>>

-----------------------------------------------------------------------------
(* Words and frames.                                                       *)

DESC_BLOCK == 1
DESC_TABLE == 3
USER_L0_IDX == 1

Word(bits, frame, perms) == [bits |-> bits, frame |-> frame, perms |-> perms]

Link(frame) == Word(0, frame, "none")

Zero == Link(0)

TableDesc(frame) == Word(DESC_TABLE, frame, "none")

PageDesc(frame, perms) == Word(DESC_TABLE, frame, perms)

Index == 0..Entries - 1

ZeroFrame == [i \in Index |-> Zero]

\* A program's bytes are arbitrary; these look like valid descriptors.
Bytes(frame) == [i \in Index |-> TableDesc(frame)]

(***************************************************************************)
(* frames.rs: an intrusive stack of free frames.  A failed `expect' panics *)
(* and the machine stops: ok becomes FALSE.                                *)
(***************************************************************************)
PushFrame(s, frame) ==
    [s EXCEPT !.mem[frame][0] = Link(s.head), !.head = frame, !.free = @ + 1]

PopFrame(s) ==
    IF s.head = 0
    THEN [s EXCEPT !.ok = FALSE]
    ELSE [s EXCEPT !.head = s.mem[s.head][0].frame, !.free = @ - 1]

AlignUp(x) == ((x + PageSize - 1) \div PageSize) * PageSize

FirstFrame == AlignUp(KernelEnd) \div PageSize

Frames == FirstFrame .. (RamTop \div PageSize) - 1

\* Every whole frame of RAM above the kernel, in increasing order.
AddRegion(s) ==
    FoldLeft(PushFrame, s, [k \in 1..Cardinality(Frames) |-> FirstFrame + k - 1])

-----------------------------------------------------------------------------
(* mmu.rs: tables and mappings.                                            *)

\* Pop a frame and fill all of it: a table, a ring and a loaded page start
\* from contents the kernel wrote.
AllocFilled(s, words) ==
    LET t == PopFrame(s) IN
    IF t.ok THEN [t EXCEPT !.mem[s.head] = words] ELSE t

\* Mutant of AllocTable: the frame is not zeroed.
AllocTableStale(s) == PopFrame(s)

AllocTable(s) == AllocFilled(s, ZeroFrame)

IndexAt(page, level) == (page \div Entries ^ (3 - level)) % Entries

GetOrCreate(s, table, i) ==
    LET entry == s.mem[table][i]
        t == AllocTable(s) IN
    IF entry.bits # 0
    THEN [s EXCEPT !.ok = @ /\ entry.bits = DESC_TABLE]
    ELSE IF t.ok THEN [t EXCEPT !.mem[table][i] = TableDesc(s.head)] ELSE t

Invalidate(tlb, page) == {e \in tlb : e.page # page}

MapPageIn(s, l0, page, frame, perms) ==
    LET i(level) == IndexAt(page, level)
        s1 == GetOrCreate(s, l0, i(0))
        l1 == s1.mem[l0][i(0)].frame
        s2 == GetOrCreate(s1, l1, i(1))
        l2 == s2.mem[l1][i(1)].frame
        s3 == GetOrCreate(s2, l2, i(2))
        l3 == s3.mem[l2][i(2)].frame
    IN [s3 EXCEPT !.mem[l3][i(3)] = PageDesc(frame, perms),
                  !.tlb = Invalidate(@, page)]

\* The table `table[i]' points at, 0 if it is not a table descriptor.
Follow(mem, table, i) ==
    IF table # 0 /\ mem[table][i].bits = DESC_TABLE THEN mem[table][i].frame ELSE 0

L3Table(mem, l0, page) ==
    LET l1 == Follow(mem, l0, IndexAt(page, 0))
        l2 == Follow(mem, l1, IndexAt(page, 1))
    IN Follow(mem, l2, IndexAt(page, 2))

UnmapPageIn(s, l0, page) ==
    LET l3 == L3Table(s.mem, l0, page) IN
    IF l3 = 0
    THEN s
    ELSE [s EXCEPT !.mem[l3][IndexAt(page, 3)] = Zero,
                   !.tlb = Invalidate(@, page)]

\* The descriptor the walk from l0 ends at, Zero if the page is unmapped.
Translate(mem, l0, page) ==
    LET l3 == L3Table(mem, l0, page)
        entry == mem[l3][IndexAt(page, 3)]
    IN IF l3 = 0 \/ entry.bits = 0 THEN Zero ELSE entry

\* The new space's root is the frame s.head was before the call.
NewAddressSpace(s) ==
    LET t == AllocTable(s) IN
    IF t.ok THEN [t EXCEPT !.mem[s.head][0] = TableDesc(s.kernelL1)] ELSE t

\* Mutant of Activate: no "tlbi vmalle1".
ActivateWithoutFlush(s, root) == [s EXCEPT !.installed = root, !.ttbr0 = root]

\* Mutant of Activate: INSTALLED is left alone when the kernel's root goes in.
ActivateUntracked(s, root) ==
    IF s.installed = root
    THEN s
    ELSE [s EXCEPT !.installed = IF root = s.kernelRoot THEN @ ELSE root,
                   !.ttbr0 = root, !.tlb = {}]

Activate(s, root) ==
    IF s.installed = root
    THEN s
    ELSE [s EXCEPT !.installed = root, !.ttbr0 = root, !.tlb = {}]

\* The tables table's entries point at, in the order of the entries.
Children(mem, table) ==
    SelectSeq([k \in 1..Entries |-> Follow(mem, table, k - 1)], LAMBDA t : t # 0)

\* Mutant of Subtree: one level too few.
SubtreeShallow(mem, l1) == Append(Children(mem, l1), l1)

\* Depth first: the L3s of each L2, that L2, and last the L1.
Subtree(mem, l1) ==
    FoldLeft(LAMBDA order, l2 : order \o Children(mem, l2) \o <<l2>>,
             <<>>, Children(mem, l1)) \o <<l1>>

FreeAddressSpace(s, l0) ==
    LET l1 == Follow(s.mem, l0, USER_L0_IDX)
        tables == IF l1 = 0 THEN <<>> ELSE Subtree(s.mem, l1)
    IN FoldLeft(PushFrame, s, Append(tables, l0))

-----------------------------------------------------------------------------
(* Boot: init_frames, init_mmu and init_heap, in kmain's order.            *)

\* The MMU is enabled with the boot root in TTBR0; INSTALLED is still 0.
InitMmu(s) ==
    LET l0 == s.head
        s1 == AllocTable(s)
        l1 == s1.head
        s2 == AllocTable(s1)
        l2 == s2.head
        s3 == AllocTable(s2)
    IN [s3 EXCEPT !.mem[l2] = [i \in Index |-> Word(DESC_BLOCK, 0, "kernel")],
                  !.mem[l1][0] = Word(DESC_BLOCK, 0, "kernel"),
                  !.mem[l1][1] = TableDesc(l2),
                  !.mem[l0][0] = TableDesc(l1),
                  !.kernelL1 = l1,
                  !.kernelRoot = l0,
                  !.ttbr0 = l0]

\* map_page works on the live root, which is the boot one.
InitHeap(s) ==
    LET MapNext(t, k) ==
            MapPageIn(PopFrame(t), t.ttbr0, HeapPage + k - 1, t.head, "kernel")
    IN FoldLeft(MapNext, s, [k \in 1..HeapPages |-> k])

Boot ==
    InitHeap(InitMmu(AddRegion(
        [mem |-> [f \in Frames \union {0} |-> ZeroFrame], head |-> 0, free |-> 0,
         kernelL1 |-> 0, kernelRoot |-> 0, ttbr0 |-> 0, installed |-> 0,
         tlb |-> {}, ok |-> TRUE])))

-----------------------------------------------------------------------------
(* elf.rs and process.rs: building a process.  A process under             *)
(* construction is the machine s, the frames it owns and its ranges.       *)

MAX_SEGMENTS == 8

\* Allocate a frame holding words, map it at page, record it in the owned list.
MapOwned(b, l0, page, words, perms) ==
    LET frame == b.s.head IN
    [b EXCEPT !.s = MapPageIn(AllocFilled(@, words), l0, page, frame, perms),
              !.owned = Append(@, [page |-> page, frame |-> frame])]

LoadSegment(b, l0, seg) ==
    LET executable == "X" \in seg.flags
        perms == IF executable THEN "RX" ELSE "RW"
        asserted == /\ seg.vaddr % PageSize = 0
                    /\ ~(executable /\ "W" \in seg.flags)
                    /\ Len(b.ranges) < MAX_SEGMENTS
        LoadPage(c, k) ==
            MapOwned(c, l0, seg.vaddr \div PageSize + k - 1, Bytes(c.s.head), perms)
        loaded ==
            FoldLeft(LoadPage, b, [k \in 1..(AlignUp(seg.memsz) \div PageSize) |-> k])
    IN IF ~seg.load \/ seg.memsz = 0
       THEN b
       ELSE [loaded EXCEPT
               !.s.ok = @ /\ asserted,
               !.ranges = Append(@, [start |-> seg.vaddr,
                                     end |-> seg.vaddr + seg.memsz,
                                     writable |-> ~executable])]

Load(b, l0, image) ==
    FoldLeft(LAMBDA c, seg : LoadSegment(c, l0, seg), b, image)

\* The stack frame keeps whatever it held.
CreateIn(s, root, image) ==
    LET b == Load([s |-> s, owned |-> <<>>, ranges |-> <<>>], root, image)
    IN MapOwned(b, root, UserStackPage, b.s.mem[b.s.head], "RW")

-----------------------------------------------------------------------------
(* Operations.  Commit takes the result of one unless it panicked.         *)

Pids == 1..Len(procs)

\* kmain starts the shell first and makes it the foreground process.
Foreground == 1

Alive(p) == ~procs[p].exited

Commit(s, table) ==
    IF s.ok THEN m' = s /\ procs' = table
            ELSE m' = [m EXCEPT !.ok = FALSE] /\ procs' = procs

\* OP_SPAWN, or kmain starting the shell.
Spawn(image) ==
    LET root == m.head
        b == CreateIn(NewAddressSpace(m), root, image)
    IN /\ Len(procs) < MaxProcs
       /\ Commit(b.s, Append(procs, [ttbr0 |-> root, owned |-> b.owned,
                                     ranges |-> b.ranges, ring |-> 0,
                                     exited |-> FALSE]))
       /\ UNCHANGED current

\* SYS_RING_SETUP of the running process; a second call changes nothing.
Setup ==
    /\ current # 0
    /\ procs[current].ring = 0
    /\ LET b == MapOwned([s |-> m, owned |-> procs[current].owned], procs[current].ttbr0,
                         UserRingPage, ZeroFrame, "RW")
       IN Commit(b.s, [procs EXCEPT ![current].owned = b.owned,
                                    ![current].ring = m.head])
    /\ UNCHANGED current

\* Unmapping is done in the live space, through map_page's counterpart.
ReleaseOwned(s, owned) ==
    FoldLeft(LAMBDA t, o : PushFrame(UnmapPageIn(t, t.ttbr0, o.page), o.frame), s, owned)

\* Mutant of Teardown: the dying space stays installed while it is freed.
TeardownLive(s, p) ==
    FreeAddressSpace(ReleaseOwned(s, procs[p].owned), procs[p].ttbr0)

Teardown(s, p) ==
    LET dead == procs[p].ttbr0
        released == ReleaseOwned(s, procs[p].owned)
    IN FreeAddressSpace(Activate(released, released.kernelRoot), dead)

\* SYS_EXIT or a fault: teardown, then the task exits and a kernel task or,
\* by Run, another program runs.  The husk keeps its ttbr0.
Exit ==
    /\ current # 0
    /\ m' = Teardown(m, current)
    /\ procs' = [procs EXCEPT ![current].owned = <<>>,
                              ![current].ring = 0,
                              ![current].exited = TRUE]
    /\ current' = 0

\* schedule() switches to a process's task, installing its space, ...
Run(p) ==
    /\ Alive(p) /\ current # p
    /\ m' = Activate(m, procs[p].ttbr0)
    /\ current' = p
    /\ UNCHANGED procs

\* ... or to a kernel task, which runs in whatever space is live.
RunKernelTask ==
    /\ current # 0
    /\ current' = 0
    /\ UNCHANGED <<m, procs>>

\* The poller installs the space of the ring it is about to drain.  That the process may
\* exit between the poller's look at its ring and this step is module Sqpoll's subject
\* (LiveSpaceNotFreed); the properties here are those of every other schedule.
PollRing(p) ==
    /\ current = 0 /\ procs[p].ring # 0
    /\ m' = Activate(m, procs[p].ttbr0)
    /\ UNCHANGED <<procs, current>>

\* The UART interrupt, in anybody's time: the shell's space for as long as its
\* parked reads are served, then the interrupted one again.
PollPending ==
    LET fg == procs[Foreground].ttbr0 IN
    /\ Foreground \in Pids /\ procs[Foreground].ring # 0
    /\ m.ttbr0 # fg
    /\ m' = Activate(Activate(m, fg), m.ttbr0)
    /\ UNCHANGED <<procs, current>>

UserPages == Entries ^ 3 .. 2 * Entries ^ 3 - 1

\* The hardware may cache any translation of the live space at any time.
FillTlb(page) ==
    LET desc == Translate(m.mem, m.ttbr0, page) IN
    /\ desc # Zero
    /\ m' = [m EXCEPT !.tlb = @ \union {[page |-> page, desc |-> desc]}]
    /\ UNCHANGED <<procs, current>>

Init ==
    /\ m = Boot
    /\ procs = <<>>
    /\ current = 0

Next ==
    /\ m.ok
    /\ \/ \E image \in Images : Spawn(image)
       \/ Setup
       \/ Exit
       \/ \E p \in Pids : Run(p)
       \/ RunKernelTask
       \/ \E p \in Pids : PollRing(p)
       \/ PollPending
       \/ \E page \in UserPages \union {HeapPage} : FillTlb(page)

Spec == Init /\ [][Next]_vars

-----------------------------------------------------------------------------
(* process.rs: is_user_range, the check on every pointer a request names.  *)

\* Mutant of IsUserRange: wrapping_add for checked_add.
IsUserRangeWrapping(p, ptr, len, needWrite) ==
    LET end == (ptr + len) % AddrTop
        Inside(start, stop) == ptr >= start /\ end <= stop
    IN \/ Inside(UserStackPage * PageSize, (UserStackPage + 1) * PageSize)
       \/ \E r \in Range(procs[p].ranges) :
              Inside(r.start, r.end) /\ (needWrite => r.writable)

IsUserRange(p, ptr, len, needWrite) ==
    LET end == ptr + len
        Inside(start, stop) == ptr >= start /\ end <= stop
        ranges == procs[p].ranges
        holding == {i \in DOMAIN ranges : Inside(ranges[i].start, ranges[i].end)}
    IN /\ end < AddrTop
       /\ \/ Inside(UserStackPage * PageSize, (UserStackPage + 1) * PageSize)
          \/ /\ holding # {}
             /\ needWrite => ranges[Min(holding)].writable

-----------------------------------------------------------------------------
(* Properties.                                                             *)

Alives == {p \in Pids : Alive(p)}

\* The frames on a machine's free list: chain[k] is k links down from the head.
FreeChain(s) ==
    LET chain[k \in 0..s.free] ==
            IF k = 0 THEN s.head ELSE s.mem[chain[k - 1]][0].frame
    IN chain

FreeFrames(s) == {FreeChain(s)[k] : k \in 0..s.free} \ {0}

BootFrames == Frames \ FreeFrames(Boot)

Tables(p) ==
    LET l0 == procs[p].ttbr0
        l1 == Follow(m.mem, l0, USER_L0_IDX)
    IN {l0} \union (IF l1 = 0 THEN {} ELSE Range(Subtree(m.mem, l1)))

Owned(p) == {o.frame : o \in Range(procs[p].owned)}

(***************************************************************************)
(* No frame is leaked, freed twice or held twice.  Every frame is exactly  *)
(* one of: on the free list, taken at boot, a table of one live process,   *)
(* or a page that one live process owns; and the free list, whose links    *)
(* are words of the free frames themselves, ends after free_count frames.  *)
(* In particular exit returns everything that spawn, table creation on the *)
(* way to a mapping, and ring setup took (user.rs teardown,                *)
(* mmu.rs free_subtree).                                                   *)
(***************************************************************************)
FramesAccounted ==
    LET held == MapThenSumSet(LAMBDA p : Cardinality(Tables(p)) + Len(procs[p].owned), Alives)
        everywhere == FreeFrames(m) \union BootFrames
                         \union UNION {Tables(p) \union Owned(p) : p \in Alives}
    IN /\ FreeChain(m)[m.free] = 0
       /\ everywhere = Frames
       /\ m.free + Cardinality(BootFrames) + held = Cardinality(Frames)

(***************************************************************************)
(* A live process's tables map exactly the pages in its owned list, each   *)
(* to the frame recorded there: what teardown unmaps and frees is what the *)
(* program can reach.  With FramesAccounted, two programs never reach the  *)
(* same frame, nor a program a table, although tables and pages are drawn  *)
(* from the same reused frames (mmu.rs alloc_table, map_page_in).          *)
(***************************************************************************)
MappedIsOwned ==
    \A p \in Alives :
        LET mapped(page) == Translate(m.mem, procs[p].ttbr0, page) IN
        {[page |-> page, frame |-> mapped(page).frame] :
            page \in {q \in UserPages : mapped(q) # Zero}} = Range(procs[p].owned)

(***************************************************************************)
(* The kernel stays mapped in whatever space is live: slot 0 of the live   *)
(* root, and of every live process's, leads to the boot L1, and the boot   *)
(* tables are as boot left them.  The SAFETY argument of mmu.rs activate   *)
(* rests on this; freeing a root overwrites its slot 0 with a list link.   *)
(***************************************************************************)
KernelMapped ==
    /\ \A root \in {m.ttbr0} \union {procs[p].ttbr0 : p \in Alives} :
           m.mem[root][0] = TableDesc(m.kernelL1)
    /\ \A f \in BootFrames : m.mem[f] = Boot.mem[f]

(***************************************************************************)
(* A program runs in its own space, although activate skips the switch     *)
(* when INSTALLED already names the root and a new process may be given    *)
(* the very frame that was a dead one's root.                              *)
(***************************************************************************)
SpaceInstalled ==
    current # 0 => m.ttbr0 = procs[current].ttbr0

(***************************************************************************)
(* The TLB holds no translation that the live tables do not give: there    *)
(* are no ASIDs, so every change of root and of a mapping must have        *)
(* invalidated what it made stale (mmu.rs activate, unmap_page_in).        *)
(***************************************************************************)
NoStaleTranslation ==
    \A e \in m.tlb : Translate(m.mem, m.ttbr0, e.page) = e.desc

(***************************************************************************)
(* What is_user_range accepts the kernel can touch: every byte of the      *)
(* range is on a page mapped for the process, and mapped writable when the *)
(* kernel is to write there.  Ranges end mid-page, lengths are zero, and   *)
(* ptr + len may exceed the address space.                                 *)
(***************************************************************************)
UserRangeMapped ==
    \A p \in Alives : \A ptr \in ProbedAddrs : \A len \in ProbedLens : \A w \in BOOLEAN :
        IsUserRange(p, ptr, len, w) =>
            \A page \in ptr \div PageSize .. (ptr + len - 1) \div PageSize :
                len > 0 => Translate(m.mem, procs[p].ttbr0, page).perms
                              \in (IF w THEN {"RW"} ELSE {"RX", "RW"})

=============================================================================
