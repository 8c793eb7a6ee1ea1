# ElysiumOS: TLA+ specification of the kernel

ElysiumOS is a small multiprocessor x86-64 kernel (`src/kernel`), the C library
port (`src/mlibc-sysdeps`), one user program (`src/init`), a support library
(`src/elib`) and a host tool that builds the RAM disk image (`src/rdsk`). This
directory holds TLA+ modules for the parts of the kernel whose correctness depends
on order: several CPUs, interrupts, locks, and data structures that long sequences of
calls must leave consistent. Paths below are relative to `src/kernel/src` unless
they begin with `src/`.

## 1. The system

| Component | State it keeps | Operations | Talks to |
|---|---|---|---|
| **Scheduler, threads, processes** `sched/sched.c`, `arch/x86_64/sched.c`, `sched.asm` | one circular run queue and its lock; the list of processes; per thread: state, cpu, stack pointer, saved FS/GS/FPU; per process: threads, lock; per CPU: GS_BASE, CR3, TSS.RSP0, one-shot timer | create process / thread, schedule, next, switch, drop, destroy, timer entry, exit | heap, resource table, address spaces, LAPIC |
| **Spinlocks** `common/spinlock.c` | one byte per lock | acquire (panics after 10^8 spins), try, release | everything |
| **Physical memory** `memory/pmm.c` | zones, regions, per-order free lists, per-page order and free flag, free counts | region_add, alloc, free | page tables, heap, stacks |
| **Kernel heap** `memory/heap.c` | one list of entries (header + data) in a demand-paged segment | alloc_align, free | virtual memory |
| **Virtual memory** `memory/vmm.c` | per address space: list of segments (in no order), lock; a global pool of segment records | map, unmap, fault, copy to/from | page tables, PMM |
| **Page tables and TLB** `arch/x86_64/vmm.c` | CR3 and its lock; four-level tables; per CPU: shootdown locks and CR3 | ptm map / unmap / physical, shootdown, IPI handler | PMM, LAPIC, interrupts |
| **Interrupts, IPL** `arch/x86_64/interrupt.c`, `interrupt.asm`, `sys/ipl.c` | handler table by vector; IPL in CR8 | request, dispatch, raise / restore | LAPIC, IOAPIC |
| **Resource table** `sched/resource.c` | per process: id -> resource (node, offset, mode), lock | create, create_at, remove, get | system calls, VFS |
| **RAM disk** `fs/rdsk.c`, `src/rdsk/src/main.c` | the tables of the image, chained by index | pack (host tool); lookup, read, list (driver) | VFS |
| **VFS and file systems** `fs/vfs.c`, `tmpfs.c`, `stdio.c` | mounts, node trees, file contents | mount, lookup, create, mkdir, read, write, readdir, truncate | heap |
| **System calls** `syscall/*.c`, `arch/x86_64/syscall*.c` | per process through the tables above | open, close, read, write, seek, stat, readdir, mmap, clock, exit | all of the above |
| **Clock and timers** `sys/time.c`, `syscall_time.c` | realtime and monotonic clocks, list of timers, lock | advance, timer_create, read | PIT interrupt |
| **ELF loader, user stack** `common/elf.c`, `arch_sched_stack_setup` | none of its own | load segments, build argv / envp / auxv | VFS, virtual memory |
| **Boot** `arch/x86_64/init.c` | init stage, CPU count | staged initialisation, waking of the other CPUs, hand-off to the scheduler | everything |
| **PS/2 controller and keyboard** `dev/ps2.c`, `dev/ps2kb.c`, `arch/x86_64/syscall_elib.c` | which ports work, their identities; keys that are down; a buffer of one character, its flag and lock | look for keyboards at boot, key interrupt, input system call | IOAPIC, interrupts |
| **Terminal and log** `term.c`, `common/log.c` | the cursor; the list of sinks and its lock | draw a message, give the screen away | framebuffer |
| **Console** `src/init/src/console.c`, `src/init/src/format.c` | cursor, line typed so far | poll, echo, erase, run a command | system calls for the framebuffer and for input |
| **Panic** `common/panic.c` | none | print and halt | log |

### What is hard in it

* *Everything is shared between CPUs.* The locks are spinlocks without owners or
  queues. Some state has no lock at all and is safe only because of who may touch it
  when (`thread_t.state`, `thread_t.cpu`, a resource after `resource_get`, tmpfs).
* *Control moves between stacks.* `sched_switch` starts on one thread's stack and
  finishes on another's; the thread that was left is put away by whoever runs next.
* *Life cycles.* The last thread of a process frees the process, including the lock it
  holds; a freed thread must be in nobody's hands.
* *Hardware that runs beside the code.* One-shot timers, a clock written while it is read,
  inter-processor interrupts with a timeout, TLBs that go stale, bytes that come too late.
* *Structures that drift.* Buddy lists, heap entries and segment lists are right only
  if every call in a long sequence keeps them so.

### What would make each component correct

* Scheduler: a thread is in the hands of one CPU at most, a queued thread can be
  switched to, a running thread owns its CPU's registers, nothing freed is used, every
  queued thread runs, every exit is reclaimed.
* Physical memory: live blocks are disjoint; the free lists tile the rest; buddies
  are merged; the counts agree.
* Heap: entries tile the segment, allocations are disjoint and aligned, no two free
  entries are adjacent, the checksum of every header is valid.
* Virtual memory: segments are disjoint and inside the address space; after an
  unmap no address of the range is mapped and every other address maps to the same
  memory with the same attributes.
* Page tables: a page grants what was asked for on every level; when a map or unmap returns,
  no CPU still translates through the old entry unless a shootdown went by it.
* Resource table: an id names one open resource; what is closed is not used again.
* VFS: a lookup returns the node the path names across mounts; creation is exclusive
  when asked; reads return what was written.
* RAM disk: what the driver finds in an image is what the tool was given.
* Clock: time does not run backwards and a reader never sees half an update; a timer's
  callback runs once, after its time.
* Interrupts: no vector is kept from being delivered by a handler that does not return.
* Boot: each CPU gets a slot of its own in the table of CPUs, and all that can start do.
* Keyboard: a keyboard that answers is found; no key is delivered twice or out of order.
* Terminal and console: nothing is drawn outside the screen or on a screen that was given
  away; what the user did not type cannot be erased; numbers are printed as C says.

## 2. The modules

| Module | Models | Kind |
|---|---|---|
| `Sched` | run queue, context switch, exit and reclamation, timer, on any number of CPUs | state machine, interleaved at every access to shared memory |
| `SchedAbs` | first-come-first-served dispatching, without locks, switches or memory | abstract specification of `Sched` |
| `SchedProofs` | inductive invariant of `Sched`, what follows from it, and that `Sched` implements `SchedAbs` | proofs |
| `Boot` | the wake-up of the other CPUs, the boot stages, the first switch of each CPU | state machine, one step per access to what CPUs share |
| `Shootdown` | EXTENDS `Boot`: page tables, TLBs, `tlb_shootdown` and its handler | state machine, as `Boot` |
| `ShootdownProofs` | inductive invariant of `Shootdown` and what follows from it | proofs |
| `Clock` | delivery of interrupts, the two clocks, timers, the system call that reads a clock | state machine, one step per load and store of a clock |
| `ClockProofs` | what holds of clocks and timers for every frequency and number of CPUs | proofs |
| `Vmm` | the user address space: segments, page table, record pool, loader, memory system calls, faults | state machine, one step per call |
| `AddressSpace` | pages that are backed or not, resident or not | abstract specification of `Vmm` |
| `VmmProofs` | inductive invariant of `Vmm`, what follows from it, and that `Vmm` implements `AddressSpace` | proofs |
| `Heap` | the entry list of the kernel heap | state machine, one step per call |
| `HeapProofs` | inductive invariant of `Heap` and what follows from it | proofs |
| `Pmm` | buddy allocator, on any number of CPUs | state machine, interleaved at every access outside the zone lock |
| `PmmProofs` | inductive invariant of `Pmm` and what follows from it, for any memory map | proofs |
| `Rdsk` | the RAM disk image: the host tool that packs it and the driver that reads it | state machine for the tool, operators for the driver |
| `Files` | mounts, path lookup, tmpfs, standard I/O, the resource table and the system calls on files, from the first mount on | state machine, one step per call |
| `FileStore` | bytes that stay where they were written, and handles to them | abstract specification of `Files` |
| `FilesProofs` | inductive invariants of `Files`, exclusive opens, that paths name nodes, and that `Files` implements `FileStore`; inductive invariant of `Rdsk` and what the driver finds in an image | proofs |
| `ConsoleProofs` | what holds of the search for keyboards, the keyboard's buffer, the kernel's terminal and the program's screen, for any devices, keys and screens | proofs |
| `Ps2` | the search for keyboards at boot | state machine, one step per byte |
| `Keyboard` | EXTENDS `Ps2`: key interrupt, one-character buffer, input system call | state machine, interleaved around the lock |
| `Mailbox` | a box of one item | abstract specification of the buffer in `Keyboard` |
| `Term` | the log, its sink that draws, and the hand-over of the screen | state machine, one step per character |
| `Format` | what a directive prints, and what the C standard says it prints | operators |
| `Console` | EXTENDS `Term`, `Keyboard`, `Format`: the shell of the init program | state machine, one step per system call |
| `MCSched`, `MCShootdown`, `MCClock`, `MCVmm`, `MCHeap`, `MCPmm`, `MCRdsk`, `MCFiles`, `MCConsole` | the instances TLC checks, and what is asked of these alone | model checking |

Three modules compose components that interact. `Shootdown` is `Boot` with memory: the slots
`Boot` fills are what `tlb_shootdown` loops over, and a CPU that is not yet scheduling may
already be shot at. `Clock` has the two interrupts that share a CPU with its system calls.
`Console` puts the keyboard's path, from the search at boot to the character the program
polls, beside the terminal that gives up the screen and the program that then draws on it.
`Sched`, `Keyboard`, `Vmm` and `Files` relate a component to its abstract specification by
`INSTANCE ... WITH`. The others are kept apart: each takes what it calls for what the
callee's own module shows (the scheduler takes heap memory for granted, `Vmm` takes frames,
the heap its segment), and `Sched` contains the piece of the resource table whose lock
outlives the process.

### 2.1 Sched

State is per CPU (where its code is, and the pointers that code holds), per thread, per
process, and shared (the run queue and its lock, the list of processes).

| In the module | In the code |
|---|---|
| `pc[c]` | the control point of CPU `c` between two accesses to memory another CPU may touch; `"run"` is user code or the idle loop |
| `gs`, `stack`, `nxt`, `prev` | GS_BASE; the stack RSP points into; the local `next`; the thread handed to `sched_thread_drop` through RDI |
| `as`, `rsp0`, `regs` | CR3; TSS.RSP0; FS_BASE, KERNEL_GS_BASE and the FPU, named after the thread whose values they hold |
| `timer`, `irq` | the LAPIC one-shot counter; its vector pending |
| `queue`, `g_sched_threads_lock` | the circular list, head first; its spinlock by holder |
| `state`, `cpu`, `mem`, `saved`, `ctx` | `thread_t.state`, `.cpu`; whether the record is allocated or freed; whether `.rsp` points at a complete frame nobody runs on; the saved FS, GS, FPU |
| `threads`, `lock`, `rlock`, `pmem`, `g_sched_processes` | `process_t.threads`, `.lock`, `.resource_table.lock`; whether the record is allocated; the list of processes |

Actions are named after functions. A function that takes a lock is cut there:
`NextAcquire` and `sched_thread_next`, `ScheduleAcquire` and `ScheduleLink`,
`DestroyAcquire`, `arch_sched_thread_destroy`, `ProcessDestroyAcquire`,
`sched_process_destroy`, `ThreadFree`. A context switch is three steps
(`sched_switch`, `x86_64_sched_context_switch`, `sched_thread_drop`), so that another
CPU may act between any two. Interrupts are off in the kernel, which is why
`sched_entry` is enabled in `"run"` only while `TimerExpire` may happen anywhere.

Today the kernel starts one user thread and has no system call that makes another, so
`UThread` with several members, and several threads in a process, is what `sched.c` is
written for and not yet what `init.c` does: the code of exit and reclamation counts
threads, and the module holds it to that. Kernel threads other than the idle and dummy
threads do not exist.

### 2.2 Vmm

Addresses are bytes with a page of two, so that every rounding and every boundary of
`vmm.c` is exercised. A process has one thread and only that thread reaches its address
space, so each call is one step.

| In the module | In the code |
|---|---|
| `segs` | `address_space->segments`, as a set of records with base, length, type, protection, cache and physical address |
| `pt` | the lower half of the page table: what the entry of each page grants, and which frame it names (0/1: unlike the one before) |
| `pool`, `kpages` | the length of `g_segments_free`; kernel pages that were turned into segment records |
| `todo`, `loaded`, `halted` | PT_LOAD headers still to come; the program runs; the kernel panicked |

`elf_load` and `arch_sched_stack_setup` build the address space,
`syscall_mem_anon_allocate`, `syscall_mem_anon_free`, `syscall_elib_framebuffer`,
`x86_64_vmm_page_fault_handler` and `vmm_copy` (both directions) are what a running
program does to it. `AddressSpace` has ranges of pages and no calls; `CallsMatch`, the second
half of `ImplementsAddressSpace`, says for each call with its arguments which of its actions
the step is: freeing `(lo, n)` is `Unmap` of the pages of these `n` bytes and of no other
(`SplitEnd` is where the loop of `vmm_unmap` stops inside a segment that goes on), a mapping
of `n` bytes is `Map` of as many, at a page that only the kernel chooses. `map_common` and `vmm_unmap` are written declaratively. The restart
loops are there beside them (`find_space_loop`, `memory_exists_loop`), with each result a
list in some order gives, and `FirstFit` and `RangeCheckExact` compare the two.

Arguments passed to `vmm_map_anon` in the wrong order are modelled as the numbers that
arrive: flags and cache modes are numbers in the module.

### 2.3 Heap

`entries` is the list `g_entries`, each with its address, size, free flag and the value
its checksum was last computed from; `live` is what callers hold. `heap_alloc_align` is
first fit, the front part for alignment and the rest behind the block both becoming
entries; `heap_free` merges with the next entry, then with the previous one. `refused`
remembers the request that ended in a panic. Allocation and freeing hold `g_lock`
throughout, so one step is one call on whichever CPU.

### 2.4 Pmm

The initial state is what `pmm_region_add` leaves behind for a memory map: clipping to
the zone, the pages its records take, the greedy cut into blocks. After that the free
lists change under the zone lock (`pmm_alloc`, `FreeMerge`, `FreeAppend`) and the flags
`free`, `order` and the free count outside of it, in steps of their own (`AllocMark`,
`AllocLoad`, `AllocStore`, `pmm_free`, `FreeLoad`, `FreeStore`). The kernel as it stands
allocates from every CPU and frees from none (`memory/vmm.c:73` says "TODO: unmap phys
mem"). `QuietSpec` has every CPU allocate at any time, beside any other, and a CPU free while
no other is in the allocator; `Spec` lets them free at any time too.

### 2.5 Rdsk

Two programs that share a format and no code. The state is the host tool's: `dirtable` and
`filetable` (the entries in use), `data`, the open calls of `create_recurse` in `stack`,
`errno`, which is set by any failure and never cleared, and `tree`, the part of the host's
directory tree that `readdir` has returned so far. `PackDir`, `PackFile` and
`EndOfDirectory` are one turn of the loop of `create_recurse` each. The entry of the root
is chained to a parent that is not in the table, so its `next_index` is anything; nothing
the driver does may depend on it. Indexes into the tables begin at 1 in the module, and so
does what the driver adds to a table's address.

The driver changes nothing but its cache of nodes, so its calls are operators:
`rdsk_node_lookup`, `rdsk_node_rw`, `rdsk_node_readdir`, `rdsk_node_name`. They are
evaluated in every state of the tool, finished or not; what depends on a finished image is
asked when the tool reports success (`Packed`).

### 2.6 Files

| In the module | In the code |
|---|---|
| `nodes` | every `vfs_node_t` of every file system, in the order they come into being: file system, parent, name, type, contents; `NULL` for a root's name and for the contents of directories and streams |
| `mounts` | `g_vfs_all` with each file system's `ops`, `mount_node` and root; a node's `vfs_mounted` is the mount that names it |
| `boot` | the calls `init.c` has still to make: mounts, `mkdir`, one file per boot module, the resources 0, 1, 2 |
| `table` | `resource_table.resources`: node, offset and mode by id |
| `ret`, `buffer` | `syscall_return_t` (and `-EMFILE` as a value, which is what a full table gives); the bytes the last `rw` moved |
| `halted` | a panic: a mount, a `mkdir` or a lookup of a stream that fails at boot, a block of no bytes or of more than there is, an overflow of `off_t` in the debug build |

There is one process with one thread, so a call is a step. Paths are sequences of
components, since lookup decides by component; whether a slash follows the last one matters
(`open("a/", O_CREAT)` does not create) and is kept. `lookup`, `make`, `read_error`,
`write_error` and `truncate_error` are what the three drivers do, chosen by `Ops`. `Walk`
is the loop of `vfs_lookup_ext` and `Onward` one turn of it; `MISSING` is the point at which
it creates. `Content` and `Handles`, at the end of `Files`, are what `FileStore` sees of it. The RAM disk
appears as its tree, which is what `Rdsk` shows of the driver.

Four things a reader of `vfs.c` may not expect, and the module has: `..` at the root of a
mounted file system stays there, since line 81 looks `..` up in the same node again;
`O_EXCL` refuses every path of more than one component (line 101 is reached for each that
exists), so only a last component in the directory one starts from can be created
exclusively; a path without any component reaches no check at all, so that
`open("/", O_CREAT | O_EXCL)` succeeds and gets the root that is there (lines 52 to 69 and
114); and a file made or emptied by `open` stays so when a later step fails.
`PathsNameNodes` states the first as the rule for `..`, and `ExclusiveCreates` the third as
what becomes of a path without a component.

`FileStore` knows neither names nor drivers: contents by file, position by handle. A read
returns what is there, a write changes the bytes at the position and no other, a hole is
anything, opening may empty a file only for writing. Nodes without contents are `NoFile`.

### 2.7 Boot and Shootdown

| In the module | In the code |
|---|---|
| `pc` | where each CPU is: starting (`"parked"` ... `"switching"`), a thread (`"run"`), in `arch_vmm_ptm_map` or `unmap` (`"lock"`, `"shoot"`, `"send"`, `"wait"`), in the handler (`"flush"`, `"answer"`), or in a fault without end (`"lost"`) |
| `stage`, `count`, `slots`, `k`, `previous_count` | `init_stage`, `g_x86_64_cpu_count`, `g_x86_64_cpus` by the CPU that filled each entry, and two locals of `init` |
| `dir`, `leaf`, `cr3_lock` | each address space's directory entry and page entry (rights, or `None`), and `cr3_lock` |
| `cr3`, `tlb` | what each CPU has loaded, and the translation it remembers of each space |
| `lock`, `check`, `target`, `ipi` | `tlb_shootdown_lock`, `tlb_shootdown_check`, `tlb_shootdown_cr3` of each CPU; the interrupt is pending |
| `op`, `i` | the call a CPU is in; the index of the loop of `tlb_shootdown` |
| `missed` | history: CPUs a shootdown went by since they last flushed |

An address space is cut down to one page below one directory: that is enough for rights on
two levels, a directory that outlives its page, and both exits of `arch_vmm_ptm_unmap`. The
body of a table change is one step, since `cr3_lock` is held; the loop of `tlb_shootdown`
is a step for each access to another CPU's record. `HandlerEnter`, `HandlerFlush` and
`HandlerAnswer` are apart because the sender may write the target between them; `Crossed`
names the case, and `GiveUp` the 3000 turns without an answer: two CPUs that shoot at each
other, both with interrupts off, always end that way. Either way the CPU joins `missed`.
The branch of `tlb_shootdown` for stages before SCHED is taken only while the other CPUs
are not started and is left out.

A CPU enables interrupts (`init.c:157`) before it has a thread; a shootdown that finds it
there sends its handler through a null thread pointer. The module goes to `"lost"` and says
nothing of what comes after. `ShotAtEarly` is that moment: `EveryCpuStarts` promises that a
CPU gets to the scheduler and into a thread unless it is shot at so early, and accepts
no other way of not getting there.

Two merges are left in the module. `Acquire` takes `tlb_shootdown_lock` and
`tlb_shootdown_check` in one step, since only the holder of the first ever keeps the second.
A `spinlock_try_acquire` of the check that succeeds is followed at once by its release, and
the two are one step, in `HandlerEnter` and in `Served`.

### 2.8 Clock

`irr` and `isr` are the vectors each LAPIC has requested and in service, of which two
matter; `g_entries` is computed by the four calls of `x86_64_interrupt_request` that `init`
makes, and a vector's class decides what is delivered first. `clock` holds both clocks;
`stores` the halves `time_advance` has still to write, in any order, as the compiler may;
a reader's two loads are steps too, without the lock, as in the code. `fired` records for
each timer its deadline and the ticks at which it was called. `elapsed` bounds the periods
of the PIT; an edge that finds its vector still requested is lost. Kernel code creates
timers (none does today) at any time it has interrupts off.

### 2.9 Ps2, Keyboard and Mailbox

`Ps2` has both ports, what is plugged in, the output buffer of one byte, and the bytes each
device is about to send. `Script` is the sequence of `port_initialize`: `PortExpect`,
`PortRead` and `PortTimeout` are `wait_read` with its outcomes, `PortSend` is
`x86_64_ps2_port_write` with its own. A byte that comes after its
timeout stays in the buffer and is read as the answer to the next question, or as the
configuration; a port that has failed, or is done, sends until `PortDisable` stops its clock,
and what arrives until then is left for the next port. `LATE` bounds the waits that end before
what they wait for. A mouse on port one sends a byte after its reset
that nothing waits for, and counts as late when it has not come.

`Keyboard` is what happens to a key of a keyboard on port one: the handler on the BSP in user mode only, `elib_input`
under `g_lock`, the program's system call on whatever CPU the scheduler moved it to. Each
character carries the number under which it was stored, which is all `Mailbox` sees.

### 2.10 Term, Format and Console

`Term` is the log's loop over its sinks, one character a step under the log's lock, against
`term_close`, whose removal of the sink waits for that lock. `Format` is `format.c`, directive
by directive; `CNumber` is the standard's text as a definition. `Console` is the program: a
call of `elib_input` that returns a character does with it, in the step of the return,
what `kcon_keyboard_handler` does, as the kernel can see no difference. The cursor moves by
`conwrite` for every character any command prints. What the code leaves to chance is a choice: the
command pointer of an empty line is any word left on the stack, or ends the program
(`console.c:107`); a character behind the array is survived or not (`console.c:403`).

## 3. The runs

All properties are stated, with the behaviour they are about, in the modules. Some are
conjunctions of named parts, in brackets here.

| Run | Checks | Shows |
|---|---|---|
| `sched` | `CpuCurrent` `ThreadExclusive` `ThreadOwnsCpu` `NoUseAfterFree` `ProcessLifetime` `QueuedThreadRuns` `ExitReclaims` `ImplementsFairAbs` | threads preempted, calling and exiting in every order are never in two hands, run on their own stack and registers, and are freed once nobody points at them; under the fairness below every queued thread gets a CPU and every exit ends in the thread, and after its last thread the process, being freed; the scheduler implements `SchedAbs`, safety and fairness |
| `sched_dangling` | `DestroyedProcessIsUnlinked` (violated) | finding 1 |
| `smp` | `SlotPerCpu` `TablesSound` (`TypeOK`, `RightsGranted`) `StaleOnlyAfterMiss` `EveryCpuStarts` `ShootdownEnds` | every CPU that can start gets a slot of its own and reaches the scheduler, unless a shootdown reaches it before its first thread (`init.c:157`); tables grant what was asked; a CPU remembers an old translation only while a shootdown is on its way to it or after one went by it; every map and unmap returns, even of two CPUs that wait for each other |
| `clock` | `ClocksSound` (`TypeOK`, `ClocksAgree`, `ReadWithinASecond`) `TimersOnTime` `TickCounted` | clocks show the ticks counted; a clock read in halves is less than a second off; a timer is called once, by the first tick that reaches its deadline; no tick waits for ever |
| `vmm_safety` | `SpaceSound` (`TypeOK`, `SegmentsApart`, `EntriesCovered`) `RecordsAccounted` `SearchesExact` (`FirstFit`, `RangeCheckExact`) `FramesStay` `ImplementsAddressSpace` | segments stay apart, no translation outlives its segment, no record is lost, the search loops compute what `Vmm` says in any list order, stored data stays, and every call maps, unmaps or uses the pages its arguments name and no other |
| `vmm_direct` | `ImplementsExactly` (violated) | finding 2 |
| `heap_safety` | `HeapSound` (`TypeOK`, `EntriesTile`, `SealsValid`, `FreeMerged`) `BlocksServed` `RefusedOnlyWhenFull` `BlocksStay` | entries tile the heap, headers are sealed, free neighbours merged, blocks stay as served, and a request is refused only when no gap could hold it |
| `pmm_buddy` | `BlocksSound` (`TypeOK`, `PagesTile`) `BuddiesMerged` `CountNeverLow` | with two CPUs that allocate at once, and free one at a time, the stale flags inside larger blocks never mislead the merge, and the count, whose updates they lose to one another, never falls below what the lists hold |
| `pmm_race` | `ReservedForOwner` (violated) | finding 3 |
| `rdsk_image` | `ImageSound` (`TypeOK`, `ChainsEnd`, `UpIsDown`) `ImageFaithful` `ListsAll` | the loops over chains end; from an image packed with success every file is found and read as it was, every directory lists each entry once, and the way up is the way down |
| `files_calls` | `TreeSound` (`TypeOK`, `PathsNameNodes`) `ExclusiveCreates` `ImplementsFileStore` | after each mount and each call every visible node has one path and every path leads to the node it spells; an exclusive open that names a component makes a new file or fails; whatever is opened twice, truncated or seeked in, the calls implement `FileStore` |
| `console` | `FormatAdheresToC` `IdentitiesTrue` `KeyboardsFound` `KernelDrawsOnItsScreen` `ScreenSound` (`DrawnOnScreen`, `PromptStays`) `ImplementsMailbox` | numbers are printed as C says; no late byte is taken for an identity and a keyboard that answers is found; no message is drawn on a screen given away; whatever is typed, the cursor stays on the screen and behind the prompt; the buffer of keys implements `Mailbox` |

### Bounds, and why they are enough

* `sched`: two CPUs, the least on which a thread can be in two hands, and two threads of one
  process, which race for its last exit. Threads run and make calls for ever. Every property
  of the run but liveness and fairness is proved for any number of CPUs, threads and
  processes; `sched_dangling` needs one thread.
* `smp`: two CPUs that start, the BSP second in the table, and one that does not, so that a
  slot is skipped; one process with a thread on each; two maps or unmaps (`OPS`). Two calls
  on two CPUs shoot at each other or follow each other on one CPU; the first may come while
  the other CPU is still starting. What is proved holds for any number of all of these.
* `clock`: a second of 4 ns and two ticks to it, so that every other tick carries; two CPUs;
  a timer due at the next tick and one due only after a carry; three ticks (`TICKS`), one
  more than it takes to carry and advance again while a reader is between its loads.
* `vmm_*`: addresses 2 to 13, 5 1/2 pages of 2 bytes, two program headers, one of which
  starts inside a page, a framebuffer of one page and a half, requests of one to three pages,
  three segment records to a kernel page so that the pool runs dry and refills. That gives
  room for the holes it takes to split both ends of a hole that spans several segments.
  Unaligned addresses and lengths occur. An uninitialised cache field holds any
  value; one stands for all (`Garbage`), since no property depends on it.
* `heap_safety`: 26 bytes with headers of 2 and four kinds of request: one smaller than a
  header, one that leaves less than a header behind, one of a third of the heap, one
  with an alignment larger than itself. Up to eight entries. Requests never end.
* `pmm_buddy`: two regions, one clipped by its zone, orders up to 2. The first has seven data
  pages, which are cut into one block of each order, so that there are pages that never have a
  buddy and the merge stops at each order; the second has one. Two CPUs,
  which are interchangeable (`SYMMETRY`). Each lost update leaves the count too large for
  good, without bound, so the states are followed until it is two pages above the memory
  there is (`MaxDrift`); nothing but the count depends on it. What is proved has no such
  bound. `pmm_race`: the same memory, and both CPUs free at any time.
* `rdsk_image`: any tree of up to three directories below the root and three files, names
  of two, contents of no, one and two bytes, met in any order, with a failure to open at any
  entry; tables that grow by two entries (the tool: 16), so that a table is full, half full
  and just grown. With two names a chain has up to two entries, and the
  same name occurs in different directories.
* `files_calls`: the mounts `init.c` makes, on a disk whose `/tmp` holds a file that the mount
  hides; two boot modules of the same name; a table of five entries, of which the calls use
  two beside the three streams, so that one file is open twice and the table fills;
  one new file at a time (`MAX_NODES`); contents of two byte values up to two bytes
  (`HEAP`; more is the heap's panic); offsets of three bits, so that a seek leaves a
  hole, reaches the largest offset and overflows. `Opens`
  holds each way of opening and each refusal. `VIEW` leaves `ret` and `buffer` out of what
  makes a state new: no call reads them, and the step properties still see their new values.
* `console`: a keyboard on either port with a mouse on the other; one wait that ends before what
  it waits for (`LATE`); four keys pressed (`PRESSES`), one code not handled yet (`CODES`), on a
  layout of two letters, tab, space, backspace, enter and shift; lines of two characters
  (`MAX_CHARS`) and the one behind them; a screen of 5 by 3 characters, on which a line wraps
  within four keys, a tab reaches the end of a line, and a command ends on the next screen;
  commands of one letter, one with an argument; two CPUs that log on a terminal of 2 by 1.
  `FormatAdheresToC` says nothing of the state and is asked of the first states only, of every
  set of flags with four widths, three precisions and six values, and of every length prefix.

`CHECK_DEADLOCK FALSE` stands in `Rdsk`, whose tool ends, in `Console`, where the program may
end and the keys run out, and where a panic ends every step: `Vmm` and `Files` (`halted`),
`Heap` (`refused`), `Pmm` (a CPU that asserts keeps the zone lock). `Sched`, `Shootdown` and
`Clock` never stop and their runs check deadlock.

### Fairness

`FairSpec` of `Sched` assumes four things. A CPU keeps executing
(weak fairness of its steps that need no lock). A spinlock that is free again and again
is obtained in the end (strong fairness of the acquiring steps): `spinlock_acquire` has
no queue and guarantees nothing by itself, but it panics after 10^8 failed turns, so a
run in which a CPU loses for ever is not one the kernel continues. A timer that counts
expires (weak fairness). A pending interrupt is taken before the next user instruction
(strong fairness of `sched_entry`; strong because a thread may make one system call after
the other, during which interrupts are masked). Threads are not assumed to call, exit or
do anything.

`FairSpec` of `Shootdown` and of `Clock` assumes that CPUs execute (weak fairness of the
start, and of each CPU's own steps). In `Shootdown` nothing is assumed of interrupts, accesses
and calls, so that no shootdown is assumed to be answered: that two calls never wait for each
other for ever follows from the 3000 turns. Its locks need no strong fairness
because calls are bounded (`OPS`); for an unbounded number the remark on `spinlock_acquire`
applies. In `Clock` a CPU takes an interrupt that is pending instead of the next user
instruction, as hardware does; devices are not assumed to raise any.

### Findings

1. `sched/sched.c:43`: `sched_process_destroy` frees a process that is still linked in
   `g_sched_processes`.
2. `memory/vmm.c:246`: when `vmm_unmap` splits a direct segment, the part behind the hole
   keeps the physical address of the whole.
3. `memory/pmm.c:110`: the free flag of a page just allocated is cleared after the lock
   is released; a `pmm_free` of its buddy on another CPU would merge it.

`PROJECT.json` quotes the comments these contradict.

What the modules contain beside these, without contradicting a comment: flags and cache mode
are passed in each other's place (`common/elf.c:135`, `syscall_elib.c:24`,
`arch/x86_64/sched.c:201`), so that mappings meant to be fixed or cleared are neither; `%.0d`
of 10 prints `1` (`lib/format.c:317`); `O_EXCL` refuses every path of more than one component
(`fs/vfs.c:101`) and none of no component (`open("/", O_CREAT | O_EXCL)` gets the root that is
there, `fs/vfs.c:114`); the count of free pages can be too large (`memory/pmm.c:112`); a
processor shot at before its first thread is lost (`arch/x86_64/init.c:157`); the command pointer of an empty line is not initialised
(`src/init/src/console.c:107`) and a full line writes behind its array (`console.c:403`).

## 4. What is proved

Eight modules hold theorems, each for one component (`FilesProofs` for two) and for every
value of its constants that the assumptions allow. Each has an inductive invariant, `IInv`; proves in one lemma per
action, or per kind of action, that a step keeps it; and derives the properties from it.
`Format` has no theorem.

**`SchedProofs`**, for any number of CPUs, threads and processes. The only assumption is
`SchedAssumption` of `Sched`: the idle and dummy threads of the CPUs are different from each
other and from the user threads, each thread belongs to one process, the null pointer is
none of these. None of the properties is inductive by itself. That a queued thread can be
switched to depends on who dropped it and what that CPU held; that a freed thread is in
nobody's hands depends on what every control point still points at. `IInv`, at the end of
`Sched`, is the strengthening:

* `ControlGs`, `ControlNxt`, `ControlPrev`: which of its pointers a CPU holds at which
  control point and what they point at: while it drops a thread, that thread has a
  complete frame; at `"enqueue"` it is a user thread that has not exited.
* `HeldOnce`: `ThreadExclusive` on the pointers alone.
* `Membership`, `LiveThreads`: a thread is in its process until the CPU that drops it
  takes it out; a live one that is out is being freed. These carry `NoUseAfterFree` and
  `ProcessLifetime` through the race of two exits.
* `Registers`: the saved registers of a thread are its own, always, and those of a CPU
  are those of the thread in GS_BASE.

`Inductive` joins the lemmas; the property theorems follow from it. `ImplementsAbs` uses it
once more: every step of `Sched` is a step of `SchedAbs` or leaves its variables alone. A
thread joins the line at `ScheduleLink`, is taken at `sched_thread_next`, and ends at
`ThreadFree`; that a thread taken is never one the CPU already holds is `HeldOnce`.

**`ShootdownProofs`**, for any number of CPUs, address spaces, rights and calls, from
`BootAssumption` (each CPU is once in the boot loader's table, the BSP can start) and
`SpaceAssumption`. The argument for `StaleOnlyAfterMiss`: a translation is made from the
tables as they are, so it becomes stale only when a call changes them; that call's loop
then starts at slot 1; the CPU that remembers the translation has run a thread, so it
has a slot, and with `SlotPerCpu` and the order of the boot the count already
includes it, so the loop will reach it (`Pending`). The loop passes it by flushing,
if it is the CPU itself; or after an answer, and then the handler has flushed the space
the holder of the lock had written, unless it began before (`Crossed`); or by giving up. The
last two put the CPU into `missed`. In `IInv`, `Held` says who holds whose lock,
`Remembered` that a CPU remembers nothing of spaces it can no longer reach,
`StaleWillBeReached` that every stale translation is one a loop will still reach, and
`BootInv` what each stage of the boot implies.

**`ClockProofs`**, for every length of a second, frequency of the PIT, number of CPUs and set
of timers, from `ClockAssumption` (a tick is shorter than a second, timers run for some time,
the boot time is normalized). Adding normalized times adds what they stand for (`Sum`) and
comparing them field by field is comparing them (`Compared`). While `time_advance` stores,
each half of each clock is that of this tick or of the last (`Halves`); so a reader has
seconds that are at most a second less one nanosecond behind the tick before its call, and
never ahead of the count (`Readers`). A timer in the list is due after the last tick whose
timers have been called (`TimersHeld`).

**`VmmProofs`**, for every page size, user space, program, framebuffer and request, from
`VmmAssumption` (the user space begins at a page boundary above 0; a page holds more than two
records; no request is of no bytes, which the system calls refuse). `IInv` is what the run
checks, `TypeOK`, `SegmentsApart`, `EntriesCovered` and `RecordsAccounted`, which is inductive
once the searches are understood. `Calls` shows of each action, with
its arguments, that it adds a segment of so many bytes, uses these pages, frees this range, or leaves
both alone and the kernel stops. That `find_space` returns a free place follows from
least and greatest elements (`FindSpace`). For `vmm_unmap`, `Cuts` and `LeftOver` say which
pieces of which segments stay, and `LeftOverCount` that there are as many as the records taken
from the pool, whichever segments the hole begins and ends in. That the loops compute
the same in any order of the list (`SearchesAlwaysExact`): each is a recursive function of the place, or
the range, it has come to; the address rises with every turn of the first, and what is left of
the range shrinks with every turn of the second, so a least counterexample is refuted.
`Refinement` maps segments to the
pages they back and the page table to the pages that are resident: adding is `Map` of the
segment's own pages (`AddMaps`), using is `Touch` of the pages used (`UseTouches`), freeing
`Unmap` of those in the range (`FreeUnmaps`). `CallsMatched` joins these with `Calls`: what
each call does is fixed by its arguments, but for the place of a mapping. For that it is assumed
that an absent entry is unlike every entry `segment_map` can make (`VmmAssumption`).

**`HeapProofs`**, for every size of heap and of a header and every set of requests, from
`HeapAssumption` (the heap is larger than one header, requests are of some bytes). `IInv`: the
entries fill the heap (`Fills`: from end to end, sealed, no two free ones in a row), those in use
and the blocks that callers hold belong to each other (`Paired`), and a refusal was justified.
`SpliceParts` and `Replaced` say what a list is like after one stretch was exchanged; `Cutting`
and `Serving` that `heap_alloc_align` exchanges a free entry for one to three that fill the
same bytes; `Joining` the same of the two merges of `heap_free`. There are as many entries in
use as blocks because the pairing is one to one.

**`PmmProofs`**, for every memory map, number of orders, size of the records and number of CPUs,
from `PmmAssumption` (a region's record and one page record fit into a page) and
`MemoryAssumption` (the boot loader's usable entries are not empty and do not overlap). `IInv`:
the blocks that are listed, owned, or in some CPU's hands between two steps tile the zone
(`Tiled`); no two CPUs work on one (`Apart`); the record of each has its order, and the flag
of every page says free unless a block that was handed out begins there (`RecordsTrue`). The merge
reads the record of the page at the buddy's place, which may lie in the middle of something
larger and be stale. It is not misled: blocks of powers of two are apart or nested
(`Nested`), so a larger block there would hold the block being freed as well (`BuddyBlock`); a smaller
one begins there, and its record says so. `SplitFacts` and `MergeFacts` say that halving and
merging keep the tiling, `CutsCutUp` that `pmm_region_add` starts one.

The theorems are about `QuietSpec`: any number of CPUs allocate at once, as those of the kernel
do, and a CPU frees while no other is in the allocator. That much is necessary: finding 3
begins with a free beside an allocation, and a merge of pages somebody owns. Two CPUs that
subtract from the count outside the lock lose a subtraction, and the count stays too large from
then on. `CountIsNeverLow` is what does hold: it never says less than the lists have. With one
CPU it is exact (`CountExactAlone`), which is not what the kernel runs on, so it is not
listed.

**`ConsoleProofs`**, for any devices, layout, screen and number of keys and of waits that end too early, from
`Ps2Assumption` (a port has a keyboard, a mouse or nothing), `TermAssumption` (a screen has
a character), and `ConsoleAssumption` with `FormatAssumption` (there is room for more than one
character; messages and the working directory are texts, widths and precisions numbers). The
search for keyboards: at each step of the script, `Ahead` says what each kind
of device has still to be read, and `Ps2Inv` that the buffer and the device hold exactly that or,
after a late byte (`OffTrack`), something that makes the next comparison fail; so a port passes
with the right identity or not at all, and if no wait ended too early it passes. A port that
failed may send on until its clock is stopped (`"stop"`); what then arrives is a late byte to the
next. The buffer: its two
sides are atomic because each holds the lock (`BufferInv`), so the whole system implements
`Mailbox`. The kernel's screen: once the sink is gone nobody draws and nobody starts (`TermInv`).
The program's: `ScreenSound` is not inductive, for a backspace on the prompt's own line could
take the cursor before the prompt's end. `ScreenInv` adds `Room`: there every character of
the line has left the cursor at least its width behind the prompt, unless the prompt is at the
edge. That the cursor stays on the screen is one lemma about `conwrite` (`Writing`) and, for
messages of every length, a shortest counterexample refuted (`Printing`), which needs
that what `format` puts out is finite, whatever the directives (`FormatIs`).

**`FilesProofs`**, for every disk, set of modules, table, heap and set of calls, from
`FilesAssumption` (a table has the three entries the boot fills; the largest file is shorter
than the largest offset) and `BootAssumption` (the disk is as its builder writes it: parents
before children, no name twice in a directory; a module fits into the heap) and `NameAssumption`
(entries lie in directories and are called neither `.` nor `..`, which the builder skips and the
boot loader, passing file names, has none of; a component of a path is a name). `IInv`: the form of
nodes, mounts and handles (`Form`); directories and streams hold no bytes and all other
nodes do (`Kinds`); and, as the boot proceeds, where it has put what its lookups pass
(`Layout`). The last is there for the refinement: the handles 0, 1 and 2 must be of
streams, and they are because `/tmp/stdio/stdin` leads through the root of the disk, over
the mount at `/tmp`, to the directory made there, and over the mount on that. What a walk
finds is proved for every length of its path: one turn of the loop refutes a shortest
counterexample (`WalkFinds`, `WalkTrail`, `ExclusiveWalks`). An exclusive walk of a component or
more arrives nowhere, so a node it returns was made, and where it lacks the last component it
stands where the ordinary walk does (`ExclusiveWalks`); one without a component goes nowhere, and
returns the node it began at (`NoComponentWalks`): this is `ExclusiveCreates`. In `Refinement` the boot calls
are `Appear`, an open that fails may have emptied or made a file (`OpenInVain`), and
`StepImplements` rests on one lemma for each call.

`PathsNameNodes` needs a second invariant, `Tree`: no two nodes of a directory have one name
(`NamesUnique`), every file system is mounted on a node in the root of one mounted before it
(`RootOf`), and no two on the same node (`MountsApart`). `TreeStep` keeps it with `IInv`, which
says where each mount goes: the check for `EBUSY` gives `MountsApart`, and a lookup that lacks its
last component (`MissingIs`) gives `NamesUnique` to what `open` makes. `TreesNameNodes` then
takes it for any tree, without a step of the kernel. The directory a node is seen in is made
before it (`UpIs`), over mounts too, so the functions of `vfs_path` and `Shown` are well
defined, and two nodes with one name would have directories with one name (`Unique`). A walk is
at the node its text spells or has failed (`WalkSpells`), for which one component is `StepSpells`
and `..` is `Upward`; and the texts on the way to a node's name are those of directories
(`NamesSpell`), so a lookup of what `vfs_path` writes is back at the node.

The same module has the RAM disk, for every tree of the host, every growth of the tables and
every failure of the tool. `RdskInv` is the invariant. `Threads` says, of the
directories and of the files, that the entries of one parent are chained from its head, latest
first and none left out, which is why the driver's loops end and miss nothing. `NamesDiffer` and
`OnePath` say that what a lookup finds is the only entry it could find. `Located` names, for
each directory, the path the host had it under, says that its entries are those the tool has
read there, all of them unless `errno` is set, and that a call on the stack is at the directory
it says. `PackDir` and `PackFile` put an entry in front of one thread, by one lemma for both tables.
`TablesAlways` is that invariant; `ImageAlwaysSound`, `ImageAlwaysFaithful` and
`AlwaysListsAll` follow from it without a further step of the tool: a lookup of a path goes down
`Located`, a listing takes the files' thread and then the directories'.

What the proofs found wrong in the models, since corrected: an unmap of no pages and a null value
that could have been a mapping (`Vmm`), boot calls whose lookup fails (`Files`).

Where these proofs need induction it is over numbers: a set of naturals that is not empty has a
least element (`Least`, from the library's theorem that `<` is well-founded), and a least
counterexample is refuted. The library's induction theorems take an operator as a parameter,
which the provers cannot instantiate.

Only model-checked: every liveness property, and the fairness of `SchedAbs` (the prover
has neither `ENABLED` nor fairness); `FormatAdheresToC`, a claim about every digit of a number;
and finding 3, where a CPU frees beside others.

## 5. What is not modelled

* *Code that only computes or does I/O*: fonts and drawing, descriptor tables, CPUID and MSR
  accessors, ports, ACPI parsing, UBSAN reports, the C library port, the support library.
* *Boot before the other CPUs are woken*: straight-line set-up on one CPU with interrupts off,
  except for the mounts (`Files`) and the regions of memory (`Pmm`). The IOAPIC's entries are
  unmasked in two writes (`dev/ioapic.c:157`).
* *Time*: `spinlock_acquire`'s panic after a number of turns; the models take a spin as waiting.
* *Failure of hardware*: there is no recovery code for it, but for late bytes (`Ps2`).
* *Weak memory ordering*: x86-64 is strongly ordered and every access another CPU may race
  with is a step of its own.
* *A panic while the log's lock is held* (`common/log.c:28`): it hangs instead of reporting.
* *What cannot happen because a process has one thread*: `resource_get` returns a
  pointer after it has released the lock (`sched/resource.c:55`); `vmm_fault` takes no lock
  while `vmm_unmap` holds one. And a timer's callback that creates a timer waits for
  itself (`sys/time.c:22`); no code creates timers.
* In `Shootdown`: more than one page of a space, and the walk itself; the kernel half of
  the tables beyond one entry; what a CPU does after it is `"lost"`.
* In `Vmm`: address spaces shared by several threads (there are none), the kernel address
  space, the contents of memory, protection faults.
* In `Pmm`: other zones (every caller asks for the normal one), the order in which equal
  blocks are taken from a free list (any), `PMM_AF_ZERO`.
* In `Files`: attributes other than the size; what user pointers do to a copy (`Vmm` has it),
  except that a copy in may fail; ids outside the table given to `close`, which the code does
  not check; memory that `stat` and `open` do not give back; `getcwd`, `readdir` and
  `vfs_rw`, which change nothing or are never called.
* In `Heap`: the contents of blocks; requests of no bytes, which an assertion excludes.
* In `Ps2` and `Keyboard`: what a controller that answers nothing makes of it (a panic); the keys
  of a keyboard on the second port, whose codes come to the same handler (`dev/ps2kb.c:67`)
  untranslated, so that it would take them for other keys; what still works when a late byte has
  been taken for the configuration, about which no property says anything.
* In `Rdsk`: host paths of 1024 bytes or more, which the tool cuts (`src/rdsk/src/main.c:168`).
* In `Format`: directives that are not valid, `%p` and `%n`; a negative precision given by
  a star and precision 0, where the code differs from C.
* In `Console`: what `main.c` does before the console starts; prints before there is a
  framebuffer; `get_arg_num` and the kernel's `term_kb_handler`, which nobody calls; what
  the program does after it has written behind its array.

## 6. The plan

What is left: the log's lock against a panic, and the walk over several levels of page tables
when a process gets a second thread. Of the properties TLC checks for safety only
`FormatAdheresToC` is without a theorem.
