# Krypton-OS in TLA+

Krypton-OS is a small 32-bit x86 kernel in the manner of AmigaOS: one
processor, threads that share everything through one `sys_base` structure,
Exec-style doubly linked lists, signals and message ports, and a keyboard
driver that runs as a ring 3 thread. This directory holds TLA+ models of it,
the TLC configurations that check them on small instances, and proofs for
instances of every size.

## The system

| part | code | state | operations |
|---|---|---|---|
| exec lists | `list.c` | a header with head, tail and tail-predecessor; nodes with a priority | `new_list` `add_head` `add_tail` `remove_head` `remove_tail` `remove` `enqueue` `get_*` |
| threads and scheduler | `thread.c`, `sysbase.h` | thread descriptors (flags, signal sets, message list), ready and wait list, running thread, `forbid_counter` | `create_thread` `wait` `forbid` `permit` `schedule` `switch_threads` `find_thread` |
| interrupt entry, dispatcher | `idt.c`, `idt_s.asm` | `k_reenter`, `sys_flags`, the register frames on the stacks | the stubs, `idt_handler` `irq_handler` `dispatch` `enter_user_mode` |
| time slice | `timer.c` | `ts_curr_count` | `timer_callback` at 100 Hz |
| message ports and signals | `message.c` | message list and counter of each thread | `_msg_post` `msg_retrieve` `msg_cycle` `_signal` |
| boot, keyboard, system calls | `kernel_main.c` | none of its own | `init` `keypress` `syscall` `demo_thread` |
| kprintf | `kprintf.c` | a static buffer | `kprintf` |
| kernel heap | `pmm.c` | a linked list of chunks | `kmalloc` `kfree` |
| physical pages, page tables | `pmm.c` | a stack of free pages, the page tables | `pm_alloc` `pm_free` `mm_map` `mm_unmap` |
| text console | `monitor.c` | cursor, screen memory | `put` `scroll` `_monitor_write` |
| strings, number formatting | `common.c`, `vsprintf.c` | none | `strcmp` `strcpy` `strcat` `strlen` `vsprintf` |
| panic | `panic.c` | the interrupt masks | `panic` |
| descriptor tables, ports, image, symbols | `cpu.c`, `boot.asm`, `elf.c` | tables read by the hardware | set-up, lookup |

**How the parts interact.** Threads enter the kernel by `int 0xFF`, the timer
and the keyboard by IRQ 0 and 1. Each entry increments `k_reenter`, runs a
handler, lets the outermost level serve a scheduling request (`schedule()`),
and leaves through `dispatch`, which calls `switch_threads()` if a switch is
due. Handlers leave their wishes in `sys_flags`: `NEED_SCHEDULE` (timer,
`_signal`, the idle loop), `TIME_SLICE_EXPIRED` (timer), `NEED_TASK_SWITCH`
(`schedule`, `_wait_for_flags`). The keyboard interrupt finds the driver
thread by name, posts the scancode to its port and signals it; the driver
retrieves, prints and disposes of it. `forbid()`, `permit()` and the formatting
half of `kprintf()` share kernel state from ring 3 without entering the kernel.

**What is hard here.** Interrupt gates disable interrupts, so most kernel code
is atomic. Two places are not. The idle loop of `switch_threads()` enables
interrupts and nothing disables them until the next thread is in ring 3, so
each step of choosing, unlinking and installing that thread can be
interrupted. And ring 3 is interruptible between any two instructions: in the
unlocked increment of `forbid_counter`, between formatting and printing, between
the look at a port and the wait for a message. All list operations relink a
node without checking that it is linked nowhere else, so one thread in two
lists, or a flag that disagrees with a list, corrupts the system silently. The
individual places are the `hazards` of `PROJECT.json`.

**What makes each part correct.** *Lists*: `enqueue` keeps the order of
priority, the operations keep the nodes. *Threads*: every thread is in exactly
one place; the most urgent ready thread is installed; `forbid` excludes; a
ready thread eventually runs. *Interrupts*: only the outermost level
schedules and switches, and the counter it tests is the depth. *Ports*:
messages arrive in order, once, and the one being read stays valid; all are
consumed. *Heap and pages*: allocations do not overlap and freeing restores
what was there. *Console*: the cursor stays on the screen. *Strings*: the
results of their definitions. *Panic*: stops the system, then reboots on a key.

## The modules

| module | what it is |
|---|---|
| `ExecQueue` | a list of `list.c` as the sequence of its nodes, with the operations the kernel calls |
| `KryptonKernel` | the kernel: threads, interrupts, time slice, ports, `forbid`/`permit`/`kprintf`; its properties |
| `Dispatch` | `KryptonKernel` with kernel stacks, stack pointers, the TSS and the end of interrupt |
| `Mailbox` | abstract: what a message port promises its owner |
| `Multitasking` | abstract: one processor handed from thread to thread by priority |
| `ExecList` | `list.c` on memory cells, `remove()` in two stores, `strcmp()` and `find_thread()` |
| `Queues` | abstract: lists that are sequences and change in one step |
| `KernelHeap` | `kmalloc()`, `kfree()` and the list of chunks |
| `BlockStore` | abstract: what `kmalloc()` and `kfree()` promise |
| `PhysMem` | the stack of free pages, page tables and mappings |
| `PageSupply` | abstract: what `pm_alloc()`, `pm_free()` and `mm_map()` promise |
| `Monitor` | the text console: cursor, cells, scrolling |
| `VsPrintf` | `vsprintf()` and `number()`: the pass over a format and what a directive writes |
| `MCKryptonKernel` `MCDispatch` `MCExecList` `MCPhysMem` `MCVsPrintf` | constants for TLC |
| `KryptonKernelInv` | the inductive invariant `IInv` of the kernel |
| `KryptonKernelProofs` | lemmas about the list operators and the safety theorems of the kernel, proved |
| `KryptonKernelRefinement` | the port, the flags, the priorities and the two refinements, proved |
| `DispatchProofs` | contexts, kernel stacks and the end of interrupt, proved |
| `PhysMemProofs` | all properties of the page allocator and that it implements `PageSupply`, proved |
| `MonitorProofs` | all properties of the console, proved |
| `KernelHeapProofs` | all properties of the heap and that it implements `BlockStore`, proved |
| `ExecListProofs` | all properties of the lists and that they implement `Queues`, proved |
| `VsPrintfProofs` | all properties of `vsprintf()`: what it reads and what its numbers look like, proved |

### KryptonKernel and the code

The variables keep the names of the code: those of `sys_base`, and one function
over threads for each field of a descriptor. The rest is control:

* `kstack` is the kernel's control stack, one program counter per interrupt
  being served, outermost first. It is empty in ring 3. A handler is one
  action that pushes `"handled"`; `Reschedule` is the tail of `idt_handler()`
  and `irq_handler()`; `NoSwitch` and `BeginSwitch` are `dispatch`;
  `ProbeReady`, `Idle`, `Halt`, `UnlinkNext`, `InstallNext` and `LeaveSwitch`
  are the steps of `switch_threads()` and of the return behind it.
* `sti` tells whether this switch has been through `enable()`. Only then, and
  in ring 3, can an interrupt be served (`InterruptsOn`). `enable()` is a
  function, so `sti` takes effect before the `hlt` that follows: `Idle` and
  `Halt` are two steps, and an interrupt between them does not end the halt.
* `upc`, `ret`, `reg`, `return_message` and `buf` are the ring 3 side: where
  each thread is in `msg_retrieve()`, `msg_cycle()` or `kprintf()`, what it
  has loaded of `forbid_counter`, and who filled the static buffer.
* `KeyPanic` is the panic of `keypress()` when `find_thread()` finds nothing.

What a thread does between calls is the program counter `"run"`: it may call
`wait()` (`Waiters`, with a set from `WaitFlags`), `kprintf()` (`Printers`), or
nothing, for ever. System calls of a thread whose `uid` is not 0 do nothing, as
in `syscall()`. `init()` does not zero the kernel thread's descriptor; `Garbage`
holds what its signal sets may contain.

**Abstractions.** A thread's name is its identity, a message's payload is the
heap block it lives in, and the heap is the finite set `Messages`, whose members do
not overlap (`KernelHeap` shows when that is not so); a key pressed when none is free
is not modelled, for `kmalloc()` never fails: it extends the heap without limit. Stacks
and register frames are in `Dispatch`, names in `ExecList`, formatted text in `VsPrintf`;
page directories are left out, there is one. A list is a sequence, and the
wait list a set, as `add_tail`, `remove` and a search is all that is done to it; the
two stores of `remove()` are one step here and two in `ExecList`. `panic()` stops: that it
asks for the console with a nested interrupt first changes nothing here. The kernel thread
creates the other threads in any order.

### Dispatch and the code

Every action is one of `KryptonKernel` together with what it does to the hardware state:

| action | adds |
|---|---|
| `Tick` `Key` `Call` | the processor pushes a frame, on the stack of `esp0` if it leaves ring 3 |
| `Handled` | the end of interrupt, before `schedule()` |
| `Return` | `iret` to what was interrupted |
| `SaveContext` | `dispatch` stores `esp` in `kernel_esp` of a thread that has `TS_RUN` |
| `Install` | `set_kernel_stack()` at the end of `switch_threads()` |
| `Launch` | the frame for `iret` that a new thread is given |
| `Resume` | the way back to a thread's context |

Two steps are its own: `LoadStack`, the load of the new `esp`, and `Iret`. Between the decrement of
`k_reenter` and the `iret` (`leaving`) the kernel counts as left, and after an idle switch
interrupts are on: one served there is taken for one from ring 3. A context is
whose program it belongs to and which step of it comes next; a stack is the sequence of its
contexts, in memory that a push overwrites and a pop leaves. All sixteen
lines are unmasked, so the controller holds back only what is not more urgent than the line in service.
The test of `TS_RUN` never fails, which `FlagsMatchQueues` says: a thread that blocks keeps
the flag until it is switched away.

### ExecList and the code

`mem` maps cells to addresses. A list header is three pointers that double as two nodes without
contents, so `NextOf` and `PrevOf` give the cell behind a node or a header alike, and each
function of `list.c` is the memory after its stores. `remove()` is `UnlinkForward` and
`UnlinkBackward` with `FindThread`, an interrupt's search, possible between
them. No other change is: the one thread an interrupt can ready then is the one being
removed, which `RequestInv` proves of the kernel. `StrCmp` is `strcmp()`, which has stepped
past the characters that differ when it tests for the end. `Insert` takes a node that is in
no list, which `QueueDiscipline` proves of the kernel. `remove_tail()` of an empty list would
unlink the header itself, and `get_prev()` returns the next node: nobody calls either.

### VsPrintf and the code

`vsprintf()` reads its format one character at a time and never goes back but
for one step, so the state is where it is in the loop (`pc`), the character `fmt` points
to, whether that is past the terminator (`past`), and what the directive in progress has set
(`dir`), converted (`arg`) and written (`out`). Each character read is any of `Chars`: one run
covers all formats of any length. `Number` is `number()`, with its countdowns of `size` and
`precision` as lengths of the fill. The text before a directive is not kept,
nor, for that reason, the count `%n` stores. The `'*'` width leaves `fmt` on the star, which then is an
unknown conversion, as in the code.

### KernelHeap and the code

`header` is the memory the chunk headers lie in, as a function over addresses, so
that a header written to the wrong place overwrites what is there. `sh_heap` and
`sh_heap_max` are those of `sys_base`; `live` is what the callers hold. `KMalloc` and
`KFree` are each one step, as the heap is used with interrupts off. `KMalloc` is
`Reuse`, the first chunk that fits, split if it is much too large, or `Extend`, a new
chunk behind the last. `MergeNext` and `MergePrev` are the two halves of `glue_chunk()`,
`Grown` and `Shrunk` the loops that map and unmap pages. A store through a link
that is `NULL` goes to page 0, which the kernel has mapped and nobody reads: it is
no step here. What a caller stores into a block that overlaps a header is left out,
so the model is that of the code up to the first overlap, which is what
`heap_split` looks for. `UnsplitSpec` keeps the steps in which no chunk is split, and
`FifoSpec` those that free the oldest block first, as `message.c` does with one reader.

### PhysMem and the code

A page is its number. `free_stack` and `stack_max` stand for
`mm_free_page_stack_ptr` and `mm_free_page_stack_max`, counted in entries; `table`
and `mapping` are the page tables and what they map, the stack's own pages
included. `Alloc` and `Free` are `pm_alloc()` and `pm_free()` as functions on the
allocator's state, because the handlers call them inside one another: `Map` takes a
page and, if `mm_map()` finds no page table, one more for the table; `Free` turns the
page into stack space when the stack is full. `Map` and `Unmap` are one turn of the loops of
`alloc_chunk()` and `free_chunk()`. `Init` and `BootFree` are `mm_init()`, with `todo` the
pages its loops have not reached; that it stops at `MAX_RAM_PAGES` is in `BootPages`.
Page 0 is never allocated, so the test for it in `mm_map()` never bites. `MemoryAssumption`
is what the proofs need of a machine: entries of the memory map do not overlap, the kernel lies
in memory, and there are the two pages `mm_init()` takes for the stack itself. That the entries do not
overlap is the machine's promise of 64-bit addresses; `mm_init()` drops `base_addr_high`, so
that an entry above 4 GB would be taken for one below, and the theorems say nothing of such a machine.

`PageSupply` is what the callers see: pages in supply, the page each client holds, and the
page tables there are. A page is lent by taking it out of supply, with one more for a
missing page table, which stays; a page given back returns or is kept, since `pm_free()` rejects
some pages and turns others into stack space. `Supply` maps the free stack and all memory
behind `pm_last_page` to what is in supply, so `pm_alloc()` may take a page of either, and `todo`
to the usable memory not looked at yet, of which no page of the kernel but the first may enter.

### Monitor and the code

`cursor_x`, `cursor_y` and `video_memory` are the variables of `monitor.c`;
`position` is what the video hardware was told last. `MonitorPut` is
`monitor_put()` with the `scroll()` and `update_cursor()` it ends in; `_monitor_write()` is a
sequence of it. Characters are the printable ones (`Glyphs`) and one value for
each control character; attributes and the colour byte are left out. `Init` is what the boot
loader leaves: text up to the position of its cursor.

## The runs

`k` is the kernel thread (priority 0), `d` the keyboard driver (15), `a` and `b`
applications (5).

| run | instance | shows |
|---|---|---|
| `kernel` | `k`, `d`, `a`, `b`; all but the driver wait, `d` and `a` print; 2 messages, garbage descriptor, quantum 1 | every thread is in one place (`QueueDiscipline`) and flags agree with it (`FlagsMatchQueues`); `_signal` unlinks from the wait list (`SignalFindsWaiter`); a leftover request is harmless (`LeftoverRequestIsIdle`); `k_reenter` is the depth (`NestingBounded`); the unlocked counter is exact (`ForbidExact`) and excludes (`ForbidHolds`); the message being read stays at the head (`HeldMessageIsHead`); the driver is found (`DriverFindable`); the most urgent thread is installed (`HighestPriorityRuns`); the kernel implements `Mailbox` and `Multitasking`; `IInv` of the proofs, with `TypeOK` in it |
| `live` | `k`, `d`, `a`; all print; all but the driver may wait for ever; 2 messages, quantum 1 | a ready driver gets the processor (`ReadyDriverRuns`, under the assumption below), every message in the port while the driver is awake is consumed (`MessagesConsumed`), a thread readied while the processor idles is found (`IdleEnds`) |
| `dispatch` | `k`, `d`, `a`; `k` and `a` wait, all print; 1 message, quantum 2 | every thread goes on where it was stopped (`EveryContextKept`), no kernel stack holds more than two contexts (`StacksBounded`), no interrupt finds the frame of a launch (`LaunchUndisturbed`), no line stays in service over a switch (`NoLineSilenced`) |
| `lists` | 3 nodes, two of one priority; 2 lists; names that differ in the last character and by a prefix | both directions of every list agree (`WellLinked`), `find_thread()` finds the named also in the middle of `remove()` (`FindsTheNamed`), the pointers implement `Queues` |
| `heap` | blocks of 2 and 4 bytes, headers of 2, two pages of 8, three blocks at a time; no splits | blocks are disjoint (`BlocksDisjoint`), chunks tile the heap and free ones are merged (`ChunksTileHeap`), exactly the pages in use are mapped (`PagesExact`), the heap implements `BlockStore` (`StoresBlocks`): blocks never overlap, and memory is mapped no further than the blocks held need it |
| `pages` | 13 pages of memory and part of one, a kernel of 2, 5 heap pages in 2 page tables, 4 entries to a stack page | no page is in two places (`PagesOwnedOnce`), no page is exchanged under the free stack (`StackEntriesStay`), the count of free pages follows from the two sources of pages (`FreeCountFollows`), the allocator implements `PageSupply` (`LendsPages`): a page is lent to one client at a time, page tables are made of pages in supply, and of the kernel's pages only the first is ever lent |
| `console` | 4 columns, 3 rows, tabs of 2 | the cursor stays on the screen (`CursorOnScreen`), printing loses nothing but the row that scrolls off (`TextKept`) |
| `format` | words of 4 bits, 23 characters, fields up to 11, every argument | nothing behind the terminator is read (`StaysInFormat`), a field is filled exactly (`FieldFilled`), numbers read back (`ReadsBack`), where C's `printf()` is meant it is met (`AgreesWithC`) |
| `lost_wakeup` `lost_request` `heap_split` `launch_frame` | | each finds the one violation described under *Findings* |

**Bounds.** `Threads` has two to four members: the two the kernel ships with,
one of a middle priority, and a pair of equals, which are all the relations of
priority the scheduler tells apart. All are in `Root`: the system calls of other threads
do nothing, so that one of them would never block and the processor never idle; the test in
`syscall()` is in the model and the proofs cover it. `Messages` has one or two: none, one and
several in the port, and one posted while another is read. `STD_TS_QUANTUM`
is 1 or 2 instead of 10: the slice runs out on two ticks (`ts_curr_count` 0 and
-1) and is mute at -2, which a quantum of 1 already reaches, and 2 adds a tick
on which nothing happens. `UINT8` is the number of values of the byte
`num_msg`, scaled so that it wraps; in `live` it is 1, as nobody reads the byte. `WaitFlags` has a wait
that nobody ends, one for a signal nobody sends, and one that a message ends. In `kernel` the
kernel thread does not print, for which `dispatch` has it print.

In `lists`, three nodes give a list a first, a middle and a last one, and the other list
something to search before it. In `format`, a word of 4 bits has numbers of one and two digits in base 8 and
10, of up to four in base 2, and a smallest negative number; a field of 11 is wider
than any number with its prefix and sign. `MaxField` stops a width at two digits.

In `heap`, three blocks are the fewest that give a chunk a free neighbour on each side, and
chunks of 4 and 6 bytes in pages of 8 begin in, end with and lie across a page. The smaller
length fits into the chunk of the larger without a split, two merged small chunks
serve for a large one, and chunks are given back with a page and without. `heap_split` has room
for four messages of one length. `MaxLive` and `MaxPages` are bounds of the model only. In `pages`, the heap has more pages than are free, so that
the stack runs empty and pages come from behind the last; with four entries to a stack page
the stack grows and shrinks across a page boundary; the two page tables are made one
early and one late; `MaxPage` lets the moving limit of `pm_free()` pass all pages once.
`ULONG` is the width of `free_pages`, larger than any true count. In `console`, the screen
has a first, a middle and a last row, the tab leads to a stop within the row and behind it,
and `BYTE` is such that the position needs both bytes.

**Deadlock.** It is checked but in `kernel`, `live`, `dispatch` and `launch_frame`, where the
system may really stop: the driver is not found, the kernel panics, and `panic()` never
returns (see *Findings*); and in `format`, where `vsprintf()` ends. When every thread waits, the
timer still ticks, so that is not a deadlock.

**Fairness.** The processor executes; the timer ticks for ever and the interrupt
controller keeps its request until interrupts are on (strong fairness, as
interrupts go on and off); a step that interrupts keep preceding is still
taken. A thread in the middle of a library call goes on when it has the
processor. There is no fairness on keys, nor on a thread in `"run"`, which may
compute for ever. The steps of boot, of the way into a switch and of the switch each have one
condition between them, as at most one of them can be next.

The run `live` needs two assumptions about the interrupts, in `HeardSpec`. The first excludes
`Unheard`: both ticks that announce the end of the slice have passed, the driver is ready and
a thread is inside a `forbid()`. The code does not guarantee it: the boot is a `forbid()`, with the
driver ready, until `init()` calls `permit()`; every `kprintf()` is one, and `init()` prints after its
`permit()`, where a key and two ticks are enough. The run `lost_request` is the same property without the assumption, and it fails. With
it, a slice may end inside a `forbid()`, by one tick with the driver ready or by both with the driver asleep.
The second is that no key panics the kernel, after which nothing happens any more. Both
only keep ticks and keys from happening at certain moments and hold back no step that has fairness but the
tick, which is due again when the `forbid()` is over.

`MessagesConsumed` says nothing of a message posted after `msg_retrieve()` has seen an empty port,
until the driver wakes up again (`Overlooked`): that one is the finding `lost_wakeup`.

**Mutants.** Each property of a passing run has an operator next to the one it
replaces, marked *Mutant*, with a plausible bug of that code: with it TLC finds the
property violated.

## Findings

* **Lost wake-up** (`lost_wakeup`). `msg_retrieve()` looks in one system call and
  waits in another. A key in between posts a message, but `_signal()` records
  nothing for a thread that does not wait yet. The driver sleeps on a message in its
  port until the next key.
* **Lost preemption** (`lost_request`). The handlers clear `NEED_SCHEDULE` before
  `schedule()` refuses because of `forbid()`, and `permit()` asks for nothing. The
  timer repeats itself on one more tick only. If both fall into a `forbid()`, a
  thread that never enters the kernel keeps the processor for ever.
* **Splitting a chunk** (`heap_split`). `split_chunk()` puts the header of the rest at the
  end of the chunk, over the header of the next one, instead of behind the part it keeps.
  Five messages in the order of a port are enough for two of them to share their memory.
* **The first launch** (`launch_frame`). `dispatch` loads `kernel_esp` before it looks whether the
  thread has ever run. `create_thread()` leaves it 0, so the frame for `iret` is pushed
  at the end of the address space, and its first word, `0x23`, replaces the last entry of the
  page directory, the reference to itself through which the heap maps pages. A TLB entry hides this
  until `CR3` is loaded. The model goes on as if the memory stayed mapped.

Other places where the code and its comments disagree, or that look unintended, are
in the models as the code has them, without a run of their own:

* `_msg_post()` recognises a full port and appends all the same.
* `enqueue()` compares with `>=`, so a preempted thread is queued in front of its equals
  and taken straight back: threads of one priority do not take turns.
* Between unlinking the driver and making it the running thread, interrupts are on if the
  processor has idled, and the driver is in no place `find_thread()` looks: a key pressed then
  is a panic, the one exception in `DriverFindable`, which the run `kernel` reaches. The
  first of the two stores of `remove()` opens the window one store earlier. The shipped `init()` never
  idles, since its thread spins instead of calling the `wait(0)` that is commented out.
* `pm_free()` protects pages *above* 1 MB, where the kernel begins, so its first page goes to
  the free stack; `LendsPages` and the theorem `KernelPagesKept` say that no other does.
* `strcmp()` finds two names of one length equal that differ only in the last character. The
  shipped names are of one length and differ earlier.
* `vsprintf()` does not know the length of the 1024 bytes `kprintf()` gives it; a width of `*`
  prints `%*` and shifts the arguments; the flag `0` is not turned off by a precision, zero with the
  precision 0 is written, `#` puts a prefix before zero, and `+` and the space apply to numbers
  without a sign.
* `panic()` asks for any key to reboot. Called from `keypress()`, it leaves the keyboard's line in
  service, as `irq_handler()` sends the end of interrupt only when the handler returns, and the
  controller delivers no key.
* `panic()` prints by a system call, which does nothing if the running thread's uid is not 0.
* `mm_init()` frees the last page of an entry of the memory map also if the entry ends within it.
* `pm_alloc()` counts down `free_pages` also when the page does not come from the stack, and
  the count wraps. Nothing reads it.
* `monitor_init()` swaps the two bytes of the position it reads; `scroll()` clamps the row.

## What is proved

For every set of threads, every assignment of priorities, every quantum, stock of
messages, garbage and set of waits that satisfies `KernelAssumption` and
`PriAssumption`, `KryptonKernelProofs` proves `Spec => []IInv` (`Invariance`) and
from it:

| theorem | property |
|---|---|
| `TypeCorrect` | `TypeOK` |
| `EveryThreadInOnePlace` | `QueueDiscipline` |
| `ForbidCounterExact` | `ForbidExact` |
| `ForbidExcludes` | `ForbidHolds`, an action property |
| `SignalUnlinksWaiter` | `SignalFindsWaiter` |
| `LeftoverRequestHarmless` | `LeftoverRequestIsIdle` |
| `InterruptsNestOneDeep` | `NestingBounded` |

**The argument.** None of these is inductive alone, and together they still need the
rest of `IInv`:

* `QueueDiscipline` needs to know that `schedule()` does not relink a thread that has
  just blocked. It does so only if a request is pending when the thread blocks, so
  a request left over in ring 3 must find an empty ready queue. That is
  `RequestInv`: a request made by an interrupt of ring 3 is served on the way out
  of it, and one made during an interrupted switch can only be for the driver,
  the one thread an interrupt readies. After idling the ready queue is therefore
  a subset of `{Driver}`, and empty once the driver has been unlinked. If another interrupt
  could ready a thread, this argument, and the code, would break.
* `SwitchInv` says that a due switch is served before ring 3 and that
  `next_thread` is still in the queue when it is unlinked.
* `NestingInv` confines nested interrupts to a switch that has idled, so that
  `k_reenter = 0` is the outermost level and nothing else.
* `ForbidInv` records what a thread in the middle of the increment has read. The counter is
  exact because no thread loses the processor while it is positive, and a thread that loses
  it between load and store has read 0 and so finds 0 again.
* `SignalFindsWaiter` makes `_signal()` move a thread from the wait queue only.
* `BootInv` covers the time before the first interrupt.

`KryptonKernelProofs` has a lemma per action, each with a step per conjunct the action can
disturb; `Inductive` collects them. The lemmas they start
from say what the list operators do to the set, the distinctness and the order of the
nodes of a list of any length (`EnqueueSorted`, `UnlinkToSet` and their neighbours).

`KryptonKernelRefinement` goes on from `IInv`:

| theorem | property | invariant added |
|---|---|---|
| `HeldMessageStays` | `HeldMessageIsHead` | `DriverInv`: the driver holds a message exactly from the call that found it to `msg_cycle()` |
| `PortImplementsMailbox` | `PortIsMailbox` | the same |
| `FlagsFollowQueues` | `FlagsMatchQueues` | itself, inductive relative to `IInv` |
| `DriverFound` | `DriverFindable` | `BootDone`: the driver exists before the first interrupt |
| `MostUrgentRuns` | `HighestPriorityRuns` | `RankInv`: the ready queue is sorted, and nobody in it outranks the thread that was chosen, for interrupts of an idle switch ready the driver only |
| `KernelImplementsMultitasking` | `KernelIsMultitasking` | all of them; one lemma for each group of actions that map to one abstract step |

`DispatchProofs` proves, for every `AddressEnd` outside the threads as well, that `DispatchSpec`
implies `Spec`, so that everything above holds of it, and from the invariant `HInv`
(`HardwareInvariance`):

| theorem | property |
|---|---|
| `ContextsKept` | `EveryContextKept` |
| `TwoContextsEnough` | `StacksBounded` |
| `LaunchesApart` | `LaunchUndisturbed` |
| `LinesServed` | `NoLineSilenced` |

* `SavedInv`: the saved stack pointer of a suspended thread points into the thread's own
  stack, with its program's context lowest and above it at most the one of a return from the kernel
  that was interrupted. Two such contexts pile up only if a thread is interrupted in the
  two instructions between the decrement of `k_reenter` and `iret`, with interrupts on.
* `WaitInv` and `IdleInv` are why they never become three. Interrupts are on there only after an idle
  switch; such a switch starts from a thread that waits or waited, on the stack of
  that thread, and every thread that can follow it waited too. A thread that waits called
  the kernel from ring 3 and has one context.
* `LaunchInv` with `IdleInv`: who waits has run, so an idle switch launches nobody.
* `RunningInv` ties the processor's context and the stack pointer in a handler to the running
  thread, `SwitchStackInv` the stack a switch starts on; `ServiceInv` puts every line in service inside
  the handler that will end it.

`SaveContextStep` needs `FlagsMatchQueues`: dispatch saves the stack pointer only if `TS_RUN` is set.

`PhysMemProofs` proves the five properties of `pages` for every memory map, every size of a
stack page and every heap that satisfies `PhysAssumption` and `MemoryAssumption`:

| theorem | property |
|---|---|
| `TypesKept` | `TypeOK` |
| `NoPageTwice` | `PagesOwnedOnce` |
| `FreePagesCounted` | `FreeCountFollows` |
| `EntriesStay` | `StackEntriesStay`, an action property |
| `SuppliesPages` | `LendsPages`: the allocator implements `PageSupply` |
| `KernelPagesKept` | `KernelKept`, defined with the theorem: of the kernel's pages only the first is on the free stack or mapped |

Its invariant `PageInv` says where pages are also in the middle of a call (`Placed`), that the
counter follows them (`Counted`), that the stack's space is whole pages and holds its entries
(`StackInv`), and that the pages `mm_init()` has still to free are nowhere (`BootInv`). `pm_free()` and
`mm_map()` call each other, so a page may have been taken and not yet put:
the lemmas of the allocator are about states with one such page. For the refinement, `AllocSupply`
and `FreeSupply` say what a call takes out of the supply and puts back, whether the page comes
from the stack or from behind, and `StackHasRoom`, by the pigeonhole principle, that while a page is in no
place the stack cannot outgrow the virtual pages set apart for it, so that `pm_free()`
never maps over a page of the heap.

`MonitorProofs` proves, for every screen, tab width and set of printable characters that
satisfies `ScreenAssumption`:

| theorem | property |
|---|---|
| `CursorStaysOnScreen` | `CursorOnScreen` |
| `TextStays` | `TextKept`, an action property |

The invariant `CursorInv` is `CursorOnScreen` with the types the arithmetic needs. `ScrollClamps`
says that `scroll()` brings any row back as long as the column is one of the screen, and
`PutKeepsCursor` that `monitor_put()` hands it such a column for every character, whatever
`TabColumn` a tab leads to. For the text it matters that no character moves the cursor down
by two rows, so that one scroll is enough: a newline leads to the first column, which is
never a full row (`PutKeepsText`).

`KernelHeapProofs` is about `UnsplitSpec`, the heap as long as no chunk is split, for every page
and header size, every set of lengths and every bound:

| theorem | property |
|---|---|
| `HeapTyped` | `TypeOK` |
| `NoOverlap` | `BlocksDisjoint` |
| `NothingLost` | `ChunksTileHeap` |
| `PagesKept` | `PagesExact` |
| `ImplementsStore` | `StoresBlocks`: the heap implements `BlockStore` |

The properties follow a list of pointers, and a pointer says nothing of where the list
leads. The invariant `HeapInv` (`HeapKept`) therefore says that there is a set `C` of addresses,
the chunks, that tiles the heap: each lies where the one in front of it ends, is linked to its
neighbours in the order of their addresses (`Linked`), and the blocks held are those of the
allocated ones (`Held`). `Extend` adds an address to `C`, the two halves of `glue_chunk()` and the end of
`free_chunk()` each take one away (`AbsorbLinked`, `DropLinked`), and `ChunksListed` shows that the walk from
`sh_heap` visits exactly `C`. The refinement adds that a chunk
is at most a header longer than what was asked for, or it would have been split.

`ExecListProofs` proves, for every set of nodes, every priority and all names:

| theorem | property |
|---|---|
| `ListsTyped` | `TypeOK` |
| `ListsWellLinked` | `WellLinked` |
| `ThreadsFound` | `FindsTheNamed` |
| `ImplementsQueues` | `ListsAreSequences`: the pointers implement `Queues` |

The invariant `ListInv` (`ListsKept`) says that the `next` pointers of each list hold a sequence
`q` of nodes, and the `prev` pointers a sequence `r` (`Linking`). One sequence would do if every
operation were one step; between the two stores of `remove()` the node is out of `q` and
still in `r`, and `q = r` but for that. A lemma per operation says what its stores do to
either chain (`ForwardInserted`, `BackwardRemoved` and their neighbours), `WalkIs` and `WalkBackIs` that the walks find
it, so that the refinement maps a list to the walk from its head. For `find_thread()`,
`StrCmpZero` says exactly which names `strcmp()` takes for equal: those that are, and those of one
length that differ in the last character only.

`VsPrintfProofs` proves, for every width of a word, every set of characters, strings and arguments:

| theorem | property |
|---|---|
| `FormatNotOverrun` | `StaysInFormat` |
| `FieldsExact` | `FieldFilled` |
| `NumbersReadBack` | `ReadsBack` |
| `WritesAsInC` | `AgreesWithC` |

`FormatInv` says where `fmt` can be in front of the terminator: one step, and only when the directive that
broke off there has been written. `TerminatorAssumption` says that the terminator is none of the
characters with a meaning. For the fields, `FieldInv` keeps what `number()` was called with;
`NumberIsFilled` shows that sign, prefix, zeros and digits do not depend on the width, and
`FilledFills` what the fill adds to them in each of its three places. Both need that
the digits are a sequence at all: that `do_div()` ends, for every number and base (`DivisionExists`).

The other two follow the digits. `TmpIsNumeral` says that the digits `do_div()` leaves are the
remainders of the quotients of the number, in order, up to the first quotient that is 0. `NumberReads` reads them back: spaces, zeros, sign and prefix add nothing, and the value
after each digit is the quotient at that place, down to the number itself. `LayoutsAgree` compares where `number()` puts
sign, prefix, zeros and fill with where C does, flag by flag, and `MarkIs` the sign and prefix
themselves. Recursive functions (the digits, the reading) are shown to exist by a least
counterexample over the length of the recursion (`IterationExists`).

**Model-checked only.** The liveness properties of `live` (`ReadyDriverRuns`, `MessagesConsumed`,
`IdleEnds`): liveness under fairness and `ENABLED` are out of the prover's reach. Every safety
and action property and every refinement the passing runs check is proved. Induction over
data is done by a least counterexample (`LeastNatural`): so for the walks along lists and chunks
and the recursive functions of `number()`. No module declares a recursive operator.

## What is not modelled

Left out: descriptor tables and port I/O (`cpu.c`), the boot image (`boot.asm`), the ELF
symbol lookup nobody calls, and the scancode table, which are data for the hardware or
straight-line code without a state to speak of; `init_paging()`, the TLB and access rights;
`page_fault()`, which prints and panics; what `panic()` does to the
interrupt controller, behind which no kernel code runs; `strcpy()`, `strcat()` and `strlen()`; and
`clone_actual_directory()`, `monitor_write_hex()` and `monitor_write_dec()`, which nobody calls.
