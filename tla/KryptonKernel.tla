---------------------------- MODULE KryptonKernel ----------------------------
(***************************************************************************)
(* The uniprocessor kernel: threads (thread.c), interrupt entry and the    *)
(* dispatcher (idt.c, idt_s.asm), the time slice (timer.c), signals and    *)
(* message ports (message.c), the keyboard interrupt and the system calls  *)
(* (kernel_main.c), and the ring 3 side of the calls that share kernel     *)
(* state without entering it: forbid(), permit() and kprintf().            *)
(*                                                                         *)
(* Kernel code runs with interrupts disabled, so a handler is one action,  *)
(* except in switch_threads(): its idle loop enables them and nothing      *)
(* disables them again before the next thread is in ring 3, so from there  *)
(* on each step of the switch can be interrupted.                          *)
(***************************************************************************)
EXTENDS ExecQueue

CONSTANTS
    KernelThread,   \* krypton.library, the thread that boots the system
    Driver,         \* keyboard.device, the thread key presses are posted to
    Root,           \* the threads whose uid is 0
    Waiters,        \* the threads whose program calls wait() of its own
    Printers,       \* the threads whose program calls kprintf()
    WaitFlags,      \* the signal sets such a wait() is called with
    Garbage,        \* what the signal sets of an uninitialised descriptor hold
    Messages,       \* the heap blocks messages are allocated from (a bound)
    UINT8,          \* the number of values of msg_port.num_msg
    STD_TS_QUANTUM, \* timer ticks of a time slice
    NULL

Signals == {"ST_MESG", "ST_EXCEPT"}

ASSUME KernelAssumption ==
    /\ {KernelThread, Driver} \subseteq Root
    /\ Root \subseteq Threads
    /\ KernelThread # Driver
    /\ Waiters \subseteq Threads \ {Driver}
    /\ Printers \subseteq Threads
    /\ WaitFlags \subseteq SUBSET Signals
    /\ Garbage \subseteq SUBSET Signals
    /\ NULL \notin Threads \cup Messages
    /\ UINT8 \in Nat \ {0}
    /\ STD_TS_QUANTUM \in Nat \ {0}

VARIABLES
    \* sys_base
    sys_flags, running_thread, k_reenter, thread_ready, thread_wait,
    ts_curr_count, forbid_counter,
    \* the thread descriptors
    thread_flags, sig_wait, sig_recvd, message_list, num_msg,
    \* the kernel's own control: one program counter per interrupt being
    \* served, outermost first; whether enable() has run in this switch;
    \* the local variable next_thread of switch_threads()
    kstack, sti, next_thread,
    \* the threads in ring 3: where each is in its program, where kprintf()
    \* or permit() returns to, the register of an increment in flight, the
    \* driver's copy of return_message and who filled kprintf()'s buffer
    upc, ret, reg, return_message, buf

sched == <<sys_flags, running_thread, thread_ready, thread_wait,
           ts_curr_count, forbid_counter>>
desc  == <<thread_flags, sig_wait, sig_recvd, message_list, num_msg>>
user  == <<upc, ret, reg, return_message, buf>>
vars  == <<sched, desc, user, k_reenter, kstack, sti, next_thread>>

ThreadFlags == {"TS_RUN", "TS_WAIT", "TS_READY", "TB_SIGNAL", "TB_LAUNCH"}
SysFlags    == {"NEED_SCHEDULE", "TIME_SLICE_EXPIRED", "NEED_TASK_SWITCH"}

\* Inside switch_threads() and the dispatcher behind it.
SwitchPC == {"probe", "hlt", "halted", "unlink", "install", "exit"}
KernelPC == {"handled", "dispatch", "panic"} \cup SwitchPC

\* Between forbid() and permit(); the kernel thread boots there.
ForbidPC == {"boot", "write", "permit_load", "permit_store"}
UserPC   == {"uncreated", "run", "retrieve", "empty", "cycle",
             "format", "forbid_load", "forbid_store"} \cup ForbidPC

TypeOK ==
    /\ sys_flags \subseteq SysFlags
    /\ running_thread \in Threads
    /\ k_reenter \in Int
    /\ thread_ready \in Seq(Threads)
    /\ thread_wait \subseteq Threads
    /\ ts_curr_count \in -2 .. STD_TS_QUANTUM
    /\ forbid_counter \in Int
    /\ thread_flags \in [Threads -> SUBSET ThreadFlags]
    /\ sig_wait \in [Threads -> SUBSET Signals]
    /\ sig_recvd \in [Threads -> SUBSET Signals]
    /\ message_list \in [Threads -> Seq(Messages)]
    /\ num_msg \in [Threads -> 0 .. (UINT8 - 1)]
    /\ kstack \in Seq(KernelPC)
    /\ sti \in BOOLEAN
    /\ next_thread \in Threads \cup {NULL}
    /\ upc \in [Threads -> UserPC]
    /\ ret \in [Threads -> UserPC]
    /\ reg \in [Threads -> Int]
    /\ return_message \in Messages \cup {NULL}
    /\ buf \in Threads \cup {NULL}

-----------------------------------------------------------------------------
(***************************************************************************)
(* Boot.  init() sets up the kernel thread with multitasking forbidden,    *)
(* creates the other threads and drops to ring 3, interrupts still off.    *)
(* create_thread() zeroes the descriptor it allocates, so the initial      *)
(* values hold for the threads still to be created as well; init() does    *)
(* not zero the kernel thread's, whose signal sets hold what the heap did. *)
(***************************************************************************)
Init ==
    /\ sys_flags = {}
    /\ running_thread = KernelThread
    /\ k_reenter = -1
    /\ thread_ready = <<>>
    /\ thread_wait = {}
    /\ ts_curr_count = STD_TS_QUANTUM
    /\ forbid_counter = 1
    /\ thread_flags = [t \in Threads |-> IF t = KernelThread THEN {"TS_RUN"} ELSE {}]
    /\ \E w \in Garbage : sig_wait = [t \in Threads |-> IF t = KernelThread THEN w ELSE {}]
    /\ \E r \in Garbage : sig_recvd = [t \in Threads |-> IF t = KernelThread THEN r ELSE {}]
    /\ message_list = [t \in Threads |-> <<>>]
    /\ num_msg = [t \in Threads |-> 0]
    /\ kstack = <<>>
    /\ sti = FALSE
    /\ next_thread = NULL
    /\ upc = [t \in Threads |-> IF t = KernelThread THEN "boot" ELSE "uncreated"]
    /\ ret = [t \in Threads |-> "run"]
    /\ reg = [t \in Threads |-> 0]
    /\ return_message = NULL
    /\ buf = NULL

\* Where the program of a new thread starts, and what follows its greeting.
StartOf(t) == IF t # Driver THEN "run" ELSE IF t \in Printers THEN "format" ELSE "retrieve"

CreateThread(t) ==
    /\ upc[KernelThread] = "boot"
    /\ upc[t] = "uncreated"
    /\ thread_flags' = [thread_flags EXCEPT ![t] = {"TS_READY", "TB_LAUNCH"}]
    /\ thread_ready' = Enqueue(thread_ready, t)
    /\ upc' = [upc EXCEPT ![t] = StartOf(t)]
    /\ ret' = [ret EXCEPT ![t] = IF t = Driver THEN "retrieve" ELSE "run"]
    /\ UNCHANGED <<sys_flags, running_thread, thread_wait, ts_curr_count,
                   forbid_counter, sig_wait, sig_recvd, message_list, num_msg,
                   reg, return_message, buf, k_reenter, kstack, sti, next_thread>>

\* enter_user_mode(), after which init() calls permit() and kprintf().
EnterUserMode ==
    /\ upc[KernelThread] = "boot"
    /\ \A t \in Threads : upc[t] # "uncreated"
    /\ upc' = [upc EXCEPT ![KernelThread] = "permit_load"]
    /\ ret' = [ret EXCEPT ![KernelThread] =
                  IF KernelThread \in Printers THEN "format" ELSE "run"]
    /\ UNCHANGED <<sched, desc, reg, return_message, buf, k_reenter, kstack, sti,
                   next_thread>>

-----------------------------------------------------------------------------
\* The kernel's control stack.

Top == kstack[Len(kstack)]

At(pc) == kstack # <<>> /\ Top = pc

Goto(pc) == kstack' = [kstack EXCEPT ![Len(kstack)] = pc]

InRing3 == kstack = <<>> /\ upc[KernelThread] # "boot"

\* Mutant: a gate that leaves interrupts on inside the handlers.
InterruptsOnInHandlers == InRing3 \/ (kstack # <<>> /\ sti)

InterruptsOn == InRing3 \/ (kstack # <<>> /\ sti /\ Top \in SwitchPC)

\* Mutant: the processor halts again without another look at the queue.
InterruptedStays == kstack

\* An interrupt ends a hlt: the idle loop goes round when it returns.
Interrupted ==
    IF At("halted") THEN [kstack EXCEPT ![Len(kstack)] = "probe"] ELSE kstack

\* The entry stub and the increment of k_reenter, up to the handler's return.
EnterKernel(pc) ==
    /\ kstack' = Append(Interrupted, pc)
    /\ k_reenter' = k_reenter + 1
    /\ UNCHANGED <<sti, next_thread>>

\* Mutant: the decrement of k_reenter is forgotten.
LeaveKernelUncounted ==
    /\ kstack' = SubSeq(kstack, 1, Len(kstack) - 1)
    /\ UNCHANGED k_reenter

\* The end of dispatch: back to what was interrupted.
LeaveKernel ==
    /\ kstack' = SubSeq(kstack, 1, Len(kstack) - 1)
    /\ k_reenter' = k_reenter - 1

-----------------------------------------------------------------------------
(***************************************************************************)
(* The hardware interrupts.                                                *)
(***************************************************************************)

\* Mutant: the end of the slice is announced by one tick only.
SliceEndsOnce == ts_curr_count = 0

\* The ticks that take the count below zero announce the end of the slice.
SliceEnds == ts_curr_count \in {0, -1}

CountDown == IF ts_curr_count < -1 THEN ts_curr_count ELSE ts_curr_count - 1

\* IRQ 0, timer_callback(): the slice runs out on two ticks, then it is mute.
TimerTick ==
    /\ InterruptsOn
    /\ EnterKernel("handled")
    /\ ts_curr_count' = CountDown
    /\ sys_flags' = IF SliceEnds
                    THEN sys_flags \cup {"TIME_SLICE_EXPIRED", "NEED_SCHEDULE"}
                    ELSE sys_flags
    /\ UNCHANGED <<running_thread, thread_ready, thread_wait, forbid_counter, desc, user>>

\* Mutant: the search ends with the wait list.
FindableUnlessReady(t) == t = running_thread \/ t \in thread_wait

\* find_thread(): the running thread, then the wait list, then the ready list.
Findable(t) == t = running_thread \/ t \in thread_wait \/ t \in ToSet(thread_ready)

\* Mutant: the wait state is not cleared.
ReadiedStillWaiting(F) == F \cup {"TS_READY"}

Readied(F) == (F \ {"TS_WAIT"}) \cup {"TS_READY"}

\* Mutant: the signal stays in the set of those waited for.
SignalKeepsWait(t, flags) ==
    IF sig_wait[t] \cap flags = {}
    THEN UNCHANGED <<sig_recvd, sig_wait, thread_wait, thread_ready, thread_flags, sys_flags>>
    ELSE /\ sig_recvd' = [sig_recvd EXCEPT ![t] = @ \cup flags]
         /\ thread_wait' = thread_wait \ {t}
         /\ thread_ready' = Enqueue(thread_ready, t)
         /\ thread_flags' = [thread_flags EXCEPT ![t] = Readied(@)]
         /\ sys_flags' = sys_flags \cup {"NEED_SCHEDULE"}
         /\ UNCHANGED sig_wait

\* Mutant: nobody asks for the scheduler.
SignalUnasked(t, flags) ==
    IF sig_wait[t] \cap flags = {}
    THEN UNCHANGED <<sig_recvd, sig_wait, thread_wait, thread_ready, thread_flags, sys_flags>>
    ELSE /\ sig_recvd' = [sig_recvd EXCEPT ![t] = @ \cup flags]
         /\ sig_wait' = [sig_wait EXCEPT ![t] = @ \ flags]
         /\ thread_wait' = thread_wait \ {t}
         /\ thread_ready' = Enqueue(thread_ready, t)
         /\ thread_flags' = [thread_flags EXCEPT ![t] = Readied(@)]
         /\ UNCHANGED sys_flags

\* _signal(): nothing is recorded for a thread that does not wait for it.
Signal(t, flags) ==
    IF sig_wait[t] \cap flags = {}
    THEN UNCHANGED <<sig_recvd, sig_wait, thread_wait, thread_ready, thread_flags, sys_flags>>
    ELSE /\ sig_recvd' = [sig_recvd EXCEPT ![t] = @ \cup flags]
         /\ sig_wait' = [sig_wait EXCEPT ![t] = @ \ flags]
         /\ thread_wait' = thread_wait \ {t}
         /\ thread_ready' = Enqueue(thread_ready, t)
         /\ thread_flags' = [thread_flags EXCEPT ![t] = Readied(@)]
         /\ sys_flags' = sys_flags \cup {"NEED_SCHEDULE"}

\* Heap blocks that hold no posted message.
FreeMessages == Messages \ UNION {ToSet(message_list[t]) : t \in Threads}

\* IRQ 1, keypress(): a key goes down and _msg_post() delivers its scancode.
KeyPress(m) ==
    /\ InterruptsOn
    /\ Findable(Driver)
    /\ EnterKernel("handled")
    /\ message_list' = [message_list EXCEPT ![Driver] = AddTail(@, m)]
    /\ num_msg' = [num_msg EXCEPT ![Driver] = (@ + 1) % UINT8]
    /\ Signal(Driver, {"ST_MESG"})
    /\ UNCHANGED <<running_thread, ts_curr_count, forbid_counter, user>>

\* A key goes up: the scancode is read and dropped.
KeyRelease ==
    /\ InterruptsOn
    /\ Findable(Driver)
    /\ EnterKernel("handled")
    /\ UNCHANGED <<sched, desc, user>>

\* keypress() finds no keyboard driver: panic() never returns.
KeyPanic ==
    /\ InterruptsOn
    /\ ~ Findable(Driver)
    /\ EnterKernel("panic")
    /\ UNCHANGED <<sched, desc, user>>

-----------------------------------------------------------------------------
(***************************************************************************)
(* What every handler ends in: the scheduling request, then dispatch.      *)
(***************************************************************************)

\* Mutant: a forbid() still stands.
PermittedAtOne == forbid_counter <= 1

\* schedule() returns at once while multitasking is forbidden.
Permitted == forbid_counter <= 0

\* schedule() finds a reason to take the processor from the running thread.
MustPreempt ==
    \/ "TB_SIGNAL" \in thread_flags[running_thread]
    \/ /\ thread_ready # <<>>
       /\ \/ Pri[running_thread] < Pri[Head(thread_ready)]
          \/ "TIME_SLICE_EXPIRED" \in sys_flags

\* Mutants: the level is not tested; or a forbidden request is left pending.
RequestedNested  == "NEED_SCHEDULE" \in sys_flags
RequestedPending == "NEED_SCHEDULE" \in sys_flags /\ k_reenter = 0 /\ forbid_counter <= 0

\* idt_handler() and irq_handler() serve the request at the outermost level:
\* they test k_reenter <= 0, and the counter is unsigned.
Requested == "NEED_SCHEDULE" \in sys_flags /\ k_reenter = 0

\* The request is served; schedule() puts a preempted thread among the ready.
Reschedule ==
    /\ At("handled")
    /\ Goto("dispatch")
    /\ IF Requested /\ Permitted /\ MustPreempt
       THEN /\ thread_ready' = Enqueue(thread_ready, running_thread)
            /\ sys_flags' = (sys_flags \ {"NEED_SCHEDULE"}) \cup {"NEED_TASK_SWITCH"}
       ELSE /\ UNCHANGED thread_ready
            /\ sys_flags' = IF Requested THEN sys_flags \ {"NEED_SCHEDULE"} ELSE sys_flags
    /\ UNCHANGED <<running_thread, thread_wait, ts_curr_count, forbid_counter,
                   desc, user, k_reenter, sti, next_thread>>

SwitchDue == k_reenter = 0 /\ "NEED_TASK_SWITCH" \in sys_flags

NoSwitch ==
    /\ At("dispatch")
    /\ ~ SwitchDue
    /\ LeaveKernel
    /\ UNCHANGED <<sched, desc, user, sti, next_thread>>

\* The context is saved and switch_threads() called.
BeginSwitch ==
    /\ At("dispatch")
    /\ SwitchDue
    /\ Goto("probe")
    /\ sys_flags' = sys_flags \ {"NEED_TASK_SWITCH", "TIME_SLICE_EXPIRED"}
    /\ thread_flags' = [thread_flags EXCEPT ![running_thread] = @ \ {"TS_RUN"}]
    /\ UNCHANGED <<running_thread, thread_ready, thread_wait, ts_curr_count,
                   forbid_counter, sig_wait, sig_recvd, message_list, num_msg,
                   user, k_reenter, sti, next_thread>>

\* Mutant: interrupts are enabled before the first look at the queue.
ProbeReadyEnabled ==
    /\ At("probe")
    /\ thread_ready # <<>>
    /\ next_thread' = Head(thread_ready)
    /\ sti' = TRUE
    /\ Goto("unlink")
    /\ UNCHANGED <<sched, desc, user, k_reenter>>

ProbeReady ==
    /\ At("probe")
    /\ thread_ready # <<>>
    /\ next_thread' = Head(thread_ready)
    /\ Goto("unlink")
    /\ UNCHANGED <<sched, desc, user, k_reenter, sti>>

\* No thread is ready: ask for the scheduler, enable interrupts ...
Idle ==
    /\ At("probe")
    /\ thread_ready = <<>>
    /\ sys_flags' = sys_flags \cup {"NEED_SCHEDULE"}
    /\ sti' = TRUE
    /\ Goto("hlt")
    /\ UNCHANGED <<running_thread, thread_ready, thread_wait, ts_curr_count,
                   forbid_counter, desc, user, k_reenter, next_thread>>

\* ... and stop the processor, in a separate instruction.
Halt ==
    /\ At("hlt")
    /\ Goto("halted")
    /\ UNCHANGED <<sched, desc, user, k_reenter, sti, next_thread>>

UnlinkNext ==
    /\ At("unlink")
    /\ thread_ready' = Unlink(thread_ready, next_thread)
    /\ Goto("install")
    /\ UNCHANGED <<sys_flags, running_thread, thread_wait, ts_curr_count,
                   forbid_counter, desc, user, k_reenter, sti, next_thread>>

InstallNext ==
    /\ At("install")
    /\ running_thread' = next_thread
    /\ ts_curr_count' = STD_TS_QUANTUM
    /\ thread_flags' = [thread_flags EXCEPT ![next_thread] = @ \cup {"TS_RUN"}]
    /\ next_thread' = NULL
    /\ Goto("exit")
    /\ UNCHANGED <<sys_flags, thread_ready, thread_wait, forbid_counter, sig_wait,
                   sig_recvd, message_list, num_msg, user, k_reenter, sti>>

\* The dispatcher launches the thread or resumes it.
LeaveSwitch ==
    /\ At("exit")
    /\ LeaveKernel
    /\ sti' = FALSE
    /\ thread_flags' = [thread_flags EXCEPT ![running_thread] =
                           IF "TB_LAUNCH" \in @ THEN @ \ {"TB_LAUNCH"}
                                                ELSE @ \ {"TB_SIGNAL"}]
    /\ UNCHANGED <<sched, sig_wait, sig_recvd, message_list, num_msg, user, next_thread>>

KernelStep ==
    \/ Reschedule \/ NoSwitch \/ BeginSwitch \/ ProbeReady \/ Idle \/ Halt
    \/ UnlinkNext \/ InstallNext \/ LeaveSwitch
-----------------------------------------------------------------------------
(***************************************************************************)
(* Ring 3.  Every system call enters the kernel by int 0xFF; for a thread  *)
(* whose uid is not 0 syscall() does nothing.                              *)
(***************************************************************************)

User(t) == InRing3 /\ running_thread = t

Continue(t, pc) == upc' = [upc EXCEPT ![t] = pc]

\* _wait_for_flags(): the running thread blocks.
Block(t, flags) ==
    IF t \in Root
    THEN /\ thread_flags' = [thread_flags EXCEPT ![t] = (@ \ {"TS_READY"}) \cup {"TS_WAIT"}]
         /\ sig_wait' = [sig_wait EXCEPT ![t] = @ \cup flags]
         /\ thread_wait' = thread_wait \cup {t}
         /\ sys_flags' = sys_flags \cup {"NEED_TASK_SWITCH"}
    ELSE UNCHANGED <<thread_flags, sig_wait, thread_wait, sys_flags>>

WaitCall(t, flags) ==
    /\ EnterKernel("handled")
    /\ Block(t, flags)
    /\ UNCHANGED <<running_thread, thread_ready, ts_curr_count, forbid_counter,
                   sig_recvd, message_list, num_msg, ret, reg, return_message, buf>>

\* A thread calls wait() of its own accord.
Wait(t, flags) ==
    /\ User(t)
    /\ upc[t] = "run"
    /\ t \in Waiters
    /\ WaitCall(t, flags)
    /\ UNCHANGED upc

\* msg_retrieve(): system call 2 reads the head of the port's list ...
MsgRetrieve ==
    /\ User(Driver)
    /\ upc[Driver] = "retrieve"
    /\ EnterKernel("handled")
    /\ IF message_list[Driver] = <<>>
       THEN /\ return_message' = NULL
            /\ Continue(Driver, "empty")
            /\ UNCHANGED ret
       ELSE /\ return_message' = Head(message_list[Driver])
            /\ Continue(Driver, IF Driver \in Printers THEN "format" ELSE "cycle")
            /\ ret' = [ret EXCEPT ![Driver] = "cycle"]
    /\ UNCHANGED <<sched, desc, reg, buf>>

\* ... and when it finds none the thread waits for the signal of a post.
MsgWait ==
    /\ User(Driver)
    /\ upc[Driver] = "empty"
    /\ WaitCall(Driver, {"ST_MESG"})
    /\ Continue(Driver, "retrieve")

\* msg_cycle(): the head of the list is removed and freed.
MsgCycle ==
    /\ User(Driver)
    /\ upc[Driver] = "cycle"
    /\ EnterKernel("handled")
    /\ message_list' = [message_list EXCEPT ![Driver] =
                           IF @ = <<>> THEN @ ELSE RemoveHead(@)]
    /\ return_message' = NULL
    /\ Continue(Driver, "retrieve")
    /\ UNCHANGED <<sched, thread_flags, sig_wait, sig_recvd, num_msg, ret, reg, buf>>

\* A thread of its own accord calls kprintf().
CallPrint(t) ==
    /\ User(t)
    /\ upc[t] = "run"
    /\ t \in Printers \ {KernelThread}
    /\ Continue(t, "format")
    /\ UNCHANGED <<sched, desc, ret, reg, return_message, buf, k_reenter, kstack, sti,
                   next_thread>>

\* kprintf() formats into its static buffer before it calls forbid().
Format(t) ==
    /\ User(t)
    /\ upc[t] = "format"
    /\ buf' = t
    /\ Continue(t, "forbid_load")
    /\ UNCHANGED <<sched, desc, ret, reg, return_message, k_reenter, kstack, sti,
                   next_thread>>

\* forbid() and permit() are a load, an increment or decrement and a store.
Load(t) ==
    /\ User(t)
    /\ \/ upc[t] = "forbid_load" /\ Continue(t, "forbid_store")
       \/ upc[t] = "permit_load" /\ Continue(t, "permit_store")
    /\ reg' = [reg EXCEPT ![t] = forbid_counter]
    /\ UNCHANGED <<sched, desc, ret, return_message, buf, k_reenter, kstack, sti,
                   next_thread>>

ForbidStore(t) ==
    /\ User(t)
    /\ upc[t] = "forbid_store"
    /\ forbid_counter' = reg[t] + 1
    /\ reg' = [reg EXCEPT ![t] = 0]
    /\ Continue(t, "write")
    /\ UNCHANGED <<sys_flags, running_thread, thread_ready, thread_wait, ts_curr_count,
                   desc, ret, return_message, buf, k_reenter, kstack, sti, next_thread>>

\* monitor_write(): system call 1 prints the buffer.
MonitorWrite(t) ==
    /\ User(t)
    /\ upc[t] = "write"
    /\ EnterKernel("handled")
    /\ Continue(t, "permit_load")
    /\ UNCHANGED <<sched, desc, ret, reg, return_message, buf>>

PermitStore(t) ==
    /\ User(t)
    /\ upc[t] = "permit_store"
    /\ forbid_counter' = reg[t] - 1
    /\ reg' = [reg EXCEPT ![t] = 0]
    /\ Continue(t, ret[t])
    /\ ret' = [ret EXCEPT ![t] = "run"]
    /\ UNCHANGED <<sys_flags, running_thread, thread_ready, thread_wait, ts_curr_count,
                   desc, return_message, buf, k_reenter, kstack, sti, next_thread>>

\* The next instructions of a thread that is in the middle of a call.
PrintStep(t) ==
    Format(t) \/ Load(t) \/ ForbidStore(t) \/ MonitorWrite(t) \/ PermitStore(t)

DriverStep == MsgRetrieve \/ MsgWait \/ MsgCycle

-----------------------------------------------------------------------------
KeyInterrupt == (\E m \in FreeMessages : KeyPress(m)) \/ KeyRelease \/ KeyPanic

Next ==
    \/ \E t \in Threads : CreateThread(t)
    \/ EnterUserMode
    \/ TimerTick
    \/ KeyInterrupt
    \/ KernelStep
    \/ \E t \in Threads : PrintStep(t) \/ CallPrint(t)
    \/ \E t \in Threads, flags \in WaitFlags : Wait(t, flags)
    \/ DriverStep

Spec == Init /\ [][Next]_vars

(***************************************************************************)
(* The processor goes on executing between interrupts, the programmable    *)
(* timer ticks for ever and the interrupt controller keeps its request     *)
(* until interrupts are on.  Nothing is promised of key presses, nor that  *)
(* a thread that computes ("run") ever makes a call.                       *)
(***************************************************************************)
Fairness ==
    /\ WF_vars(EnterUserMode \/ \E t \in Threads : CreateThread(t))
    /\ SF_vars(TimerTick)
    /\ WF_vars(Reschedule \/ NoSwitch \/ BeginSwitch)
    /\ SF_vars(ProbeReady \/ Idle \/ Halt \/ UnlinkNext \/ InstallNext \/ LeaveSwitch)
    /\ \A t \in Threads : SF_vars(PrintStep(t))
    /\ SF_vars(DriverStep)

FairSpec == Spec /\ Fairness

-----------------------------------------------------------------------------
(***************************************************************************)
(* Safety.                                                                 *)
(***************************************************************************)

\* The thread that is in no queue because it has the processor, or because
\* switch_threads() has taken it from the ready queue to give it to it.
OffQueues ==
    IF kstack = <<>> THEN {running_thread}
    ELSE CASE kstack[1] \in {"handled", "dispatch"} ->
                 IF "NEED_TASK_SWITCH" \in sys_flags THEN {} ELSE {running_thread}
           [] kstack[1] = "install" -> {next_thread}
           [] kstack[1] \in {"exit", "panic"} -> {running_thread}
           [] OTHER -> {}

Created == {t \in Threads : upc[t] # "uncreated"}

(***************************************************************************)
(* Every thread is in exactly one place: linked once in the ready queue,   *)
(* linked in the wait queue, or in neither because it has or is about to   *)
(* get the processor.  schedule(), _wait_for_flags() and _signal() all     *)
(* relink a node without a check that it is linked nowhere else.           *)
(***************************************************************************)
QueueDiscipline ==
    /\ Distinct(thread_ready)
    /\ ToSet(thread_ready) \cap thread_wait = {}
    /\ (ToSet(thread_ready) \cup thread_wait) \cap OffQueues = {}
    /\ ToSet(thread_ready) \cup thread_wait \cup OffQueues = Created

(***************************************************************************)
(* forbid() and permit() update a shared counter in ring 3 without an      *)
(* atomic instruction.  Still the counter is exact, and only the running   *)
(* thread can be between the two calls.                                    *)
(***************************************************************************)
InForbid(t) == upc[t] \in ForbidPC

ForbidExact ==
    /\ forbid_counter = IF \E t \in Threads : InForbid(t) THEN 1 ELSE 0
    /\ \A t \in Threads : InForbid(t) => t = running_thread

(***************************************************************************)
(* A thread that waits for ST_MESG is in the wait queue: when _signal()    *)
(* unlinks the driver, it unlinks it from there.  Nobody signals the       *)
(* kernel thread, whose sig_wait was never initialised.                    *)
(***************************************************************************)
SignalFindsWaiter ==
    \A t \in Threads \ {KernelThread} :
        "ST_MESG" \in sig_wait[t] => t \in thread_wait

(***************************************************************************)
(* A scheduling request left over when the kernel returns to ring 3 finds  *)
(* an empty ready queue.  Otherwise a thread that blocks would be linked   *)
(* in the wait queue by its call and in the ready queue by the schedule()  *)
(* that serves the left-over request on the way out of the same call.      *)
(***************************************************************************)
LeftoverRequestIsIdle ==
    InRing3 /\ "NEED_SCHEDULE" \in sys_flags => thread_ready = <<>>

(***************************************************************************)
(* The flag by which the dispatcher decides to save a context (TS_RUN)     *)
(* and the wait state agree with the queues at every step.                 *)
(***************************************************************************)
FlagsMatchQueues ==
    \A t \in Threads :
        /\ "TS_WAIT" \in thread_flags[t] <=> t \in thread_wait
        /\ "TS_RUN" \in thread_flags[t] <=>
              /\ t = running_thread
              /\ kstack = <<>> \/ kstack[1] \in {"handled", "dispatch", "exit", "panic"}

(***************************************************************************)
(* Interrupts nest one deep, only over a switch that has been idle, and    *)
(* k_reenter counts them: the scheduler and the switch run at the          *)
(* outermost level alone.                                                  *)
(***************************************************************************)
NestingBounded ==
    /\ k_reenter = Len(kstack) - 1
    /\ Len(kstack) <= 2
    /\ Len(kstack) = 2 => /\ sti
                          /\ kstack[1] \in SwitchPC
                          /\ kstack[2] \in {"handled", "dispatch", "panic"}

(***************************************************************************)
(* The pointer msg_retrieve() returned stays the head of the port, which   *)
(* is neither freed nor overtaken, until msg_cycle() frees that message.   *)
(***************************************************************************)
HeldMessageIsHead ==
    return_message # NULL =>
        /\ message_list[Driver] # <<>>
        /\ return_message = Head(message_list[Driver])

(***************************************************************************)
(* The keyboard interrupt finds its driver in one of the places where      *)
(* find_thread() looks, but for one window: a switch that has been idle is *)
(* interruptible, and between remove() and the assignment of               *)
(* running_thread the driver it chose is in none of them.                  *)
(***************************************************************************)
DriverFindable ==
    InterruptsOn => Findable(Driver) \/ (sti /\ At("install") /\ next_thread = Driver)

-----------------------------------------------------------------------------
(***************************************************************************)
(* Action properties.                                                      *)
(***************************************************************************)

\* switch_threads() gives the processor to a thread that no ready thread
\* outranks, whatever was readied since it chose it.
HighestPriorityRuns ==
    [][running_thread' # running_thread =>
          \A t \in ToSet(thread_ready) : Pri[t] <= Pri[running_thread']]_vars

\* Between forbid() and permit() a thread keeps the processor, and nobody
\* else formats into the buffer kprintf() prints from.
ForbidHolds ==
    [][\A t \in Threads :
          InForbid(t) => running_thread' = running_thread /\ buf' = buf]_vars

-----------------------------------------------------------------------------
(***************************************************************************)
(* Liveness.                                                               *)
(***************************************************************************)

(***************************************************************************)
(* A thread readied while the processor idles is found by switch_threads,  *)
(* even if the interrupt that readied it came between enable() and hlt.    *)
(***************************************************************************)
Idling == kstack # <<>> /\ kstack[1] \in {"probe", "hlt", "halted"}

IdleEnds == Idling /\ thread_ready # <<>> ~> ~ Idling

\* A driver in the ready queue gets the processor from schedule().
ReadyDriverRuns == Driver \in ToSet(thread_ready) ~> running_thread = Driver

(***************************************************************************)
(* A message is retrieved and freed if the driver is awake: no signal is   *)
(* sent for it then, and only the loop of msg_retrieve(), entered again    *)
(* after every message, finds it.  What is posted after the loop has seen  *)
(* an empty port (NoLostWakeup) stays there until the driver wakes up, but *)
(* then it is consumed as well.                                            *)
(***************************************************************************)
Overlooked == upc[Driver] = "empty" \/ Driver \in thread_wait

MessagesConsumed ==
    \A m \in Messages :
        m \in ToSet(message_list[Driver]) /\ ~ Overlooked ~>
            m \notin ToSet(message_list[Driver])

-----------------------------------------------------------------------------
(***************************************************************************)
(* The abstract specifications this module implements.                     *)
(***************************************************************************)

\* The driver's port is a mailbox: nothing the interrupts do between two of
\* its system calls loses, repeats or reorders a message.
Port == INSTANCE Mailbox WITH queue <- message_list[Driver], reading <- return_message

PortIsMailbox == Port!Spec

\* The processor, the queues and the steps of the switch, interrupted or
\* not, are a processor handed from thread to thread by priority.
Processor ==
    INSTANCE Multitasking
    WITH cpu <- IF OffQueues = {} THEN NULL ELSE CHOOSE t \in OffQueues : TRUE,
         ready <- ToSet(thread_ready),
         blocked <- thread_wait

KernelIsMultitasking == Processor!Spec

-----------------------------------------------------------------------------
(***************************************************************************)
(* What the comments of the source say, and the code does not do.          *)
(***************************************************************************)

(***************************************************************************)
(* thread.h: ST_MESG is "Thread received a message".  A thread blocked for *)
(* that signal has received none it has not been told of.  _signal()       *)
(* records nothing for a thread that is not waiting yet, and               *)
(* msg_retrieve() is interruptible between its look and its wait().        *)
(***************************************************************************)
NoLostWakeup ==
    Driver \in thread_wait /\ "ST_MESG" \in sig_wait[Driver] => message_list[Driver] = <<>>
=============================================================================
