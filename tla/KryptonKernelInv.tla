--------------------------- MODULE KryptonKernelInv ---------------------------
(***************************************************************************)
(* The inductive invariant behind the safety theorems of KryptonKernel.    *)
(***************************************************************************)
EXTENDS KryptonKernel

\* While the system boots no interrupt has been served yet.
BootInv ==
    upc[KernelThread] = "boot" => kstack = <<>> /\ sys_flags = {}

\* Interrupts are on in the kernel only inside an idle switch.
NestingInv ==
    /\ NestingBounded
    /\ sti => kstack # <<>> /\ kstack[1] \in SwitchPC

\* The outermost frame of a kernel that is not switching threads.
HandlerPC == {"handled", "dispatch"}

\* A task switch that is due is served before the return to ring 3.
SwitchInv ==
    /\ "NEED_TASK_SWITCH" \in sys_flags => kstack # <<>> /\ kstack[1] \in HandlerPC
    /\ kstack # <<>> /\ kstack[1] = "unlink" => next_thread \in ToSet(thread_ready)
    /\ kstack # <<>> /\ kstack[1] = "install" => next_thread \in Threads

\* The counter, and what the threads in the middle of forbid() or permit()
\* have read from it; no thread switches between the two calls.
ForbidInv ==
    /\ ForbidExact
    /\ \A t \in Threads :
          /\ upc[t] = "forbid_store" => reg[t] = 0
          /\ upc[t] = "permit_store" => reg[t] = 1
          /\ ret[t] \in {"run", "retrieve", "cycle", "format"}
          /\ InForbid(t) =>
                /\ "NEED_TASK_SWITCH" \notin sys_flags
                /\ kstack = <<>> \/ kstack[1] \in HandlerPC \cup {"panic"}

\* Only the driver is ever readied while the processor idles, so a request
\* that survives the switch finds the ready queue empty; any other request
\* is served on the way out of the interrupt that made it.
RequestInv ==
    /\ \A t \in Threads : "TB_SIGNAL" \notin thread_flags[t]
    /\ kstack = <<>> /\ "NEED_SCHEDULE" \in sys_flags => thread_ready = <<>>
    /\ kstack # <<>> =>
          /\ kstack[1] = "handled" /\ {"NEED_SCHEDULE", "NEED_TASK_SWITCH"} \subseteq sys_flags
                => thread_ready = <<>>
          /\ kstack[1] = "dispatch" => "NEED_SCHEDULE" \notin sys_flags
          /\ kstack[1] \in SwitchPC /\ ~ sti => "NEED_SCHEDULE" \notin sys_flags
          /\ kstack[1] \in SwitchPC /\ sti => ToSet(thread_ready) \subseteq {Driver}
          /\ kstack[1] \in {"install", "exit"} /\ sti =>
                thread_ready = <<>> /\ Driver \notin thread_wait

IInv ==
    /\ TypeOK
    /\ BootInv
    /\ NestingInv
    /\ SwitchInv
    /\ ForbidInv
    /\ QueueDiscipline
    /\ SignalFindsWaiter
    /\ RequestInv
=============================================================================
