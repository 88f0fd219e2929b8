------------------------------ MODULE Dispatch ------------------------------
(***************************************************************************)
(* What KryptonKernel leaves to the processor: the kernel stacks and the   *)
(* contexts on them, the stack pointers dispatch saves and loads, the TSS, *)
(* and the end of interrupt the interrupt controller waits for.            *)
(*                                                                         *)
(* Every action is one of KryptonKernel's with its effect on this state,   *)
(* but for two the other module has no use for: the load of the new stack  *)
(* pointer, and the iret behind the decrement of k_reenter.  Between those *)
(* two the kernel counts as left and the processor is still in ring 0, on  *)
(* the stack of the thread: after an idle switch with interrupts on.       *)
(***************************************************************************)
EXTENDS KryptonKernel

\* The end of the address space: the stack of a kernel_esp that is 0.  The
\* page directory maps itself there, its own entry in the last word.
CONSTANT AddressEnd

ASSUME DispatchAssumption == AddressEnd \notin Threads \cup {NULL}

VARIABLES
    stack,          \* the contexts on each kernel stack, the innermost last
    esp,            \* in the kernel: the stack in use and how much of it
    kernel_esp,     \* the descriptors' saved stack pointers
    esp0,           \* the TSS: where an interrupt from ring 3 puts its frame
    context,        \* what the processor executes in ring 3: whose program,
                    \* and which step of it
    leaving,        \* between the decrement of k_reenter and iret
    in_service,     \* the lines the interrupt controller has not seen end
    self_reference  \* the page directory's last entry is its own address

hardware == <<stack, esp, kernel_esp, esp0, context, leaving, in_service, self_reference>>

Stacks == Threads \cup {AddressEnd}

\* A stack pointer, at the top of a stack that holds depth contexts.
At0(s) == [stack |-> s, depth |-> 0]

Nowhere == [who |-> NULL, pc |-> NULL]

-----------------------------------------------------------------------------
\* create_thread() zeroes the descriptors, but nobody the kernel thread's.
HardwareInit ==
    /\ stack = [s \in Stacks |-> <<>>]
    /\ esp = At0(KernelThread)
    /\ \E garbage \in Stacks :
          kernel_esp = [t \in Threads |-> At0(IF t = KernelThread THEN garbage ELSE AddressEnd)]
    /\ esp0 = At0(KernelThread)
    /\ context = Nowhere
    /\ leaving = FALSE
    /\ in_service = {}
    /\ self_reference = TRUE

\* The stack above a stack pointer, which may point where nothing was pushed.
Above(p) ==
    [i \in 1 .. p.depth |->
        IF i \in DOMAIN stack[p.stack] THEN stack[p.stack][i] ELSE Nowhere]

\* What lies under the stack pointer is overwritten.
Pushed(p, c) == [stack EXCEPT ![p.stack] = Append(Above(p), c)]

Deeper(p, n) == [p EXCEPT !.depth = @ + n]

\* What an interrupt or a system call interrupts, and goes back to.
Here ==
    [who |-> running_thread,
     pc  |-> CASE kstack # <<>> -> Interrupted[Len(kstack)]
               [] kstack = <<>> /\ leaving -> "leaving"
               [] OTHER -> upc'[running_thread]]

InRing0 == kstack # <<>> \/ leaving

\* The processor changes to the stack of the TSS if it leaves ring 3.
PushContext ==
    LET p == IF InRing0 THEN esp ELSE esp0
    IN  /\ stack' = Pushed(p, Here)
        /\ esp' = Deeper(p, 1)
        /\ context' = Nowhere
        /\ leaving' = FALSE
        /\ UNCHANGED <<kernel_esp, esp0, self_reference>>

\* iret: to where the context says, if there is one.
PopContext(p) ==
    LET c == IF p.depth > 0 THEN Last(Above(p)) ELSE Nowhere
    IN  /\ stack' = [stack EXCEPT ![p.stack] = Above(Deeper(p, -1))]
        /\ esp' = Deeper(p, -1)
        /\ context' = IF c.pc \in UserPC THEN c ELSE Nowhere
        /\ leaving' = (c.pc = "leaving")

-----------------------------------------------------------------------------
(***************************************************************************)
(* The controller serves a line when none as urgent is in service; no line *)
(* is masked.                                                              *)
(***************************************************************************)
Tick ==
    /\ TimerTick
    /\ in_service = {}
    /\ PushContext
    /\ in_service' = {"IRQ0"}

Key ==
    /\ KeyInterrupt
    /\ in_service = {}
    /\ PushContext
    /\ in_service' = {"IRQ1"}

\* int 0xFF.
Call ==
    /\ ~ leaving
    /\ \/ \E t \in Threads : MonitorWrite(t) \/ \E flags \in WaitFlags : Wait(t, flags)
       \/ DriverStep
    /\ PushContext
    /\ UNCHANGED in_service

\* A step of a program that stays in ring 3.
Compute ==
    /\ ~ leaving
    /\ \E t \in Threads :
          CallPrint(t) \/ Format(t) \/ Load(t) \/ ForbidStore(t) \/ PermitStore(t)
    /\ context' = [context EXCEPT !.pc = upc'[running_thread]]
    /\ UNCHANGED <<stack, esp, kernel_esp, esp0, leaving, in_service, self_reference>>

Create ==
    /\ \E t \in Threads : CreateThread(t)
    /\ UNCHANGED hardware

EnterRing3 ==
    /\ EnterUserMode
    /\ context' = [who |-> running_thread, pc |-> upc'[running_thread]]
    /\ UNCHANGED <<stack, esp, kernel_esp, esp0, leaving, in_service, self_reference>>

\* Mutant: the end of the interrupt is sent when the thread comes back.
EndOfInterruptLate == in_service' = IF "NEED_TASK_SWITCH" \in sys_flags' THEN in_service ELSE {}

\* The handler has returned: EOI to the controller, then schedule().
EndOfInterrupt == in_service' = {}

Handled ==
    /\ Reschedule
    /\ EndOfInterrupt
    /\ UNCHANGED <<stack, esp, kernel_esp, esp0, context, leaving, self_reference>>

Return ==
    /\ NoSwitch
    /\ PopContext(esp)
    /\ UNCHANGED <<kernel_esp, esp0, in_service, self_reference>>

\* dispatch saves the stack pointer of a thread that was running.
SaveContext ==
    /\ BeginSwitch
    /\ kernel_esp' = IF "TS_RUN" \in thread_flags[running_thread]
                     THEN [kernel_esp EXCEPT ![running_thread] = esp]
                     ELSE kernel_esp
    /\ UNCHANGED <<stack, esp, esp0, context, leaving, in_service, self_reference>>

Switching ==
    /\ ProbeReady \/ Idle \/ Halt \/ UnlinkNext
    /\ UNCHANGED hardware

\* Mutants: interrupts go on from the saved stack pointer; or the TSS keeps
\* the stack of the thread before.
KernelStackSaved(t) == kernel_esp[t]
KernelStackKept(t)  == esp0

\* init_kernel_esp, the top of the thread's own stack.
KernelStack(t) == At0(t)

\* switch_threads() ends with set_kernel_stack().
Install ==
    /\ InstallNext
    /\ esp0' = KernelStack(next_thread)
    /\ UNCHANGED <<stack, esp, kernel_esp, context, leaving, in_service, self_reference>>

LoadStack ==
    /\ At("exit")
    /\ esp # kernel_esp[running_thread]
    /\ esp' = kernel_esp[running_thread]
    /\ UNCHANGED <<vars, stack, kernel_esp, esp0, context, leaving, in_service, self_reference>>

StackLoaded == esp = kernel_esp[running_thread]

\* A thread that is launched gets a frame for iret; one that is resumed has
\* its context.  The iret follows at once unless interrupts are on.
Launching == "TB_LAUNCH" \in thread_flags[running_thread]

Launch ==
    /\ StackLoaded
    /\ Launching
    /\ LeaveSwitch
    /\ IF sti
       THEN /\ stack' = Pushed(esp, [who |-> running_thread, pc |-> upc[running_thread]])
            /\ esp' = Deeper(esp, 1)
            /\ leaving' = TRUE
            /\ UNCHANGED context
       ELSE /\ context' = [who |-> running_thread, pc |-> upc[running_thread]]
            /\ UNCHANGED <<stack, esp, leaving>>
    /\ self_reference' = (self_reference /\ esp # At0(AddressEnd))
    /\ UNCHANGED <<kernel_esp, esp0, in_service>>

Resume ==
    /\ StackLoaded
    /\ ~ Launching
    /\ LeaveSwitch
    /\ IF sti THEN leaving' = TRUE /\ UNCHANGED <<stack, esp, context>> ELSE PopContext(esp)
    /\ UNCHANGED <<kernel_esp, esp0, in_service, self_reference>>

Iret ==
    /\ kstack = <<>>
    /\ leaving
    /\ PopContext(esp)
    /\ UNCHANGED <<vars, kernel_esp, esp0, in_service, self_reference>>

DispatchNext ==
    \/ Tick \/ Key \/ Call \/ Compute \/ Create \/ EnterRing3
    \/ Handled \/ Return \/ SaveContext \/ Switching \/ Install
    \/ LoadStack \/ Launch \/ Resume \/ Iret

DispatchSpec == Init /\ HardwareInit /\ [][DispatchNext]_<<vars, hardware>>
-----------------------------------------------------------------------------
(***************************************************************************)
(* Properties.                                                             *)
(***************************************************************************)
Own(t) == [who |-> t, pc |-> upc[t]]

\* The contexts of t: its program's, and its return's if that was interrupted.
Contexts(t) == {<<Own(t)>>, <<Own(t), [who |-> t, pc |-> "leaving"]>>}

Launched(t) == t \in Created /\ "TB_LAUNCH" \notin thread_flags[t]

\* dispatch has saved the context of t and has not yet gone back to it.
Suspended(t) == Launched(t) /\ (t = running_thread => kstack # <<>> /\ kstack[1] \in SwitchPC)

(***************************************************************************)
(* Every thread goes on exactly where it was stopped.  In ring 3 the       *)
(* processor executes the running thread, at its next step.  The saved     *)
(* stack pointer of a thread that is stopped finds its context whatever    *)
(* was interrupted, idled and launched since.  And an interrupt of the     *)
(* switch, or of the return from the kernel, goes back to it.              *)
(***************************************************************************)
EveryContextKept ==
    /\ InRing3 /\ ~ leaving => context = Own(running_thread)
    /\ InRing3 /\ leaving => Last(Above(esp)) = Own(running_thread)
    /\ Len(kstack) = 2 => Last(Above(esp)) = [who |-> running_thread, pc |-> kstack[1]]
    /\ \A t \in Threads : Suspended(t) => Above(kernel_esp[t]) \in Contexts(t)

(***************************************************************************)
(* A kernel stack, of 4000 bytes, has to hold two contexts and no more,    *)
(* however long threads preempt each other, block and idle.                *)
(***************************************************************************)
StacksBounded == \A s \in Stacks : Len(stack[s]) <= 2

(***************************************************************************)
(* The frame a thread is launched with lies where the next launch puts its *)
(* own.  No interrupt ever finds it there: a switch that launches a thread *)
(* has not been idle, since the thread was ready from its creation on.     *)
(***************************************************************************)
LaunchUndisturbed ==
    /\ stack[AddressEnd] = <<>>
    /\ At("exit") /\ Launching => ~ sti

(***************************************************************************)
(* While interrupts are on, the controller waits for no end of interrupt:  *)
(* a thread switch in the middle of an interrupt does not silence the      *)
(* timer or the keyboard until the thread interrupted runs again.          *)
(***************************************************************************)
NoLineSilenced == InterruptsOn => in_service = {}

(***************************************************************************)
(* pmm.c: "Self-reference the page directory for later easy access".  The  *)
(* heap grows through that entry.  The first launch overwrites it: with    *)
(* kernel_esp 0 the first word pushed is the last one of the directory.    *)
(***************************************************************************)
PageDirectoryKept == self_reference
=============================================================================
