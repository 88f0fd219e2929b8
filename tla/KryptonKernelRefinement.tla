----------------------- MODULE KryptonKernelRefinement -----------------------
(***************************************************************************)
(* What follows from IInv with three more invariants: that the driver's    *)
(* port is a mailbox, that flags agree with queues, that the keyboard      *)
(* interrupt finds its driver, that the most urgent thread runs, and that  *)
(* the kernel implements Multitasking.                                     *)
(***************************************************************************)
EXTENDS KryptonKernelProofs

USE KernelAssumption

(***************************************************************************)
(* The port.  The driver holds a message exactly from the system call that *)
(* found one to the one that disposes of it, kprintf() in between.         *)
(***************************************************************************)
PrintPC == {"format", "forbid_load", "forbid_store", "write", "permit_load", "permit_store"}

DriverInv ==
    /\ upc[Driver] \notin {"run", "boot"}
    /\ upc[Driver] \in {"uncreated", "retrieve", "empty"} => return_message = NULL
    /\ upc[Driver] = "cycle" => return_message # NULL
    /\ upc[Driver] \in PrintPC =>
          ret[Driver] = IF return_message = NULL THEN "retrieve" ELSE "cycle"
    /\ HeldMessageIsHead

\* What DriverInv and the port are about.
driver == <<upc[Driver], ret[Driver], return_message, message_list[Driver]>>

\* Steps that leave the driver and its port alone.
LEMMA DriverFrame ==
    ASSUME DriverInv, UNCHANGED driver
    PROVE  DriverInv' /\ UNCHANGED Port!vars
  BY DEF DriverInv, HeldMessageIsHead, driver, Port!vars

\* Another thread's program goes on without the driver's.
LEMMA OthersStep ==
    ASSUME IInv, NEW t \in Threads, t # Driver,
           CreateThread(t) \/ CallPrint(t) \/ PrintStep(t)
    PROVE  UNCHANGED driver
<1>1. upc \in [Threads -> UserPC] /\ ret \in [Threads -> UserPC]
  BY DEF IInv, TypeOK
<1>2. UNCHANGED <<return_message, message_list>>
  BY DEF CreateThread, CallPrint, PrintStep, Format, Load, ForbidStore, MonitorWrite,
         PermitStore, desc
<1>3. upc'[Driver] = upc[Driver] /\ ret'[Driver] = ret[Driver]
  BY <1>1 DEF CreateThread, CallPrint, PrintStep, Format, Load, ForbidStore, MonitorWrite,
              PermitStore, Continue
<1>4. QED
  BY <1>2, <1>3 DEF driver

\* The driver's own steps in kprintf(), and its creation.
LEMMA DriverPrints ==
    ASSUME IInv, DriverInv, CreateThread(Driver) \/ CallPrint(Driver) \/ PrintStep(Driver)
    PROVE  DriverInv' /\ UNCHANGED Port!vars
<1>1. /\ upc \in [Threads -> UserPC] /\ ret \in [Threads -> UserPC]
      /\ Driver \in Threads
  BY DEF IInv, TypeOK
<1>2. UNCHANGED <<return_message, message_list>>
  BY DEF CreateThread, CallPrint, PrintStep, Format, Load, ForbidStore, MonitorWrite,
         PermitStore, desc
<1>3. UNCHANGED Port!vars /\ HeldMessageIsHead'
  BY <1>2 DEF DriverInv, HeldMessageIsHead, Port!vars
<1>4. ~ CallPrint(Driver)
  BY DEF DriverInv, CallPrint
<1>5. CASE CreateThread(Driver)
  <2>1. upc'[Driver] \in {"format", "retrieve"} /\ ret'[Driver] = "retrieve"
    BY <1>1, <1>5 DEF CreateThread, StartOf
  <2>2. return_message' = NULL
    BY <1>2, <1>5 DEF CreateThread, DriverInv
  <2>3. QED
    BY <1>3, <2>1, <2>2 DEF DriverInv
<1>6. CASE Format(Driver) \/ Load(Driver) \/ ForbidStore(Driver) \/ MonitorWrite(Driver)
  <2>1. upc[Driver] \in PrintPC /\ upc'[Driver] \in PrintPC /\ ret' = ret
    BY <1>1, <1>6 DEF Format, Load, ForbidStore, MonitorWrite, Continue, PrintPC
  <2>2. QED
    BY <1>2, <1>3, <2>1 DEF DriverInv, PrintPC
<1>7. CASE PermitStore(Driver)
  <2>1. upc[Driver] \in PrintPC /\ upc'[Driver] = ret[Driver]
    BY <1>1, <1>7 DEF PermitStore, Continue, PrintPC
  <2>2. upc'[Driver] = IF return_message = NULL THEN "retrieve" ELSE "cycle"
    BY <2>1 DEF DriverInv
  <2>3. QED
    BY <1>2, <1>3, <2>2 DEF DriverInv, PrintPC
<1>8. QED
  BY <1>4, <1>5, <1>6, <1>7 DEF PrintStep

\* The calls on the port.
LEMMA DriverCalls ==
    ASSUME IInv, DriverInv, DriverStep
    PROVE  DriverInv' /\ [Port!Next]_(Port!vars)
<1>1. /\ upc \in [Threads -> UserPC] /\ ret \in [Threads -> UserPC]
      /\ message_list \in [Threads -> Seq(Messages)]
      /\ Driver \in Threads
  BY DEF IInv, TypeOK
<1>2. CASE MsgRetrieve
  <2>1. /\ upc[Driver] = "retrieve" /\ return_message = NULL
        /\ message_list' = message_list
    BY <1>2 DEF MsgRetrieve, DriverInv, desc
  <2>2. CASE message_list[Driver] = <<>>
    <3>1. upc'[Driver] = "empty" /\ return_message' = NULL
      BY <1>1, <1>2, <2>2 DEF MsgRetrieve, Continue
    <3>2. QED
      BY <2>1, <3>1 DEF DriverInv, PrintPC, HeldMessageIsHead, Port!vars
  <2>3. CASE message_list[Driver] # <<>>
    <3>1. /\ upc'[Driver] \in {"format", "cycle"} /\ ret'[Driver] = "cycle"
          /\ return_message' = Head(message_list[Driver])
      BY <1>1, <1>2, <2>3 DEF MsgRetrieve, Continue
    <3>2. Head(message_list[Driver]) \in Messages
      BY <1>1, <2>3
    <3>3. return_message' # NULL
      BY <3>1, <3>2
    <3>4. Port!Read
      BY <2>1, <2>3, <3>1 DEF Port!Read
    <3>5. HeldMessageIsHead'
      BY <2>1, <2>3, <3>1 DEF HeldMessageIsHead
    <3>6. QED
      BY <3>1, <3>3, <3>4, <3>5 DEF DriverInv, PrintPC, Port!Next
  <2>4. QED
    BY <2>2, <2>3
<1>3. CASE MsgWait
  <2>1. upc[Driver] = "empty" /\ upc'[Driver] = "retrieve" /\ return_message = NULL
    BY <1>1, <1>3 DEF MsgWait, Continue, DriverInv
  <2>2. UNCHANGED <<return_message, message_list>>
    BY <1>3 DEF MsgWait, WaitCall
  <2>3. QED
    BY <2>1, <2>2 DEF DriverInv, PrintPC, HeldMessageIsHead, Port!vars
<1>4. CASE MsgCycle
  <2>1. /\ upc[Driver] = "cycle" /\ upc'[Driver] = "retrieve"
        /\ return_message # NULL /\ return_message' = NULL
    BY <1>1, <1>4 DEF MsgCycle, Continue, DriverInv
  <2>2. message_list[Driver] # <<>>
    BY <2>1 DEF DriverInv, HeldMessageIsHead
  <2>3. message_list'[Driver] = Tail(message_list[Driver])
    BY <1>1, <1>4, <2>2 DEF MsgCycle, RemoveHead
  <2>4. Port!Dispose
    BY <2>1, <2>3 DEF Port!Dispose
  <2>5. QED
    BY <2>1, <2>4 DEF DriverInv, PrintPC, HeldMessageIsHead, Port!Next
<1>5. QED
  BY <1>2, <1>3, <1>4 DEF DriverStep

\* A key press posts behind what the port holds.
LEMMA DriverPosted ==
    ASSUME IInv, DriverInv, NEW m \in FreeMessages, KeyPress(m)
    PROVE  DriverInv' /\ Port!Next
<1>1. /\ message_list \in [Threads -> Seq(Messages)]
      /\ Driver \in Threads /\ m \in Messages
      /\ m \notin ToSet(message_list[Driver])
  BY DEF IInv, TypeOK, FreeMessages
<1>2. message_list'[Driver] = Append(message_list[Driver], m)
  BY <1>1 DEF KeyPress, AddTail
<1>3. UNCHANGED <<upc, ret, return_message>>
  BY DEF KeyPress, user
<1>4. \A i \in 1 .. Len(message_list[Driver]) : message_list[Driver][i] # m
  BY <1>1 DEF ToSet
<1>5. Port!Post(m)
  BY <1>2, <1>3, <1>4 DEF Port!Post
<1>6. HeldMessageIsHead'
  <2>1. message_list[Driver] \in Seq(Messages)
    BY <1>1
  <2>2. message_list[Driver] # <<>> =>
           /\ Append(message_list[Driver], m) # <<>>
           /\ Head(Append(message_list[Driver], m)) = Head(message_list[Driver])
    BY <1>1, <2>1
  <2>3. QED
    BY <1>2, <1>3, <2>2 DEF DriverInv, HeldMessageIsHead
<1>7. QED
  BY <1>1, <1>3, <1>5, <1>6 DEF DriverInv, Port!Next

\* Every step of the kernel is a step of the mailbox, or none.
LEMMA DriverInductive ==
    ASSUME IInv, DriverInv, [Next]_vars
    PROVE  DriverInv' /\ [Port!Next]_(Port!vars)
<1>1. CASE \E t \in Threads : CreateThread(t) \/ PrintStep(t) \/ CallPrint(t)
  BY <1>1, OthersStep, DriverPrints, DriverFrame
<1>2. CASE KeyInterrupt
  <2>1. CASE KeyRelease \/ KeyPanic
    BY <2>1, DriverFrame DEF KeyRelease, KeyPanic, driver, desc, user
  <2>2. QED
    BY <1>2, <2>1, DriverPosted DEF KeyInterrupt
<1>3. CASE EnterUserMode
  <2>1. upc \in [Threads -> UserPC] /\ ret \in [Threads -> UserPC]
    BY DEF IInv, TypeOK
  <2>2. QED
    BY <1>3, <2>1, DriverFrame DEF EnterUserMode, driver, desc
<1>4. CASE TimerTick \/ KernelStep
  BY <1>4, DriverFrame DEF TimerTick, KernelStep, Reschedule, NoSwitch, BeginSwitch, ProbeReady,
     Idle, Halt, UnlinkNext, InstallNext, LeaveSwitch, driver, desc, user
<1>5. CASE \E t \in Threads, flags \in WaitFlags : Wait(t, flags)
  BY <1>5, DriverFrame DEF Wait, WaitCall, driver
<1>6. CASE DriverStep
  BY <1>6, DriverCalls
<1>7. CASE UNCHANGED vars
  BY <1>7, DriverFrame DEF vars, driver, desc, user
<1>8. QED
  BY <1>1, <1>2, <1>3, <1>4, <1>5, <1>6, <1>7 DEF Next

LEMMA DriverInvariance == Spec => []DriverInv
<1>1. Init => DriverInv
  BY DEF Init, DriverInv, HeldMessageIsHead, PrintPC
<1>2. IInv /\ DriverInv /\ [Next]_vars => DriverInv'
  BY DriverInductive
<1>3. QED
  BY <1>1, <1>2, Invariance, PTL DEF Spec

\* The message msg_retrieve() returned is neither freed nor overtaken before
\* the driver calls msg_cycle(), whatever keys are pressed meanwhile.
THEOREM HeldMessageStays == Spec => []HeldMessageIsHead
<1>1. DriverInv => HeldMessageIsHead
  BY DEF DriverInv
<1>2. QED
  BY <1>1, DriverInvariance, PTL

\* The driver's port, with the interrupts that post to it and the two system
\* calls on it, implements a mailbox.
THEOREM PortImplementsMailbox == Spec => PortIsMailbox
<1>1. Init => Port!Init
  BY DEF Init, Port!Init
<1>2. IInv /\ DriverInv /\ [Next]_vars => [Port!Next]_(Port!vars)
  BY DriverInductive
<1>3. QED
  BY <1>1, <1>2, Invariance, DriverInvariance, PTL DEF Spec, PortIsMailbox, Port!Spec

-----------------------------------------------------------------------------
(***************************************************************************)
(* The flags.  They are changed with the queues, in the same step, except  *)
(* in the switch, where TS_RUN is down from the first step to the last.    *)
(***************************************************************************)

\* The places of the outermost frame at which the running thread has TS_RUN.
RunningPC == {"handled", "dispatch", "exit", "panic"}

\* Steps that change no flags, nor the wait queue, nor who is running.
LEMMA FlagsUnchanged ==
    ASSUME FlagsMatchQueues,
           UNCHANGED <<thread_flags, thread_wait, running_thread>>,
           (kstack' = <<>> \/ kstack'[1] \in RunningPC) <=> (kstack = <<>> \/ kstack[1] \in RunningPC)
    PROVE  FlagsMatchQueues'
  BY DEF FlagsMatchQueues, RunningPC

\* An interrupt keeps the place it interrupts, but for a hlt it ends.
LEMMA EnterRunning ==
    ASSUME IInv, NEW pc \in {"handled", "panic"}, InterruptsOn, EnterKernel(pc)
    PROVE  (kstack' = <<>> \/ kstack'[1] \in RunningPC) <=> (kstack = <<>> \/ kstack[1] \in RunningPC)
<1>1. CASE kstack = <<>>
  BY <1>1, EnterShape DEF RunningPC
<1>2. CASE kstack # <<>>
  BY <1>2, EnterShape DEF RunningPC
<1>3. QED
  BY <1>1, <1>2

LEMMA FlagsInterrupt ==
    ASSUME IInv, FlagsMatchQueues, TimerTick \/ KeyInterrupt
    PROVE  FlagsMatchQueues'
<1>1. PICK pc \in {"handled", "panic"} : InterruptsOn /\ EnterKernel(pc)
  BY DEF TimerTick, KeyInterrupt, KeyPress, KeyRelease, KeyPanic
<1>2. (kstack' = <<>> \/ kstack'[1] \in RunningPC) <=> (kstack = <<>> \/ kstack[1] \in RunningPC)
  BY <1>1, EnterRunning
<1>3. CASE TimerTick \/ KeyRelease \/ KeyPanic
  BY <1>2, <1>3, FlagsUnchanged DEF TimerTick, KeyRelease, KeyPanic, desc, sched
<1>4. ASSUME NEW m \in FreeMessages, KeyPress(m)
      PROVE  FlagsMatchQueues'
  <2>1. Signal(Driver, {"ST_MESG"}) /\ running_thread' = running_thread
    BY <1>4 DEF KeyPress
  <2>2. CASE "ST_MESG" \notin sig_wait[Driver]
    <3>1. UNCHANGED <<thread_flags, thread_wait>>
      BY <2>1, <2>2 DEF Signal
    <3>2. QED
      BY <1>2, <2>1, <3>1, FlagsUnchanged
  <2>3. CASE "ST_MESG" \in sig_wait[Driver]
    <3>1. /\ thread_wait' = thread_wait \ {Driver}
          /\ thread_flags' = [thread_flags EXCEPT ![Driver] = (@ \ {"TS_WAIT"}) \cup {"TS_READY"}]
      BY <2>1, <2>3 DEF Signal, Readied
    <3>2. thread_flags \in [Threads -> SUBSET ThreadFlags] /\ Driver \in Threads
      BY DEF IInv, TypeOK
    <3>3. \A t \in Threads :
             /\ "TS_WAIT" \in thread_flags'[t] <=> "TS_WAIT" \in thread_flags[t] /\ t # Driver
             /\ "TS_RUN" \in thread_flags'[t] <=> "TS_RUN" \in thread_flags[t]
      BY <3>1, <3>2
    <3>4. QED
      BY <1>2, <2>1, <3>1, <3>3 DEF FlagsMatchQueues, RunningPC
  <2>4. QED
    BY <2>2, <2>3
<1>5. QED
  BY <1>3, <1>4 DEF KeyInterrupt

\* A thread that is created is not running and waits for nothing.
LEMMA FlagsCreate ==
    ASSUME IInv, FlagsMatchQueues, NEW t \in Threads, CreateThread(t)
    PROVE  FlagsMatchQueues'
<1>1. /\ upc[KernelThread] = "boot" /\ upc[t] = "uncreated"
      /\ thread_flags' = [thread_flags EXCEPT ![t] = {"TS_READY", "TB_LAUNCH"}]
      /\ UNCHANGED <<running_thread, thread_wait, kstack>>
  BY DEF CreateThread
<1>2. kstack = <<>>
  BY <1>1 DEF IInv, BootInv
<1>3. t \notin thread_wait /\ t # running_thread
  BY <1>1, <1>2 DEF IInv, QueueDiscipline, OffQueues, Created
<1>4. thread_flags \in [Threads -> SUBSET ThreadFlags]
  BY DEF IInv, TypeOK
<1>5. QED
  BY <1>1, <1>3, <1>4 DEF FlagsMatchQueues

\* System calls and the steps of ring 3: a thread that waits gets its flag.
LEMMA FlagsRingThree ==
    ASSUME IInv, FlagsMatchQueues,
           \/ \E t \in Threads : PrintStep(t) \/ CallPrint(t)
           \/ \E t \in Threads, flags \in WaitFlags : Wait(t, flags)
           \/ DriverStep
    PROVE  FlagsMatchQueues'
<1>1. CASE \E t \in Threads : Format(t) \/ Load(t) \/ ForbidStore(t) \/ PermitStore(t) \/ CallPrint(t)
  BY <1>1, FlagsUnchanged DEF Format, Load, ForbidStore, PermitStore, CallPrint, sched, desc
<1>2. CASE (\E t \in Threads : MonitorWrite(t)) \/ MsgRetrieve \/ MsgCycle
  <2>1. PICK t \in Threads : User(t) /\ EnterKernel("handled")
    BY <1>2 DEF MonitorWrite, MsgRetrieve, MsgCycle
  <2>2. kstack = <<>> /\ kstack'[1] = "handled"
    BY <2>1, SysCallStack
  <2>3. UNCHANGED <<thread_flags, thread_wait, running_thread>>
    BY <1>2 DEF MonitorWrite, MsgRetrieve, MsgCycle, sched, desc
  <2>4. QED
    BY <2>2, <2>3, FlagsUnchanged DEF RunningPC
<1>3. CASE \/ \E t \in Threads, flags \in WaitFlags : Wait(t, flags)
           \/ MsgWait
  <2>1. PICK t \in Threads, flags \in SUBSET Signals : User(t) /\ WaitCall(t, flags)
    BY <1>3 DEF Wait, MsgWait, Signals
  <2>2. /\ EnterKernel("handled") /\ Block(t, flags)
        /\ running_thread' = running_thread
    BY <2>1 DEF WaitCall
  <2>3. kstack = <<>> /\ kstack' # <<>> /\ kstack'[1] = "handled"
    BY <2>1, <2>2, SysCallStack
  <2>4. CASE t \in Root
    <3>1. /\ thread_wait' = thread_wait \cup {t}
          /\ thread_flags' = [thread_flags EXCEPT ![t] = (@ \ {"TS_READY"}) \cup {"TS_WAIT"}]
      BY <2>2, <2>4 DEF Block
    <3>2. thread_flags \in [Threads -> SUBSET ThreadFlags]
      BY DEF IInv, TypeOK
    <3>3. \A u \in Threads :
             /\ "TS_WAIT" \in thread_flags'[u] <=> "TS_WAIT" \in thread_flags[u] \/ u = t
             /\ "TS_RUN" \in thread_flags'[u] <=> "TS_RUN" \in thread_flags[u]
      BY <3>1, <3>2
    <3>4. QED
      BY <2>2, <2>3, <3>1, <3>3 DEF FlagsMatchQueues
  <2>5. CASE t \notin Root
    BY <2>2, <2>3, <2>5, FlagsUnchanged DEF Block, RunningPC
  <2>6. QED
    BY <2>4, <2>5
<1>4. QED
  BY <1>1, <1>2, <1>3 DEF PrintStep, DriverStep

\* The handler's tail and the switch.
LEMMA FlagsKernel ==
    ASSUME IInv, FlagsMatchQueues, KernelStep
    PROVE  FlagsMatchQueues'
<1>1. /\ thread_flags \in [Threads -> SUBSET ThreadFlags]
      /\ running_thread \in Threads
  BY DEF IInv, TypeOK
<1>2. CASE Reschedule \/ NoSwitch
  <2>1. UNCHANGED <<thread_flags, thread_wait, running_thread>>
    BY <1>2 DEF Reschedule, NoSwitch, desc, sched
  <2>2. CASE Reschedule
    <3>1. At("handled") /\ Goto("dispatch") /\ "handled" \in KernelPC /\ "dispatch" \in KernelPC
      BY <2>2 DEF Reschedule, KernelPC
    <3>2. \/ Len(kstack) = 1 \/ Len(kstack) = 2
      BY <3>1, StackShape DEF At
    <3>3. QED
      BY <2>1, <3>1, <3>2, GotoShape, FlagsUnchanged DEF RunningPC
  <2>3. CASE NoSwitch
    <3>1. At("dispatch") /\ kstack # <<>> /\ LeaveKernel
      BY <2>3 DEF NoSwitch, At
    <3>2. \/ Len(kstack) = 1 /\ kstack[1] = "dispatch" /\ kstack' = <<>>
          \/ Len(kstack') = 1 /\ kstack'[1] = kstack[1] /\ kstack' # <<>>
      BY <3>1, StackShape, LeaveShape DEF At, Top
    <3>3. QED
      BY <2>1, <3>1, <3>2, FlagsUnchanged DEF RunningPC
  <2>4. QED
    BY <1>2, <2>2, <2>3
<1>3. CASE BeginSwitch
  <2>1. /\ At("dispatch") /\ Goto("probe") /\ k_reenter = 0
        /\ thread_flags' = [thread_flags EXCEPT ![running_thread] = @ \ {"TS_RUN"}]
        /\ UNCHANGED <<running_thread, thread_wait>>
    BY <1>3 DEF BeginSwitch, SwitchDue
  <2>2. kstack' # <<>> /\ kstack'[1] = "probe"
    BY <2>1, StackShape, GotoShape DEF At, KernelPC, SwitchPC
  <2>3. kstack # <<>> /\ kstack[1] = "dispatch"
    BY <2>1, StackShape DEF At, Top
  <2>4. QED
    BY <1>1, <2>1, <2>2, <2>3 DEF FlagsMatchQueues
<1>4. CASE ProbeReady \/ Idle \/ Halt \/ UnlinkNext
  <2>1. PICK old \in SwitchPC \ RunningPC, pc \in SwitchPC \ RunningPC : At(old) /\ Goto(pc)
    BY <1>4 DEF ProbeReady, Idle, Halt, UnlinkNext, SwitchPC, RunningPC
  <2>2. UNCHANGED k_reenter
    BY <1>4 DEF ProbeReady, Idle, Halt, UnlinkNext
  <2>3. kstack # <<>> /\ kstack[1] = old /\ kstack' # <<>> /\ kstack'[1] = pc
    BY <2>1, <2>2, SwitchGoto
  <2>4. UNCHANGED <<thread_flags, thread_wait, running_thread>>
    BY <1>4 DEF ProbeReady, Idle, Halt, UnlinkNext, sched, desc
  <2>5. QED
    BY <2>1, <2>3, <2>4, FlagsUnchanged
<1>5. CASE InstallNext
  <2>1. /\ At("install") /\ Goto("exit") /\ UNCHANGED k_reenter
        /\ running_thread' = next_thread /\ thread_wait' = thread_wait
        /\ thread_flags' = [thread_flags EXCEPT ![next_thread] = @ \cup {"TS_RUN"}]
    BY <1>5 DEF InstallNext
  <2>2. kstack # <<>> /\ kstack[1] = "install" /\ kstack' # <<>> /\ kstack'[1] = "exit"
    BY <2>1, SwitchGoto DEF SwitchPC
  <2>3. next_thread \in Threads
    BY <2>2 DEF IInv, SwitchInv
  <2>4. QED
    BY <1>1, <2>1, <2>2, <2>3 DEF FlagsMatchQueues
<1>6. CASE LeaveSwitch
  <2>1. /\ At("exit") /\ LeaveKernel
        /\ UNCHANGED <<running_thread, thread_wait>>
    BY <1>6 DEF LeaveSwitch, sched
  <2>2. kstack # <<>> /\ Len(kstack) = 1 /\ kstack[1] = "exit"
    BY <2>1, SwitchAtTheBottom DEF SwitchPC
  <2>3. kstack' = <<>>
    BY <2>1, <2>2, LeaveShape
  <2>4. \A t \in Threads :
           /\ "TS_WAIT" \in thread_flags'[t] <=> "TS_WAIT" \in thread_flags[t]
           /\ "TS_RUN" \in thread_flags'[t] <=> "TS_RUN" \in thread_flags[t]
    BY <1>1, <1>6 DEF LeaveSwitch
  <2>5. QED
    BY <2>1, <2>2, <2>3, <2>4 DEF FlagsMatchQueues
<1>7. QED
  BY <1>2, <1>3, <1>4, <1>5, <1>6 DEF KernelStep

\* TS_RUN, by which dispatch decides whether to save a context, and TS_WAIT
\* agree with the queues in every state.
THEOREM FlagsFollowQueues == Spec => []FlagsMatchQueues
<1>1. Init => FlagsMatchQueues
  BY DEF Init, FlagsMatchQueues
<1>2. IInv /\ FlagsMatchQueues /\ [Next]_vars => FlagsMatchQueues'
  <2>1. SUFFICES ASSUME IInv, FlagsMatchQueues, [Next]_vars
                 PROVE  FlagsMatchQueues'
    OBVIOUS
  <2>2. CASE EnterUserMode \/ UNCHANGED vars
    BY <2>1, <2>2, FlagsUnchanged DEF EnterUserMode, vars, sched, desc
  <2>3. QED
    BY <2>1, <2>2, FlagsInterrupt, FlagsCreate, FlagsRingThree, FlagsKernel DEF Next
<1>3. QED
  BY <1>1, <1>2, Invariance, PTL DEF Spec

-----------------------------------------------------------------------------
(***************************************************************************)
(* The driver is found.  Once the system has booted every thread is in one *)
(* of the places of QueueDiscipline.                                       *)
(***************************************************************************)
BootDone == upc[KernelThread] # "boot" => \A t \in Threads : upc[t] # "uncreated"

\* A thread that exists goes on to exist, and the boot ends in one way only.
LEMMA StaysCreated ==
    ASSUME IInv, [Next]_vars
    PROVE  /\ \A t \in Threads : upc[t] # "uncreated" => upc'[t] # "uncreated"
           /\ upc'[KernelThread] # "boot" => upc[KernelThread] # "boot" \/ EnterUserMode
<1>1. /\ upc \in [Threads -> UserPC] /\ Driver \in Threads /\ KernelThread \in Threads
      /\ \A t \in Threads : ret[t] # "uncreated"
  BY DEF IInv, TypeOK, ForbidInv
<1>2. CASE \E t \in Threads : CreateThread(t)
  BY <1>1, <1>2 DEF CreateThread, StartOf
<1>3. CASE EnterUserMode
  BY <1>1, <1>3 DEF EnterUserMode
<1>4. CASE \E t \in Threads : PrintStep(t) \/ CallPrint(t)
  BY <1>1, <1>4 DEF PrintStep, CallPrint, Format, Load, ForbidStore, MonitorWrite, PermitStore,
     Continue, User, InRing3
<1>5. CASE DriverStep
  BY <1>1, <1>5 DEF DriverStep, MsgRetrieve, MsgWait, MsgCycle, Continue, User, InRing3
<1>6. CASE \/ TimerTick \/ KeyInterrupt \/ KernelStep \/ UNCHANGED vars
           \/ \E t \in Threads, flags \in WaitFlags : Wait(t, flags)
  <2>1. upc' = upc
    BY <1>6 DEF TimerTick, KeyInterrupt, KeyPress, KeyRelease, KeyPanic, KernelStep,
       Reschedule, NoSwitch, BeginSwitch, ProbeReady, Idle, Halt, UnlinkNext, InstallNext,
       LeaveSwitch, Wait, vars, user
  <2>2. QED
    BY <2>1
<1>7. QED
  BY <1>2, <1>3, <1>4, <1>5, <1>6 DEF Next

LEMMA BootDoneInvariance == Spec => []BootDone
<1>1. Init => BootDone
  BY DEF Init, BootDone
<1>2. IInv /\ BootDone /\ [Next]_vars => BootDone'
  <2>1. SUFFICES ASSUME IInv, BootDone, [Next]_vars, upc'[KernelThread] # "boot",
                        NEW t \in Threads
                 PROVE  upc'[t] # "uncreated"
    BY DEF BootDone
  <2>2. upc[t] # "uncreated"
    BY <2>1, StaysCreated DEF BootDone, EnterUserMode
  <2>3. QED
    BY <2>1, <2>2, StaysCreated
<1>3. QED
  BY <1>1, <1>2, Invariance, PTL DEF Spec

\* A key press finds its driver except between the unlinking of the driver
\* and its installation after the processor has been idle, where it panics.
THEOREM DriverFound == Spec => []DriverFindable
<1>1. IInv /\ BootDone => DriverFindable
  <2>1. SUFFICES ASSUME IInv, BootDone, InterruptsOn
                 PROVE  Findable(Driver) \/ (sti /\ At("install") /\ next_thread = Driver)
    BY DEF DriverFindable
  <2>2. upc[KernelThread] # "boot"
    BY <2>1, StackShape DEF InterruptsOn, InRing3
  <2>3. Driver \in ToSet(thread_ready) \cup thread_wait \cup OffQueues
    BY <2>1, <2>2 DEF BootDone, IInv, QueueDiscipline, Created
  <2>4. Driver \in OffQueues =>
           Driver = running_thread \/ (sti /\ At("install") /\ next_thread = Driver)
    <3>1. CASE kstack = <<>>
      BY <3>1 DEF OffQueues
    <3>2. CASE kstack # <<>>
      <4>1. sti /\ Top \in SwitchPC /\ At(Top)
        BY <2>1, <3>2 DEF InterruptsOn, InRing3, At
      <4>2. kstack[1] = Top
        BY <2>1, <4>1, SwitchAtTheBottom
      <4>3. QED
        BY <3>2, <4>1, <4>2 DEF OffQueues, At
    <3>3. QED
      BY <3>1, <3>2
  <2>5. QED
    BY <2>3, <2>4 DEF Findable
<1>2. QED
  BY <1>1, Invariance, BootDoneInvariance, PTL

-----------------------------------------------------------------------------
(***************************************************************************)
(* The ranks.  The ready queue is sorted, and nobody in it outranks the    *)
(* thread the switch has chosen: not even after an idle switch, in which   *)
(* interrupts can add to the queue, for they add only the driver, and the  *)
(* queue was empty or held the driver when the choice was made.            *)
(***************************************************************************)
ChosenPC == {"unlink", "install"}

NobodyOutranks(t) == \A u \in ToSet(thread_ready) : Pri[u] <= Pri[t]

RankInv ==
    /\ Sorted(thread_ready)
    /\ kstack # <<>> /\ kstack[1] \in ChosenPC => NobodyOutranks(next_thread)

\* Steps that neither change the queue nor make a choice.
LEMMA RankFrame ==
    ASSUME RankInv, thread_ready' = thread_ready,
           kstack' # <<>> /\ kstack'[1] \in ChosenPC =>
               next_thread' = next_thread /\ kstack # <<>> /\ kstack[1] \in ChosenPC
    PROVE  RankInv'
  BY DEF RankInv, NobodyOutranks

LEMMA RankInterrupt ==
    ASSUME IInv, IInv', RankInv, TimerTick \/ KeyInterrupt
    PROVE  RankInv'
<1>1. PICK pc \in {"handled", "panic"} : InterruptsOn /\ EnterKernel(pc)
  BY DEF TimerTick, KeyInterrupt, KeyPress, KeyRelease, KeyPanic
<1>2. /\ next_thread' = next_thread /\ kstack' # <<>>
      /\ kstack = <<>> => kstack'[1] = pc
      /\ kstack # <<>> => sti' /\ kstack'[1] = IF kstack[1] = "halted" THEN "probe" ELSE kstack[1]
  BY <1>1, EnterShape DEF EnterKernel
<1>3. CASE thread_ready' = thread_ready
  BY <1>2, <1>3, RankFrame DEF ChosenPC
<1>4. CASE thread_ready' # thread_ready
  <2>1. thread_ready' = Enqueue(thread_ready, Driver)
    BY <1>4 DEF TimerTick, KeyInterrupt, KeyPress, KeyRelease, KeyPanic, Signal, sched
  <2>2. Sorted(thread_ready')
    BY <2>1, EnqueueSorted DEF IInv, TypeOK, RankInv
  <2>3. ASSUME kstack'[1] \in ChosenPC
        PROVE  NobodyOutranks(next_thread)'
    <3>1. sti' /\ kstack'[1] \in SwitchPC
      BY <1>2, <2>3 DEF ChosenPC, SwitchPC
    <3>2. ToSet(thread_ready') \subseteq {Driver}
      BY <1>2, <3>1 DEF IInv, RequestInv
    <3>3. CASE kstack'[1] = "unlink"
      <4>1. next_thread' \in ToSet(thread_ready')
        BY <1>2, <3>3 DEF IInv, SwitchInv
      <4>2. next_thread' = Driver /\ Pri[Driver] \in Int
        BY <3>2, <4>1, PriAssumption
      <4>3. QED
        BY <3>2, <4>2 DEF NobodyOutranks
    <3>4. CASE kstack'[1] = "install"
      <4>1. thread_ready' = <<>>
        BY <1>2, <3>1, <3>4 DEF IInv, RequestInv
      <4>2. ToSet(thread_ready') = {}
        BY <4>1 DEF ToSet
      <4>3. QED
        BY <4>2 DEF NobodyOutranks
    <3>5. QED
      BY <2>3, <3>3, <3>4 DEF ChosenPC
  <2>4. QED
    BY <2>2, <2>3 DEF RankInv
<1>5. QED
  BY <1>3, <1>4

\* Ring 3 links nobody but the threads it creates, with no switch going on.
LEMMA RankRingThree ==
    ASSUME IInv, RankInv,
           \/ \E t \in Threads : CreateThread(t) \/ PrintStep(t) \/ CallPrint(t)
           \/ \E t \in Threads, flags \in WaitFlags : Wait(t, flags)
           \/ DriverStep
    PROVE  RankInv'
<1>1. CASE \E t \in Threads : CreateThread(t)
  <2>1. PICK t \in Threads : CreateThread(t)
    BY <1>1
  <2>2. kstack' = <<>> /\ thread_ready' = Enqueue(thread_ready, t)
    BY <2>1 DEF CreateThread, IInv, BootInv
  <2>3. Sorted(thread_ready')
    BY <2>2, EnqueueSorted DEF IInv, TypeOK, RankInv
  <2>4. QED
    BY <2>2, <2>3 DEF RankInv
<1>2. CASE \E t \in Threads : Format(t) \/ Load(t) \/ ForbidStore(t) \/ PermitStore(t) \/ CallPrint(t)
  BY <1>2, RankFrame DEF Format, Load, ForbidStore, PermitStore, CallPrint, sched
<1>3. CASE \/ \E t \in Threads : MonitorWrite(t)
           \/ \E t \in Threads, flags \in WaitFlags : Wait(t, flags)
           \/ DriverStep
  <2>1. PICK t \in Threads : User(t) /\ EnterKernel("handled")
    BY <1>3 DEF MonitorWrite, Wait, WaitCall, DriverStep, MsgRetrieve, MsgWait, MsgCycle
  <2>2. kstack'[1] = "handled"
    BY <2>1, SysCallStack
  <2>3. thread_ready' = thread_ready
    BY <1>3 DEF MonitorWrite, Wait, WaitCall, DriverStep, MsgRetrieve, MsgWait, MsgCycle, sched
  <2>4. QED
    BY <2>2, <2>3, RankFrame DEF ChosenPC
<1>4. QED
  BY <1>1, <1>2, <1>3 DEF PrintStep

\* The tail of a handler, and the returns.
LEMMA RankHandler ==
    ASSUME IInv, RankInv, Reschedule \/ NoSwitch \/ BeginSwitch \/ LeaveSwitch
    PROVE  RankInv'
<1>1. CASE Reschedule
  <2>1. At("handled") /\ Goto("dispatch") /\ next_thread' = next_thread
    BY <1>1 DEF Reschedule
  <2>2. /\ kstack # <<>>
        /\ kstack'[1] \in ChosenPC => kstack[1] \in ChosenPC /\ Len(kstack) = 2
    <3>1. Len(kstack) = 1 \/ Len(kstack) = 2
      BY <2>1, StackShape DEF At
    <3>2. QED
      BY <2>1, <3>1, GotoShape DEF KernelPC, ChosenPC
  <2>3. CASE Requested /\ Permitted /\ MustPreempt
    <3>1. thread_ready' = Enqueue(thread_ready, running_thread)
      BY <1>1, <2>3 DEF Reschedule
    <3>2. Sorted(thread_ready')
      BY <3>1, EnqueueSorted DEF IInv, TypeOK, RankInv
    <3>3. Len(kstack) = 1
      BY <2>2, <2>3, StackShape DEF Requested
    <3>4. QED
      BY <2>2, <3>2, <3>3 DEF RankInv
  <2>4. CASE ~ (Requested /\ Permitted /\ MustPreempt)
    <3>1. thread_ready' = thread_ready
      BY <1>1, <2>4 DEF Reschedule
    <3>2. QED
      BY <2>1, <2>2, <3>1, RankFrame
  <2>5. QED
    BY <2>3, <2>4
<1>2. CASE BeginSwitch
  <2>1. /\ At("dispatch") /\ Goto("probe") /\ k_reenter = 0
        /\ thread_ready' = thread_ready
    BY <1>2 DEF BeginSwitch, SwitchDue
  <2>2. kstack'[1] = "probe"
    BY <2>1, StackShape, GotoShape DEF At, KernelPC, SwitchPC
  <2>3. QED
    BY <2>1, <2>2, RankFrame DEF ChosenPC
<1>3. CASE NoSwitch \/ LeaveSwitch
  <2>1. /\ kstack # <<>> /\ LeaveKernel
        /\ next_thread' = next_thread /\ thread_ready' = thread_ready
    BY <1>3 DEF NoSwitch, LeaveSwitch, At, sched
  <2>2. kstack' # <<>> => kstack'[1] = kstack[1]
    BY <2>1, StackShape, LeaveShape
  <2>3. QED
    BY <2>1, <2>2, RankFrame
<1>4. QED
  BY <1>1, <1>2, <1>3

\* The switch: the head of a sorted queue is chosen, unlinked and installed.
LEMMA RankSwitch ==
    ASSUME IInv, RankInv, ProbeReady \/ Idle \/ Halt \/ UnlinkNext \/ InstallNext
    PROVE  RankInv'
<1>1. PICK old \in SwitchPC, pc \in SwitchPC :
         /\ At(old) /\ Goto(pc) /\ UNCHANGED k_reenter
         /\ \/ ProbeReady /\ old = "probe" /\ pc = "unlink"
            \/ (Idle \/ Halt) /\ pc \in {"hlt", "halted"}
            \/ UnlinkNext /\ old = "unlink" /\ pc = "install"
            \/ InstallNext /\ pc = "exit"
  BY DEF ProbeReady, Idle, Halt, UnlinkNext, InstallNext, SwitchPC
<1>2. kstack # <<>> /\ kstack[1] = old /\ kstack' # <<>> /\ kstack'[1] = pc
  BY <1>1, SwitchGoto
<1>3. thread_ready \in Seq(Threads) /\ Sorted(thread_ready)
  BY DEF IInv, TypeOK, RankInv
<1>4. CASE ProbeReady
  <2>1. /\ thread_ready' = thread_ready /\ thread_ready # <<>>
        /\ next_thread' = thread_ready[1]
    BY <1>3, <1>4 DEF ProbeReady, sched
  <2>2. \A i \in 1 .. Len(thread_ready) : Pri[thread_ready[i]] <= Pri[thread_ready[1]]
    <3>1. \A i \in 1 .. Len(thread_ready) : thread_ready[i] \in Threads
      BY <1>3
    <3>2. \A i \in 1 .. Len(thread_ready) : 1 < i => Pri[thread_ready[1]] >= Pri[thread_ready[i]]
      BY <1>3 DEF Sorted
    <3>3. QED
      BY <1>3, <3>1, <3>2, PriAssumption
  <2>3. NobodyOutranks(next_thread)'
    BY <1>3, <2>1, <2>2 DEF NobodyOutranks, ToSet
  <2>4. QED
    BY <1>3, <2>1, <2>3 DEF RankInv
<1>5. CASE Idle \/ Halt \/ InstallNext
  <2>1. thread_ready' = thread_ready
    BY <1>5 DEF Idle, Halt, InstallNext, sched
  <2>2. pc \notin ChosenPC
    BY <1>1, <1>5 DEF ChosenPC, ProbeReady, UnlinkNext, Idle, Halt, InstallNext, At
  <2>3. QED
    BY <1>2, <2>1, <2>2, RankFrame
<1>6. CASE UnlinkNext
  <2>1. /\ thread_ready' = Unlink(thread_ready, next_thread) /\ next_thread' = next_thread
        /\ kstack[1] = "unlink"
    BY <1>1, <1>2, <1>6 DEF UnlinkNext, ProbeReady, Idle, Halt, InstallNext, At
  <2>2. next_thread \in ToSet(thread_ready) /\ Distinct(thread_ready)
    BY <1>2, <2>1 DEF IInv, SwitchInv, QueueDiscipline
  <2>3. Sorted(thread_ready') /\ ToSet(thread_ready') \subseteq ToSet(thread_ready)
    BY <1>3, <2>1, <2>2, UnlinkToSet, UnlinkDistinctSorted
  <2>4. NobodyOutranks(next_thread)
    BY <1>2, <2>1 DEF RankInv, ChosenPC
  <2>5. QED
    BY <2>1, <2>3, <2>4 DEF RankInv, NobodyOutranks
<1>7. QED
  BY <1>4, <1>5, <1>6

LEMMA RankInvariance == Spec => []RankInv
<1>1. Init => RankInv
  BY DEF Init, RankInv, Sorted
<1>2. IInv /\ IInv' /\ RankInv /\ [Next]_vars => RankInv'
  <2>1. SUFFICES ASSUME IInv, IInv', RankInv, [Next]_vars
                 PROVE  RankInv'
    OBVIOUS
  <2>2. CASE EnterUserMode \/ UNCHANGED vars
    BY <2>1, <2>2, RankFrame DEF EnterUserMode, vars, sched
  <2>3. QED
    BY <2>1, <2>2, RankInterrupt, RankRingThree, RankHandler, RankSwitch DEF Next, KernelStep
<1>3. QED
  BY <1>1, <1>2, Invariance, PTL DEF Spec

\* switch_threads() installs a thread that no ready thread outranks, whatever
\* was readied since it chose it.
THEOREM MostUrgentRuns == Spec => HighestPriorityRuns
<1>1. ASSUME IInv, RankInv, [Next]_vars, running_thread' # running_thread
      PROVE  \A t \in ToSet(thread_ready) : Pri[t] <= Pri[running_thread']
  <2>1. InstallNext
    BY <1>1 DEF Next, CreateThread, EnterUserMode, TimerTick, KeyInterrupt, KeyPress,
       KeyRelease, KeyPanic, KernelStep, Reschedule, NoSwitch, BeginSwitch, ProbeReady, Idle,
       Halt, UnlinkNext, LeaveSwitch, PrintStep, CallPrint, Format, Load, ForbidStore,
       MonitorWrite, PermitStore, Wait, WaitCall, DriverStep, MsgRetrieve, MsgWait, MsgCycle,
       vars, sched
  <2>2. running_thread' = next_thread /\ At("install")
    BY <2>1 DEF InstallNext
  <2>3. kstack # <<>> /\ kstack[1] = "install"
    BY <1>1, <2>2, SwitchAtTheBottom DEF SwitchPC
  <2>4. QED
    BY <1>1, <2>2, <2>3 DEF RankInv, ChosenPC, NobodyOutranks
<1>2. QED
  BY <1>1, Invariance, RankInvariance, PTL DEF Spec, HighestPriorityRuns

-----------------------------------------------------------------------------
(***************************************************************************)
(* The refinement.  The thread of OffQueues, if there is one, is the one   *)
(* the abstract processor executes.                                        *)
(***************************************************************************)
Cpu == IF OffQueues = {} THEN NULL ELSE CHOOSE t \in OffQueues : TRUE

LEMMA CpuOf ==
    /\ OffQueues = {} => Cpu = NULL
    /\ \A t : OffQueues = {t} => Cpu = t
  BY DEF Cpu

LEMMA CpuNext ==
    /\ OffQueues' = {} => Cpu' = NULL
    /\ \A t : OffQueues' = {t} => Cpu' = t
  BY DEF Cpu

\* Steps that move no thread.
LEMMA ProcessorFrame ==
    ASSUME OffQueues' = OffQueues, thread_ready' = thread_ready, thread_wait' = thread_wait
    PROVE  UNCHANGED Processor!vars
  BY DEF Processor!vars

\* An interrupt moves neither the running thread nor the one being switched to.
LEMMA OffQueuesInterrupt ==
    ASSUME IInv, NEW pc \in {"handled", "panic"}, InterruptsOn, EnterKernel(pc),
           running_thread' = running_thread,
           "NEED_TASK_SWITCH" \in sys_flags' => "NEED_TASK_SWITCH" \in sys_flags
    PROVE  OffQueues' = OffQueues
<1>1. /\ kstack' # <<>>
      /\ kstack = <<>> => kstack'[1] = pc
      /\ kstack # <<>> =>
            /\ kstack[1] \in SwitchPC
            /\ kstack'[1] = IF kstack[1] = "halted" THEN "probe" ELSE kstack[1]
  BY EnterShape
<1>2. next_thread' = next_thread
  BY DEF EnterKernel
<1>3. "NEED_TASK_SWITCH" \notin sys_flags /\ "NEED_TASK_SWITCH" \notin sys_flags'
  BY <1>1 DEF IInv, SwitchInv, HandlerPC, SwitchPC
<1>4. CASE kstack = <<>>
  BY <1>1, <1>3, <1>4 DEF OffQueues
<1>5. CASE kstack # <<>>
  BY <1>1, <1>2, <1>3, <1>5 DEF OffQueues, SwitchPC
<1>6. QED
  BY <1>4, <1>5

\* The timer moves nobody, a key at most the driver to the ready threads.
LEMMA ProcessorInterrupt ==
    ASSUME IInv, TimerTick \/ KeyInterrupt
    PROVE  [Processor!Next]_(Processor!vars)
<1>1. OffQueues' = OffQueues
  <2>1. PICK pc \in {"handled", "panic"} : InterruptsOn /\ EnterKernel(pc)
    BY DEF TimerTick, KeyInterrupt, KeyPress, KeyRelease, KeyPanic
  <2>2. /\ running_thread' = running_thread
        /\ "NEED_TASK_SWITCH" \in sys_flags' => "NEED_TASK_SWITCH" \in sys_flags
    BY DEF TimerTick, KeyInterrupt, KeyPress, KeyRelease, KeyPanic, Signal, sched
  <2>3. QED
    BY <2>1, <2>2, OffQueuesInterrupt
<1>2. CASE TimerTick \/ KeyRelease \/ KeyPanic
  BY <1>1, <1>2, ProcessorFrame DEF TimerTick, KeyRelease, KeyPanic, sched
<1>3. ASSUME NEW m \in FreeMessages, KeyPress(m)
      PROVE  [Processor!Next]_(Processor!vars)
  <2>1. Signal(Driver, {"ST_MESG"})
    BY <1>3 DEF KeyPress
  <2>2. CASE "ST_MESG" \notin sig_wait[Driver]
    BY <1>1, <2>1, <2>2, ProcessorFrame DEF Signal
  <2>3. CASE "ST_MESG" \in sig_wait[Driver]
    <3>1. /\ thread_ready' = Enqueue(thread_ready, Driver)
          /\ thread_wait' = thread_wait \ {Driver}
      BY <2>1, <2>3 DEF Signal
    <3>2. Driver \in Threads /\ Driver \in thread_wait
      BY <2>3 DEF IInv, SignalFindsWaiter
    <3>3. ToSet(thread_ready') = ToSet(thread_ready) \cup {Driver}
      BY <3>1, <3>2, EnqueueToSet DEF IInv, TypeOK
    <3>4. Processor!Unblock(Driver)
      BY <1>1, <3>1, <3>2, <3>3 DEF Processor!Unblock
    <3>5. QED
      BY <3>2, <3>4 DEF Processor!Next
  <2>4. QED
    BY <2>2, <2>3
<1>4. QED
  BY <1>2, <1>3 DEF KeyInterrupt

\* While the system boots, threads are created; then they run in ring 3.
LEMMA ProcessorRingThree ==
    ASSUME IInv,
           \/ \E t \in Threads : CreateThread(t) \/ PrintStep(t) \/ CallPrint(t)
           \/ \E t \in Threads, flags \in WaitFlags : Wait(t, flags)
           \/ EnterUserMode \/ DriverStep
    PROVE  [Processor!Next]_(Processor!vars)
<1>1. CASE \E t \in Threads : CreateThread(t)
  <2>1. PICK t \in Threads : CreateThread(t)
    BY <1>1
  <2>2. /\ upc[t] = "uncreated" /\ thread_ready' = Enqueue(thread_ready, t)
        /\ kstack = <<>>
        /\ UNCHANGED <<thread_wait, running_thread, kstack>>
    BY <2>1 DEF CreateThread, IInv, BootInv
  <2>3. OffQueues = {running_thread} /\ OffQueues' = {running_thread}
    BY <2>2 DEF OffQueues
  <2>4. t \notin {running_thread} \cup ToSet(thread_ready) \cup thread_wait
    BY <2>2, <2>3 DEF IInv, QueueDiscipline, Created
  <2>5. ToSet(thread_ready') = ToSet(thread_ready) \cup {t}
    BY <2>2, EnqueueToSet DEF IInv, TypeOK
  <2>6. Cpu = running_thread /\ Cpu' = running_thread
    BY <2>3, CpuOf, CpuNext
  <2>7. Processor!Create(t)
    BY <2>2, <2>4, <2>5, <2>6 DEF Processor!Create, Cpu
  <2>8. QED
    BY <2>7 DEF Processor!Next
<1>2. CASE \/ EnterUserMode
           \/ \E t \in Threads : Format(t) \/ Load(t) \/ ForbidStore(t) \/ PermitStore(t) \/ CallPrint(t)
  <2>1. UNCHANGED <<sys_flags, running_thread, thread_ready, thread_wait, kstack, next_thread>>
    BY <1>2 DEF EnterUserMode, Format, Load, ForbidStore, PermitStore, CallPrint, sched
  <2>2. OffQueues' = OffQueues
    BY <2>1 DEF OffQueues
  <2>3. QED
    BY <2>1, <2>2, ProcessorFrame
<1>3. CASE (\E t \in Threads : MonitorWrite(t)) \/ MsgRetrieve \/ MsgCycle
  <2>1. PICK t \in Threads : User(t) /\ EnterKernel("handled")
    BY <1>3 DEF MonitorWrite, MsgRetrieve, MsgCycle
  <2>2. /\ kstack = <<>> /\ kstack' # <<>> /\ kstack'[1] = "handled"
        /\ "NEED_TASK_SWITCH" \notin sys_flags
    BY <2>1, SysCallStack, RingThreeForbid
  <2>3. UNCHANGED <<sys_flags, running_thread, thread_ready, thread_wait>>
    BY <1>3 DEF MonitorWrite, MsgRetrieve, MsgCycle, sched
  <2>4. OffQueues' = OffQueues
    BY <2>2, <2>3 DEF OffQueues
  <2>5. QED
    BY <2>3, <2>4, ProcessorFrame
<1>4. CASE \/ \E t \in Threads, flags \in WaitFlags : Wait(t, flags)
           \/ MsgWait
  <2>1. PICK t \in Threads, flags \in SUBSET Signals : User(t) /\ WaitCall(t, flags)
    BY <1>4 DEF Wait, MsgWait, Signals
  <2>2. /\ EnterKernel("handled") /\ Block(t, flags) /\ running_thread = t
        /\ running_thread' = running_thread /\ thread_ready' = thread_ready
    BY <2>1 DEF WaitCall, User
  <2>3. /\ kstack = <<>> /\ kstack' # <<>> /\ kstack'[1] = "handled"
        /\ "NEED_TASK_SWITCH" \notin sys_flags
    BY <2>1, <2>2, SysCallStack, RingThreeForbid
  <2>4. OffQueues = {t}
    BY <2>2, <2>3 DEF OffQueues
  <2>5. CASE t \in Root
    <3>1. thread_wait' = thread_wait \cup {t} /\ "NEED_TASK_SWITCH" \in sys_flags'
      BY <2>2, <2>5 DEF Block
    <3>2. OffQueues' = {}
      BY <2>3, <3>1 DEF OffQueues
    <3>3. Cpu = t /\ Cpu' = NULL /\ t # NULL
      BY <2>4, <3>2, CpuOf, CpuNext
    <3>4. Processor!Block
      BY <2>2, <3>1, <3>3 DEF Processor!Block, Cpu
    <3>5. QED
      BY <3>4 DEF Processor!Next
  <2>6. CASE t \notin Root
    <3>1. thread_wait' = thread_wait /\ sys_flags' = sys_flags
      BY <2>2, <2>6 DEF Block
    <3>2. OffQueues' = {t}
      BY <2>2, <2>3, <3>1 DEF OffQueues
    <3>3. QED
      BY <2>2, <2>4, <3>1, <3>2, ProcessorFrame
  <2>7. QED
    BY <2>5, <2>6
<1>5. QED
  BY <1>1, <1>2, <1>3, <1>4 DEF PrintStep, DriverStep

\* schedule() takes the processor away, the other ends of a handler do not.
LEMMA ProcessorHandler ==
    ASSUME IInv, Reschedule \/ NoSwitch \/ BeginSwitch \/ LeaveSwitch
    PROVE  [Processor!Next]_(Processor!vars)
<1>1. CASE Reschedule
  <2>1. /\ At("handled") /\ Goto("dispatch")
        /\ UNCHANGED <<next_thread, running_thread, thread_wait>>
    BY <1>1 DEF Reschedule
  <2>2. /\ kstack # <<>> /\ kstack' # <<>>
        /\ \/ Len(kstack) = 1 /\ kstack[1] = "handled" /\ kstack'[1] = "dispatch"
           \/ Len(kstack) = 2 /\ kstack'[1] = kstack[1] /\ kstack[1] \in SwitchPC
    <3>1. \/ Len(kstack) = 1
          \/ Len(kstack) = 2 /\ kstack[1] \in SwitchPC
      BY <2>1, StackShape DEF At
    <3>2. QED
      BY <2>1, <3>1, GotoShape DEF KernelPC
  <2>3. CASE Requested /\ Permitted /\ MustPreempt
    <3>1. /\ thread_ready' = Enqueue(thread_ready, running_thread)
          /\ sys_flags' = (sys_flags \ {"NEED_SCHEDULE"}) \cup {"NEED_TASK_SWITCH"}
      BY <1>1, <2>3 DEF Reschedule
    <3>2. Len(kstack) = 1 /\ kstack[1] = "handled" /\ kstack'[1] = "dispatch"
      BY <2>2, <2>3, StackShape DEF Requested
    <3>3. thread_ready # <<>> /\ running_thread \in Threads /\ thread_ready \in Seq(Threads)
      BY <2>3 DEF IInv, RequestInv, MustPreempt, TypeOK
    <3>4. "NEED_TASK_SWITCH" \notin sys_flags
      BY <2>2, <2>3, <3>2, <3>3 DEF IInv, RequestInv, Requested
    <3>5. OffQueues = {running_thread} /\ OffQueues' = {}
      BY <2>2, <3>1, <3>2, <3>4 DEF OffQueues
    <3>6. Cpu = running_thread /\ Cpu' = NULL /\ running_thread # NULL
      BY <3>3, <3>5, CpuOf, CpuNext
    <3>7. /\ ToSet(thread_ready') = ToSet(thread_ready) \cup {running_thread}
          /\ ToSet(thread_ready) # {}
      <4>1. thread_ready[1] \in ToSet(thread_ready)
        BY <3>3 DEF ToSet
      <4>2. QED
        BY <3>1, <3>3, <4>1, EnqueueToSet
    <3>8. Processor!Preempt
      BY <2>1, <3>6, <3>7 DEF Processor!Preempt, Cpu
    <3>9. QED
      BY <3>8 DEF Processor!Next
  <2>4. CASE ~ (Requested /\ Permitted /\ MustPreempt)
    <3>1. /\ thread_ready' = thread_ready
          /\ "NEED_TASK_SWITCH" \in sys_flags' <=> "NEED_TASK_SWITCH" \in sys_flags
      BY <1>1, <2>4 DEF Reschedule
    <3>2. OffQueues' = OffQueues
      BY <2>1, <2>2, <3>1 DEF OffQueues, SwitchPC
    <3>3. QED
      BY <2>1, <3>1, <3>2, ProcessorFrame
  <2>5. QED
    BY <2>3, <2>4
<1>2. CASE NoSwitch
  <2>1. /\ At("dispatch") /\ kstack # <<>> /\ ~ SwitchDue /\ LeaveKernel
        /\ UNCHANGED <<sys_flags, running_thread, thread_ready, thread_wait, next_thread>>
    BY <1>2 DEF NoSwitch, At, sched
  <2>2. CASE Len(kstack) = 1
    <3>1. kstack[1] = "dispatch" /\ kstack' = <<>> /\ k_reenter = 0
      BY <2>1, <2>2, StackShape, LeaveShape DEF At, Top
    <3>2. "NEED_TASK_SWITCH" \notin sys_flags
      BY <2>1, <3>1 DEF SwitchDue
    <3>3. OffQueues' = OffQueues
      BY <2>1, <3>1, <3>2 DEF OffQueues
    <3>4. QED
      BY <2>1, <3>3, ProcessorFrame
  <2>3. CASE Len(kstack) = 2
    <3>1. kstack' # <<>> /\ kstack'[1] = kstack[1] /\ kstack[1] \in SwitchPC
      BY <2>1, <2>3, StackShape, LeaveShape
    <3>2. OffQueues' = OffQueues
      BY <2>1, <3>1 DEF OffQueues, SwitchPC
    <3>3. QED
      BY <2>1, <3>2, ProcessorFrame
  <2>4. QED
    BY <2>1, <2>2, <2>3, StackShape
<1>3. CASE BeginSwitch
  <2>1. /\ At("dispatch") /\ Goto("probe") /\ k_reenter = 0
        /\ "NEED_TASK_SWITCH" \in sys_flags
        /\ thread_ready' = thread_ready /\ thread_wait' = thread_wait
    BY <1>3 DEF BeginSwitch, SwitchDue
  <2>2. Len(kstack) = 1 /\ kstack # <<>>
    BY <2>1, StackShape DEF At
  <2>3. kstack' # <<>> /\ kstack[1] = "dispatch" /\ kstack'[1] = "probe"
    BY <2>1, <2>2, GotoShape DEF KernelPC, SwitchPC
  <2>4. OffQueues = {} /\ OffQueues' = {}
    BY <2>1, <2>2, <2>3 DEF OffQueues
  <2>5. QED
    BY <2>1, <2>4, ProcessorFrame
<1>4. CASE LeaveSwitch
  <2>1. /\ At("exit") /\ LeaveKernel
        /\ UNCHANGED <<running_thread, thread_ready, thread_wait>>
    BY <1>4 DEF LeaveSwitch, sched
  <2>2. kstack # <<>> /\ Len(kstack) = 1 /\ kstack[1] = "exit"
    BY <2>1, SwitchAtTheBottom DEF SwitchPC
  <2>3. kstack' = <<>>
    BY <2>1, <2>2, LeaveShape
  <2>4. OffQueues' = OffQueues
    BY <2>1, <2>2, <2>3 DEF OffQueues
  <2>5. QED
    BY <2>1, <2>4, ProcessorFrame
<1>5. QED
  BY <1>1, <1>2, <1>3, <1>4

\* remove() is the step that gives the processor to the thread chosen.
LEMMA ProcessorSwitch ==
    ASSUME IInv, RankInv, ProbeReady \/ Idle \/ Halt \/ UnlinkNext \/ InstallNext
    PROVE  [Processor!Next]_(Processor!vars)
<1>1. PICK old \in SwitchPC, pc \in SwitchPC :
         /\ At(old) /\ Goto(pc) /\ UNCHANGED k_reenter
         /\ \/ ProbeReady \/ Idle \/ Halt => old \in {"probe", "hlt"} /\ pc \in {"unlink", "hlt", "halted"}
         /\ UnlinkNext => old = "unlink" /\ pc = "install"
         /\ InstallNext => old = "install" /\ pc = "exit"
  BY DEF ProbeReady, Idle, Halt, UnlinkNext, InstallNext, SwitchPC, At
<1>2. kstack # <<>> /\ kstack[1] = old /\ kstack' # <<>> /\ kstack'[1] = pc
  BY <1>1, SwitchGoto
<1>3. CASE ProbeReady \/ Idle \/ Halt
  <2>1. UNCHANGED <<thread_ready, thread_wait>>
    BY <1>3 DEF ProbeReady, Idle, Halt, sched
  <2>2. OffQueues = {} /\ OffQueues' = {}
    BY <1>1, <1>2, <1>3 DEF OffQueues
  <2>3. QED
    BY <2>1, <2>2, ProcessorFrame
<1>4. CASE UnlinkNext
  <2>1. /\ thread_ready' = Unlink(thread_ready, next_thread)
        /\ UNCHANGED <<thread_wait, next_thread>>
    BY <1>4 DEF UnlinkNext
  <2>2. /\ next_thread \in ToSet(thread_ready) /\ Distinct(thread_ready)
        /\ thread_ready \in Seq(Threads)
    BY <1>1, <1>2, <1>4 DEF IInv, SwitchInv, QueueDiscipline, TypeOK
  <2>3. next_thread \in Threads
    BY <2>2 DEF ToSet
  <2>4. ToSet(thread_ready') = ToSet(thread_ready) \ {next_thread}
    BY <2>1, <2>2, UnlinkToSet
  <2>5. OffQueues = {} /\ OffQueues' = {next_thread}
    BY <1>1, <1>2, <1>4, <2>1 DEF OffQueues
  <2>6. Cpu = NULL /\ Cpu' = next_thread
    BY <2>5, CpuOf, CpuNext
  <2>7. \A t \in ToSet(thread_ready) : Pri[t] <= Pri[next_thread]
    BY <1>1, <1>2, <1>4 DEF RankInv, ChosenPC, NobodyOutranks
  <2>8. Processor!Dispatch(next_thread)
    BY <2>1, <2>2, <2>4, <2>6, <2>7 DEF Processor!Dispatch, Cpu
  <2>9. QED
    BY <2>3, <2>8 DEF Processor!Next
<1>5. CASE InstallNext
  <2>1. running_thread' = next_thread /\ UNCHANGED <<thread_ready, thread_wait>>
    BY <1>5 DEF InstallNext
  <2>2. OffQueues' = OffQueues
    BY <1>1, <1>2, <1>5, <2>1 DEF OffQueues
  <2>3. QED
    BY <2>1, <2>2, ProcessorFrame
<1>6. QED
  BY <1>3, <1>4, <1>5

\* Threads, queues, flags and interrupts together are a processor that is
\* handed from thread to thread by priority.
THEOREM KernelImplementsMultitasking == Spec => KernelIsMultitasking
<1>1. Init => Processor!Init
  <2>1. SUFFICES ASSUME Init PROVE Processor!Init
    OBVIOUS
  <2>2. OffQueues = {KernelThread} /\ ToSet(thread_ready) = {} /\ thread_wait = {}
    BY <2>1 DEF Init, OffQueues, ToSet
  <2>3. Cpu = KernelThread
    BY <2>2, CpuOf
  <2>4. QED
    BY <2>2, <2>3 DEF Processor!Init, Cpu
<1>2. IInv /\ RankInv /\ [Next]_vars => [Processor!Next]_(Processor!vars)
  <2>1. SUFFICES ASSUME IInv, RankInv, [Next]_vars
                 PROVE  [Processor!Next]_(Processor!vars)
    OBVIOUS
  <2>2. CASE UNCHANGED vars
    <3>1. UNCHANGED <<sys_flags, running_thread, thread_ready, thread_wait, kstack, next_thread>>
      BY <2>2 DEF vars, sched
    <3>2. OffQueues' = OffQueues
      BY <3>1 DEF OffQueues
    <3>3. QED
      BY <3>1, <3>2, ProcessorFrame
  <2>3. QED
    BY <2>1, <2>2, ProcessorInterrupt, ProcessorRingThree, ProcessorHandler, ProcessorSwitch
       DEF Next, KernelStep
<1>3. QED
  BY <1>1, <1>2, Invariance, RankInvariance, PTL DEF Spec, KernelIsMultitasking, Processor!Spec
=============================================================================
