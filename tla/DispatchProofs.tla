--------------------------- MODULE DispatchProofs ---------------------------
(***************************************************************************)
(* Every thread goes on where it was stopped, on a kernel stack of two     *)
(* contexts, whatever the threads, their priorities and the interrupts.    *)
(***************************************************************************)
EXTENDS Dispatch, KryptonKernelRefinement

USE KernelAssumption, DispatchAssumption

(***************************************************************************)
(* The invariant.  A suspended thread has its program's context on its own *)
(* kernel stack, and above it the one of its return from the kernel if     *)
(* that was interrupted.                                                   *)
(***************************************************************************)
Context == [who : Threads \cup {NULL}, pc : UserPC \cup KernelPC \cup {"leaving", NULL}]

Pointer == [stack : Stacks, depth : Nat]

HardwareType ==
    /\ stack \in [Stacks -> Seq(Context)]
    /\ esp \in Pointer
    /\ kernel_esp \in [Threads -> Pointer]
    /\ esp0 = At0(running_thread)
    /\ context \in Context
    /\ leaving \in BOOLEAN

Holds(t, depth) ==
    /\ depth \in {1, 2}
    /\ Len(stack[t]) >= depth
    /\ stack[t][1] = Own(t)
    /\ depth = 2 => stack[t][2] = [who |-> t, pc |-> "leaving"]

SavedInv ==
    \A t \in Threads :
        Suspended(t) => kernel_esp[t].stack = t /\ Holds(t, kernel_esp[t].depth)

\* A thread is launched before it runs, and only those that ran can wait, for
\* which they called the kernel from ring 3.
LaunchInv ==
    /\ stack[AddressEnd] = <<>>
    /\ Launched(KernelThread)
    /\ kstack = <<>> \/ kstack[1] # "exit" => Launched(running_thread)

WaitInv ==
    \A t \in thread_wait :
        /\ Launched(t)
        /\ Suspended(t) => kernel_esp[t].depth = 1

\* In ring 3, on the way there, and in a handler.
RunningInv ==
    /\ leaving => /\ kstack = <<>>
                  /\ upc[KernelThread] # "boot"
                  /\ esp.stack = running_thread
                  /\ esp.depth = 1
                  /\ Holds(running_thread, 1)
    /\ InRing3 /\ ~ leaving => context = Own(running_thread)
    /\ kstack # <<>> /\ kstack[1] \in HandlerPC =>
          /\ esp.stack = running_thread
          /\ Holds(running_thread, esp.depth)
          /\ running_thread \in thread_wait => esp.depth = 1

BeforeExit == SwitchPC \ {"exit"}

\* In a switch that has been idle: the thread before it waits or waited, and
\* so does every thread that can follow.
IdleInv ==
    /\ Holds(esp.stack, 1)
    /\ esp.stack \in Threads
    /\ Suspended(esp.stack)
    /\ kernel_esp[esp.stack].depth = 1
    /\ esp.depth = Len(kstack)
    /\ Len(kstack) = 2 => /\ Len(stack[esp.stack]) = 2
                          /\ stack[esp.stack][2] = [who |-> running_thread, pc |-> kstack[1]]
    /\ \A t \in ToSet(thread_ready) : Launched(t) /\ kernel_esp[t].depth = 1
    /\ kstack[1] = "install" => Launched(next_thread) /\ kernel_esp[next_thread].depth = 1
    /\ kstack[1] = "exit" => Launched(running_thread) /\ kernel_esp[running_thread].depth = 1

SwitchStackInv ==
    kstack # <<>> /\ kstack[1] \in SwitchPC =>
        /\ kstack[1] \in BeforeExit =>
              /\ esp.stack = running_thread
              /\ Len(kstack) = 1 => esp.depth = kernel_esp[running_thread].depth
        /\ sti => IdleInv

\* The controller waits for a handler to return.
ServiceInv ==
    in_service # {} => kstack # <<>> /\ kstack[Len(kstack)] \in {"handled", "panic"}

HInv ==
    /\ HardwareType
    /\ SavedInv
    /\ LaunchInv
    /\ WaitInv
    /\ RunningInv
    /\ SwitchStackInv
    /\ ServiceInv
    /\ StacksBounded

-----------------------------------------------------------------------------
(***************************************************************************)
(* Pushes and pops.                                                        *)
(***************************************************************************)
LEMMA AboveSeq ==
    ASSUME HardwareType, NEW p \in Pointer
    PROVE  /\ Above(p) \in Seq(Context)
           /\ Len(Above(p)) = p.depth
           /\ \A i \in 1 .. p.depth :
                 i \in 1 .. Len(stack[p.stack]) => Above(p)[i] = stack[p.stack][i]
<1>1. stack[p.stack] \in Seq(Context) /\ p.depth \in Nat
  BY DEF HardwareType, Pointer
<1>2. DOMAIN stack[p.stack] = 1 .. Len(stack[p.stack])
  BY <1>1
<1>3. Nowhere \in Context
  BY DEF Nowhere, Context
<1>4. \A i \in 1 .. p.depth : Above(p)[i] = IF i \in 1 .. Len(stack[p.stack])
                                             THEN stack[p.stack][i] ELSE Nowhere
  BY <1>2 DEF Above
<1>5. \A i \in 1 .. p.depth : Above(p)[i] \in Context
  BY <1>1, <1>3, <1>4
<1>6. Above(p) \in [1 .. p.depth -> Context]
  BY <1>5 DEF Above
<1>7. Above(p) \in Seq(Context) /\ Len(Above(p)) = p.depth
  BY <1>1, <1>6
<1>8. QED
  BY <1>4, <1>7

LEMMA Push ==
    ASSUME HardwareType, NEW p \in Pointer, NEW c \in Context,
           p.depth <= Len(stack[p.stack]), stack' = Pushed(p, c)
    PROVE  /\ stack' \in [Stacks -> Seq(Context)]
           /\ Len(stack'[p.stack]) = p.depth + 1
           /\ \A i \in 1 .. p.depth : stack'[p.stack][i] = stack[p.stack][i]
           /\ stack'[p.stack][p.depth + 1] = c
           /\ \A s \in Stacks \ {p.stack} : stack'[s] = stack[s]
<1>1. p.stack \in Stacks /\ p.depth \in Nat /\ stack \in [Stacks -> Seq(Context)]
  BY DEF HardwareType, Pointer
<1>2. stack' = [stack EXCEPT ![p.stack] = Append(Above(p), c)]
  BY DEF Pushed
<1>3. stack'[p.stack] = Append(Above(p), c) /\ \A s \in Stacks \ {p.stack} : stack'[s] = stack[s]
  BY <1>1, <1>2
<1>4. Above(p) \in Seq(Context) /\ Len(Above(p)) = p.depth
  BY AboveSeq
<1>5. \A i \in 1 .. p.depth : Above(p)[i] = stack[p.stack][i]
  BY <1>1, AboveSeq
<1>6. Append(Above(p), c) \in Seq(Context)
  BY <1>4
<1>7. stack' \in [Stacks -> Seq(Context)]
  BY <1>1, <1>2, <1>6
<1>8. QED
  BY <1>1, <1>3, <1>4, <1>5, <1>7

LEMMA DeeperIs ==
    ASSUME NEW p \in Pointer
    PROVE  /\ Deeper(p, 1) \in Pointer
           /\ Deeper(p, 1).stack = p.stack
           /\ Deeper(p, 1).depth = p.depth + 1
           /\ p.depth >= 1 =>
                 /\ Deeper(p, -1) \in Pointer
                 /\ Deeper(p, -1).stack = p.stack
                 /\ Deeper(p, -1).depth = p.depth - 1
  BY DEF Deeper, Pointer

LEMMA Pop ==
    ASSUME HardwareType, NEW p \in Pointer, 1 <= p.depth,
           p.depth <= Len(stack[p.stack]), PopContext(p)
    PROVE  /\ stack' \in [Stacks -> Seq(Context)]
           /\ Len(stack'[p.stack]) = p.depth - 1
           /\ \A i \in 1 .. p.depth - 1 : stack'[p.stack][i] = stack[p.stack][i]
           /\ \A s \in Stacks \ {p.stack} : stack'[s] = stack[s]
           /\ esp' \in Pointer
           /\ esp'.stack = p.stack
           /\ esp'.depth = p.depth - 1
           /\ stack[p.stack][p.depth] \in Context
           /\ context' = IF stack[p.stack][p.depth].pc \in UserPC
                         THEN stack[p.stack][p.depth] ELSE Nowhere
           /\ leaving' = (stack[p.stack][p.depth].pc = "leaving")
<1>1. p.stack \in Stacks /\ p.depth \in Nat /\ stack \in [Stacks -> Seq(Context)]
  BY DEF HardwareType, Pointer
<1>2. DEFINE q == Deeper(p, -1)
<1>3. q \in Pointer /\ q.stack = p.stack /\ q.depth = p.depth - 1
  BY <1>1, DeeperIs
<1>4. Above(p) \in Seq(Context) /\ Len(Above(p)) = p.depth
      /\ \A i \in 1 .. p.depth : Above(p)[i] = stack[p.stack][i]
  BY <1>1, AboveSeq
<1>5. Last(Above(p)) = stack[p.stack][p.depth]
  BY <1>1, <1>4 DEF Last
<1>6. /\ stack' = [stack EXCEPT ![p.stack] = Above(q)]
      /\ esp' = q
      /\ context' = IF stack[p.stack][p.depth].pc \in UserPC
                    THEN stack[p.stack][p.depth] ELSE Nowhere
      /\ leaving' = (stack[p.stack][p.depth].pc = "leaving")
  BY <1>1, <1>5 DEF PopContext
<1> HIDE DEF q
<1>7. Above(q) \in Seq(Context) /\ Len(Above(q)) = p.depth - 1
      /\ \A i \in 1 .. p.depth - 1 : Above(q)[i] = stack[p.stack][i]
  <2>1. Above(q) \in Seq(Context) /\ Len(Above(q)) = q.depth
        /\ \A i \in 1 .. q.depth : i \in 1 .. Len(stack[q.stack]) => Above(q)[i] = stack[q.stack][i]
    BY <1>3, AboveSeq
  <2>2. QED
    BY <1>1, <1>3, <2>1
<1>8. stack' \in [Stacks -> Seq(Context)]
  BY <1>1, <1>6, <1>7
<1>9. stack[p.stack][p.depth] \in Context
  BY <1>1
<1>10. QED
  BY <1>1, <1>3, <1>6, <1>7, <1>8, <1>9

-----------------------------------------------------------------------------
(***************************************************************************)
(* The ways into the kernel.                                               *)
(***************************************************************************)

\* What an interrupt or a call leaves alone besides the stack it enters on.
Entry(pc) ==
    /\ InterruptsOn
    /\ EnterKernel(pc)
    /\ PushContext
    /\ running_thread' = running_thread
    /\ \A t \in Threads :
          t # running_thread \/ kstack # <<>> \/ leaving => upc'[t] = upc[t]
    /\ \A t \in Threads : Launched(t)' <=> Launched(t)
    /\ thread_wait' \subseteq thread_wait \cup {running_thread}
    /\ kstack # <<>> \/ leaving => thread_wait' \subseteq thread_wait
    /\ ToSet(thread_ready') \subseteq ToSet(thread_ready) \cup ({Driver} \cap thread_wait)

LEMMA LaunchedKept ==
    ASSUME Created' = Created,
           \A t \in Threads : "TB_LAUNCH" \in thread_flags'[t] <=> "TB_LAUNCH" \in thread_flags[t]
    PROVE  \A t \in Threads : Launched(t)' <=> Launched(t)
  BY DEF Launched

LEMMA KeyEntry ==
    ASSUME IInv, NEW m \in FreeMessages, KeyPress(m), PushContext
    PROVE  Entry("handled")
<1>1. /\ InterruptsOn /\ EnterKernel("handled")
      /\ Signal(Driver, {"ST_MESG"})
      /\ UNCHANGED <<running_thread, user>>
  BY DEF KeyPress
<1>2. upc' = upc /\ Created' = Created
  BY <1>1 DEF user, Created
<1>3. /\ thread_flags \in [Threads -> SUBSET ThreadFlags] /\ Driver \in Threads
      /\ thread_ready \in Seq(Threads)
  BY DEF IInv, TypeOK
<1>4. CASE "ST_MESG" \notin sig_wait[Driver]
  <2>1. UNCHANGED <<thread_wait, thread_ready, thread_flags>>
    BY <1>1, <1>4 DEF Signal
  <2>2. \A t \in Threads : Launched(t)' <=> Launched(t)
    BY <1>2, <2>1, LaunchedKept
  <2>3. QED
    BY <1>1, <1>2, <2>1, <2>2 DEF Entry
<1>5. CASE "ST_MESG" \in sig_wait[Driver]
  <2>1. /\ thread_wait' = thread_wait \ {Driver}
        /\ thread_ready' = Enqueue(thread_ready, Driver)
        /\ thread_flags' = [thread_flags EXCEPT ![Driver] = (@ \ {"TS_WAIT"}) \cup {"TS_READY"}]
    BY <1>1, <1>5 DEF Signal, Readied
  <2>2. Driver \in thread_wait
    BY <1>5 DEF IInv, SignalFindsWaiter
  <2>3. ToSet(thread_ready') = ToSet(thread_ready) \cup {Driver}
    BY <1>3, <2>1, EnqueueToSet
  <2>4. \A t \in Threads : "TB_LAUNCH" \in thread_flags'[t] <=> "TB_LAUNCH" \in thread_flags[t]
    BY <1>3, <2>1
  <2>5. \A t \in Threads : Launched(t)' <=> Launched(t)
    BY <1>2, <2>4, LaunchedKept
  <2>6. QED
    BY <1>1, <1>2, <2>1, <2>2, <2>3, <2>5 DEF Entry
<1>6. QED
  BY <1>4, <1>5

LEMMA QuietEntry ==
    ASSUME IInv, TimerTick \/ KeyRelease \/ KeyPanic, PushContext
    PROVE  \E pc \in {"handled", "panic"} : Entry(pc)
<1>1. PICK pc \in {"handled", "panic"} : InterruptsOn /\ EnterKernel(pc)
  BY DEF TimerTick, KeyRelease, KeyPanic
<1>2. UNCHANGED <<running_thread, thread_ready, thread_wait, thread_flags, upc>>
  BY DEF TimerTick, KeyRelease, KeyPanic, sched, desc, user
<1>3. \A t \in Threads : Launched(t)' <=> Launched(t)
  BY <1>2 DEF Launched, Created
<1>4. QED
  BY <1>1, <1>2, <1>3 DEF Entry

LEMMA CallEntry ==
    ASSUME IInv, Call
    PROVE  Entry("handled") /\ kstack = <<>> /\ ~ leaving
<1>1. /\ thread_flags \in [Threads -> SUBSET ThreadFlags] /\ Driver \in Threads
      /\ upc \in [Threads -> UserPC] /\ running_thread \in Threads
  BY DEF IInv, TypeOK
<1>2. PushContext /\ ~ leaving
  BY DEF Call
<1>3. \/ \E t \in Threads : MonitorWrite(t)
      \/ \E t \in Threads, flags \in WaitFlags : Wait(t, flags)
      \/ DriverStep
  BY DEF Call
<1>4. /\ InterruptsOn /\ kstack = <<>> /\ EnterKernel("handled")
      /\ UNCHANGED <<running_thread, thread_ready>>
  BY <1>3 DEF MonitorWrite, Wait, WaitCall, DriverStep, MsgRetrieve, MsgWait, MsgCycle, User,
     InterruptsOn, InRing3, sched
<1>5. /\ \A t \in Threads : t # running_thread => upc'[t] = upc[t]
      /\ upc[running_thread] # "uncreated" /\ upc'[running_thread] # "uncreated"
  <2>1. CASE \E t \in Threads, flags \in WaitFlags : Wait(t, flags)
    BY <2>1 DEF Wait, User
  <2>2. CASE (\E t \in Threads : MonitorWrite(t)) \/ DriverStep
    BY <1>1, <2>2 DEF MonitorWrite, DriverStep, MsgRetrieve, MsgWait, MsgCycle, User, Continue
  <2>3. QED
    BY <1>3, <2>1, <2>2
<1>6. /\ thread_wait' \subseteq thread_wait \cup {running_thread}
      /\ \A t \in Threads : "TB_LAUNCH" \in thread_flags'[t] <=> "TB_LAUNCH" \in thread_flags[t]
  <2>1. CASE \E t \in Threads : MonitorWrite(t)
    BY <2>1 DEF MonitorWrite, sched, desc
  <2>2. CASE MsgRetrieve \/ MsgCycle
    BY <2>2 DEF MsgRetrieve, MsgCycle, sched, desc
  <2>3. CASE MsgWait \/ \E t \in Threads, flags \in WaitFlags : Wait(t, flags)
    <3>1. PICK flags : Block(running_thread, flags)
      BY <2>3 DEF MsgWait, Wait, WaitCall, User
    <3>2. QED
      BY <1>1, <3>1 DEF Block
  <2>4. QED
    BY <1>3, <2>1, <2>2, <2>3 DEF DriverStep
<1>7. \A t \in Threads : Launched(t)' <=> Launched(t)
  BY <1>1, <1>5, <1>6 DEF Launched, Created
<1>8. QED
  BY <1>2, <1>4, <1>5, <1>6, <1>7 DEF Entry

\* Own(t) stays what it is while t makes no step.
LEMMA OwnKept ==
    ASSUME NEW t \in Threads, upc'[t] = upc[t]
    PROVE  Own(t)' = Own(t)
  BY DEF Own

\* The invariant of a suspended thread depends on its own stack only.
LEMMA SavedKept ==
    ASSUME SavedInv, UNCHANGED kernel_esp,
           \A t \in Threads : Suspended(t)' =>
               /\ Suspended(t)
               /\ upc'[t] = upc[t]
               /\ stack'[t] = stack[t]
    PROVE  SavedInv'
<1>1. SUFFICES ASSUME NEW t \in Threads, Suspended(t)'
               PROVE  (kernel_esp[t].stack = t /\ Holds(t, kernel_esp[t].depth))'
  BY DEF SavedInv
<1>2. kernel_esp[t].stack = t /\ Holds(t, kernel_esp[t].depth)
  BY <1>1 DEF SavedInv
<1>3. Own(t)' = Own(t) /\ stack'[t] = stack[t] /\ kernel_esp' = kernel_esp
  BY <1>1, OwnKept
<1>4. Holds(t, kernel_esp[t].depth)'
  BY <1>2, <1>3 DEF Holds
<1>5. QED
  BY <1>2, <1>3, <1>4

LEMMA EntryFrame ==
    ASSUME IInv, HInv, NEW pc \in {"handled", "panic"}, Entry(pc)
    PROVE  /\ kernel_esp' = kernel_esp
           /\ esp0' = At0(running_thread')
           /\ context' \in Context
           /\ leaving' = FALSE
           /\ ServiceInv'
           /\ running_thread \in Threads
           /\ running_thread # AddressEnd
           /\ running_thread \in Stacks
           /\ Here.who = running_thread
<1>1. InterruptsOn /\ EnterKernel(pc) /\ PushContext /\ running_thread' = running_thread
  BY DEF Entry
<1>2. /\ kernel_esp' = kernel_esp /\ esp0' = esp0
      /\ context' = Nowhere /\ leaving' = FALSE
  BY <1>1 DEF PushContext
<1>3. running_thread \in Threads
  BY DEF IInv, TypeOK
<1>4. running_thread # AddressEnd /\ running_thread \in Stacks
  BY <1>3 DEF Stacks
<1>5. esp0' = At0(running_thread')
  BY <1>1, <1>2 DEF HInv, HardwareType, At0
<1>6. context' \in Context
  BY <1>2 DEF Nowhere, Context
<1>7. ServiceInv'
  <2>1. kstack' # <<>> /\ kstack'[Len(kstack')] = pc
    <3>1. kstack = <<>> \/ kstack # <<>>
      OBVIOUS
    <3>2. QED
      BY <1>1, <3>1, EnterShape
  <2>2. QED
    BY <2>1 DEF ServiceInv
<1>8. Here.who = running_thread
  BY DEF Here
<1>9. QED
  BY <1>1, <1>2, <1>3, <1>4, <1>5, <1>6, <1>7, <1>8

\* An interrupt or a call of a thread in ring 3, on the empty stack of its
\* own the TSS names.
LEMMA FromRing3 ==
    ASSUME IInv, IInv', HInv, NEW pc \in {"handled", "panic"}, Entry(pc),
           kstack = <<>>, ~ leaving
    PROVE  HInv'
<1> DEFINE r == running_thread
<1>1. /\ InterruptsOn /\ EnterKernel(pc) /\ PushContext /\ running_thread' = r
      /\ \A t \in Threads : t # r => upc'[t] = upc[t]
      /\ \A t \in Threads : Launched(t)' <=> Launched(t)
      /\ thread_wait' \subseteq thread_wait \cup {r}
  BY DEF Entry
<1>2. /\ kernel_esp' = kernel_esp /\ esp0' = At0(running_thread')
      /\ context' \in Context /\ leaving' = FALSE /\ ServiceInv'
      /\ r \in Threads /\ r # AddressEnd /\ r \in Stacks
  BY EntryFrame
<1>3. /\ kstack' # <<>> /\ Len(kstack') = 1 /\ kstack'[1] = pc /\ pc \notin SwitchPC
      /\ upc[KernelThread] # "boot"
  BY <1>1, EnterShape DEF SwitchPC
<1>4. Here = [who |-> r, pc |-> upc'[r]] /\ Here \in Context
  <2>1. Here = [who |-> r, pc |-> upc'[r]]
    BY DEF Here
  <2>2. upc'[r] \in UserPC
    BY <1>2 DEF IInv, TypeOK
  <2>3. QED
    BY <1>2, <2>1, <2>2 DEF Context
<1>5. /\ At0(r) \in Pointer /\ At0(r).stack = r /\ At0(r).depth = 0
      /\ stack' = Pushed(At0(r), Here) /\ esp' = Deeper(At0(r), 1)
  <2>1. ~ InRing0
    BY DEF InRing0
  <2>2. esp0 = At0(r)
    BY DEF HInv, HardwareType
  <2>3. QED
    BY <1>1, <1>2, <2>1, <2>2 DEF PushContext, At0, Pointer
<1>6. HardwareType /\ stack[r] \in Seq(Context) /\ 0 <= Len(stack[r])
  BY <1>2 DEF HInv, HardwareType
<1>7. /\ stack' \in [Stacks -> Seq(Context)]
      /\ Len(stack'[r]) = 1
      /\ stack'[r][1] = Here
      /\ \A s \in Stacks \ {r} : stack'[s] = stack[s]
  <2> DEFINE p == At0(r)
             c == Here
  <2>1. p \in Pointer /\ p.stack = r /\ p.depth = 0 /\ c \in Context
    BY <1>4, <1>5
  <2>2. stack' = Pushed(p, c) /\ p.depth <= Len(stack[p.stack])
    BY <1>5, <1>6
  <2>3. HardwareType /\ c = Here
    BY <1>6
  <2> HIDE DEF p, c
  <2>4. /\ stack' \in [Stacks -> Seq(Context)]
        /\ Len(stack'[p.stack]) = p.depth + 1
        /\ stack'[p.stack][p.depth + 1] = c
        /\ \A s \in Stacks \ {p.stack} : stack'[s] = stack[s]
    <3>1. p \in Pointer /\ c \in Context
      BY <2>1
    <3>2. QED
      BY <2>2, <2>3, <3>1, Push
  <2>5. QED
    BY <2>1, <2>3, <2>4
<1>8. esp' \in Pointer /\ esp'.stack = r /\ esp'.depth = 1
  <2> DEFINE p == At0(r)
  <2>1. p \in Pointer /\ p.stack = r /\ p.depth = 0 /\ esp' = Deeper(p, 1)
    BY <1>5
  <2> HIDE DEF p
  <2>2. QED
    BY <2>1, DeeperIs
<1>9. HardwareType'
  <2>1. kernel_esp' \in [Threads -> Pointer]
    BY <1>2, <1>6 DEF HardwareType
  <2>2. QED
    BY <1>2, <1>7, <1>8, <2>1 DEF HardwareType, Context, Pointer, Stacks
<1>10. \A t \in Threads : Suspended(t)' => t # r /\ Suspended(t) /\ upc'[t] = upc[t] /\ stack'[t] = stack[t]
  BY <1>1, <1>3, <1>7 DEF Suspended, Stacks
<1>11. SavedInv'
  BY <1>2, <1>10, SavedKept DEF HInv
<1>12. LaunchInv'
  <2>1. stack'[AddressEnd] = <<>>
    BY <1>2, <1>7 DEF HInv, LaunchInv, Stacks
  <2>2. Launched(KernelThread)' /\ Launched(r)'
    BY <1>1, <1>2 DEF HInv, LaunchInv
  <2>3. QED
    BY <1>1, <2>1, <2>2 DEF LaunchInv, Launched, Created
<1>13. WaitInv'
  <2>1. ASSUME NEW t \in thread_wait'
        PROVE  Launched(t)' /\ (Suspended(t)' => kernel_esp'[t].depth = 1)
    <3>1. t \in Threads
      BY <2>1 DEF IInv, TypeOK
    <3>2. CASE t = r
      BY <1>1, <1>2, <1>10, <3>2 DEF HInv, LaunchInv
    <3>3. CASE t # r
      BY <1>1, <1>2, <1>10, <2>1, <3>1, <3>3 DEF HInv, WaitInv
    <3>4. QED
      BY <3>2, <3>3
  <2>2. QED
    BY <2>1 DEF WaitInv
<1>14. RunningInv'
  <2>1. Holds(r, 1)'
    <3>1. stack'[r][1] = Own(r)'
      BY <1>1, <1>4, <1>7 DEF Own
    <3>2. QED
      BY <1>1, <1>7, <3>1 DEF Holds, Own
  <2>2. QED
    BY <1>1, <1>2, <1>3, <1>8, <2>1 DEF RunningInv, InRing3, Holds, Own
<1>15. SwitchStackInv'
  BY <1>3 DEF SwitchStackInv
<1>16. StacksBounded'
  <2>1. SUFFICES ASSUME NEW s \in Stacks
                 PROVE  Len(stack'[s]) <= 2
    BY DEF StacksBounded, Stacks
  <2>2. CASE s = r
    <3>1. Len(stack'[s]) = 1
      BY <1>7, <2>2
    <3>2. QED
      BY <3>1
  <2>3. CASE s # r
    BY <1>7, <2>3 DEF HInv, StacksBounded
  <2>4. QED
    BY <2>2, <2>3
<1>17. QED
  BY <1>2, <1>9, <1>11, <1>12, <1>13, <1>14, <1>15, <1>16 DEF HInv

\* An interrupt of the kernel uses the stack of the kernel.
LEMMA FromRing0 ==
    ASSUME IInv, HInv, NEW pc \in {"handled", "panic"}, Entry(pc), InRing0,
           Here \in Context, esp.depth = 1, 1 <= Len(stack[esp.stack])
    PROVE  /\ HardwareType'
           /\ Len(stack'[esp.stack]) = 2
           /\ stack'[esp.stack][1] = stack[esp.stack][1]
           /\ stack'[esp.stack][2] = Here
           /\ \A s \in Stacks \ {esp.stack} : stack'[s] = stack[s]
           /\ esp'.stack = esp.stack
           /\ esp'.depth = 2
<1>1. /\ HardwareType /\ esp \in Pointer /\ kernel_esp \in [Threads -> Pointer]
      /\ esp.stack \in Stacks
  BY DEF HInv, HardwareType, Pointer
<1>2. stack' = Pushed(esp, Here) /\ esp' = Deeper(esp, 1)
  BY DEF Entry, PushContext
<1>3. /\ stack' \in [Stacks -> Seq(Context)]
      /\ Len(stack'[esp.stack]) = 2
      /\ stack'[esp.stack][1] = stack[esp.stack][1]
      /\ stack'[esp.stack][2] = Here
      /\ \A s \in Stacks \ {esp.stack} : stack'[s] = stack[s]
  <2>1. /\ stack' \in [Stacks -> Seq(Context)]
        /\ Len(stack'[esp.stack]) = esp.depth + 1
        /\ \A i \in 1 .. esp.depth : stack'[esp.stack][i] = stack[esp.stack][i]
        /\ stack'[esp.stack][esp.depth + 1] = Here
        /\ \A s \in Stacks \ {esp.stack} : stack'[s] = stack[s]
    BY <1>1, <1>2, Push
  <2>2. QED
    BY <2>1
<1>4. esp' \in Pointer /\ esp'.stack = esp.stack /\ esp'.depth = 2
  BY <1>1, <1>2, DeeperIs
<1>5. /\ kernel_esp' = kernel_esp /\ esp0' = At0(running_thread')
      /\ context' \in Context /\ leaving' = FALSE
  BY EntryFrame
<1>6. HardwareType'
  BY <1>1, <1>3, <1>4, <1>5 DEF HardwareType, Context, Pointer, Stacks
<1>7. QED
  BY <1>3, <1>4, <1>6

\* An interrupt between the decrement of k_reenter and the iret: the thread
\* has its context on its stack and gets a second one above it.
LEMMA FromReturn ==
    ASSUME IInv, IInv', HInv, NEW pc \in {"handled", "panic"}, Entry(pc), leaving
    PROVE  HInv'
<1> DEFINE r == running_thread
<1>1. /\ kstack = <<>> /\ upc[KernelThread] # "boot"
      /\ esp.stack = r /\ esp.depth = 1 /\ Holds(r, 1)
  BY DEF HInv, RunningInv
<1>2. /\ InterruptsOn /\ EnterKernel(pc) /\ PushContext /\ running_thread' = r
      /\ \A t \in Threads : upc'[t] = upc[t]
      /\ \A t \in Threads : Launched(t)' <=> Launched(t)
      /\ thread_wait' \subseteq thread_wait
  BY DEF Entry
<1>3. /\ kernel_esp' = kernel_esp /\ leaving' = FALSE /\ ServiceInv'
      /\ r \in Threads /\ r # AddressEnd /\ r \in Stacks
  BY EntryFrame
<1>4. /\ kstack' # <<>> /\ Len(kstack') = 1 /\ kstack'[1] = pc /\ pc \notin SwitchPC
  BY <1>1, <1>2, EnterShape DEF SwitchPC
<1>5. Here = [who |-> r, pc |-> "leaving"] /\ Here \in Context
  <2>1. Here = [who |-> r, pc |-> "leaving"]
    BY <1>1 DEF Here
  <2>2. QED
    BY <1>3, <2>1 DEF Context
<1>6. /\ HardwareType'
      /\ Len(stack'[r]) = 2
      /\ stack'[r][1] = stack[r][1]
      /\ stack'[r][2] = Here
      /\ \A s \in Stacks \ {r} : stack'[s] = stack[s]
      /\ esp'.stack = r
      /\ esp'.depth = 2
  BY <1>1, <1>5, FromRing0 DEF InRing0, Holds
<1>7. \A t \in Threads : Suspended(t)' => t # r /\ Suspended(t) /\ upc'[t] = upc[t] /\ stack'[t] = stack[t]
  BY <1>2, <1>4, <1>6 DEF Suspended, Stacks
<1>8. SavedInv'
  BY <1>3, <1>7, SavedKept DEF HInv
<1>9. LaunchInv'
  <2>1. stack'[AddressEnd] = <<>>
    BY <1>3, <1>6 DEF HInv, LaunchInv, Stacks
  <2>2. Launched(KernelThread)' /\ Launched(r)'
    BY <1>1, <1>2, <1>3 DEF HInv, LaunchInv
  <2>3. QED
    BY <1>2, <2>1, <2>2 DEF LaunchInv, Launched, Created
<1>10. WaitInv'
  <2>1. ASSUME NEW t \in thread_wait'
        PROVE  Launched(t)' /\ (Suspended(t)' => kernel_esp'[t].depth = 1)
    <3>1. t \in Threads
      BY <2>1 DEF IInv, TypeOK
    <3>2. QED
      BY <1>2, <1>3, <1>7, <2>1, <3>1 DEF HInv, WaitInv
  <2>2. QED
    BY <2>1 DEF WaitInv
<1>11. r \notin thread_wait'
  BY <1>1, <1>2 DEF IInv, QueueDiscipline, OffQueues
<1>12. RunningInv'
  <2>1. Holds(r, 2)'
    <3>1. stack'[r][1] = Own(r)'
      BY <1>1, <1>2, <1>3, <1>6 DEF Own, Holds
    <3>2. QED
      BY <1>2, <1>5, <1>6, <3>1 DEF Holds, Own
  <2>2. QED
    BY <1>2, <1>3, <1>4, <1>6, <1>11, <2>1 DEF RunningInv, InRing3, Holds, Own
<1>13. SwitchStackInv'
  BY <1>4 DEF SwitchStackInv
<1>14. StacksBounded'
  <2>1. \A s \in Stacks : Len(stack'[s]) <= 2
    <3>1. \A s \in Stacks : Len(stack[s]) <= 2
      BY DEF HInv, StacksBounded
    <3>2. SUFFICES ASSUME NEW s \in Stacks
                   PROVE  Len(stack'[s]) <= 2
      OBVIOUS
    <3>3. CASE s = r
      <4>1. Len(stack'[s]) = 2
        BY <1>6, <3>3
      <4>2. QED
        BY <4>1
    <3>4. CASE s # r
      BY <1>6, <3>1, <3>4
    <3>5. QED
      BY <3>3, <3>4
  <2>2. QED
    BY <2>1 DEF StacksBounded, Stacks
<1>15. QED
  BY <1>3, <1>6, <1>8, <1>9, <1>10, <1>12, <1>13, <1>14 DEF HInv

\* An interrupt of a switch that has been idle goes on the stack the switch
\* has kept, above the context of a thread that waits.
LEMMA FromSwitch ==
    ASSUME IInv, IInv', HInv, NEW pc \in {"handled", "panic"}, Entry(pc), kstack # <<>>
    PROVE  HInv'
<1> DEFINE r == running_thread
           e == esp.stack
<1>1. /\ InterruptsOn /\ EnterKernel(pc) /\ PushContext /\ running_thread' = r
      /\ \A t \in Threads : upc'[t] = upc[t]
      /\ \A t \in Threads : Launched(t)' <=> Launched(t)
      /\ thread_wait' \subseteq thread_wait
      /\ ToSet(thread_ready') \subseteq ToSet(thread_ready) \cup ({Driver} \cap thread_wait)
  BY DEF Entry
<1>2. /\ kernel_esp' = kernel_esp /\ leaving' = FALSE /\ ServiceInv'
      /\ r \in Threads /\ Here.who = r
  BY EntryFrame
<1>3. /\ Len(kstack) = 1 /\ sti /\ kstack[1] \in SwitchPC /\ kstack' # <<>>
      /\ Len(kstack') = 2 /\ sti' /\ next_thread' = next_thread
      /\ kstack'[1] = IF kstack[1] = "halted" THEN "probe" ELSE kstack[1]
  BY <1>1, EnterShape DEF EnterKernel
<1>4. IdleInv
  BY <1>3 DEF HInv, SwitchStackInv
<1>5. /\ e \in Threads /\ e # AddressEnd /\ Holds(e, 1) /\ esp.depth = 1
      /\ Suspended(e) /\ kernel_esp[e].depth = 1
  BY <1>3, <1>4 DEF IdleInv
<1>6. Here = [who |-> r, pc |-> kstack'[1]] /\ Here \in Context
  <2>1. Here = [who |-> r, pc |-> Interrupted[Len(kstack)]]
    BY DEF Here
  <2>2. Interrupted[Len(kstack)] = kstack'[1] /\ kstack'[1] \in KernelPC
    <3>1. kstack \in Seq(KernelPC)
      BY StackShape
    <3>2. QED
      BY <1>3, <3>1 DEF Interrupted, At, Top, KernelPC, SwitchPC
  <2>3. QED
    BY <1>2, <2>1, <2>2 DEF Context
<1>7. /\ HardwareType'
      /\ Len(stack'[e]) = 2
      /\ stack'[e][1] = stack[e][1]
      /\ stack'[e][2] = Here
      /\ \A s \in Stacks \ {e} : stack'[s] = stack[s]
      /\ esp'.stack = e
      /\ esp'.depth = 2
  BY <1>5, <1>6, FromRing0 DEF InRing0, Holds
<1>8. \A t \in Threads : Suspended(t)' <=> Suspended(t)
  BY <1>1, <1>3 DEF Suspended, SwitchPC
<1>9. Holds(e, 1)'
  <2>1. stack'[e][1] = Own(e)'
    BY <1>1, <1>5, <1>7 DEF Own, Holds
  <2>2. QED
    BY <1>7, <2>1 DEF Holds, Own
<1>10. SavedInv'
  <2>1. ASSUME NEW t \in Threads, Suspended(t)'
        PROVE  (kernel_esp[t].stack = t /\ Holds(t, kernel_esp[t].depth))'
    <3>1. kernel_esp[t].stack = t /\ Holds(t, kernel_esp[t].depth)
      BY <1>8, <2>1 DEF HInv, SavedInv
    <3>2. CASE t = e
      BY <1>2, <1>5, <1>7, <1>9, <3>1, <3>2 DEF Holds
    <3>3. CASE t # e
      <4>1. stack'[t] = stack[t] /\ upc'[t] = upc[t]
        BY <1>1, <1>7, <3>3 DEF Stacks
      <4>2. Own(t)' = Own(t)
        BY <4>1, OwnKept
      <4>3. QED
        BY <1>2, <3>1, <4>1, <4>2 DEF Holds
    <3>4. QED
      BY <3>2, <3>3
  <2>2. QED
    BY <2>1 DEF SavedInv
<1>11. LaunchInv'
  <2>1. stack'[AddressEnd] = <<>>
    BY <1>5, <1>7 DEF HInv, LaunchInv, Stacks
  <2>2. Launched(KernelThread)' /\ (kstack'[1] # "exit" => Launched(r)')
    BY <1>1, <1>2, <1>3 DEF HInv, LaunchInv
  <2>3. QED
    BY <1>1, <1>3, <2>1, <2>2 DEF LaunchInv, Launched, Created
<1>12. WaitInv'
  <2>1. ASSUME NEW t \in thread_wait'
        PROVE  Launched(t)' /\ (Suspended(t)' => kernel_esp'[t].depth = 1)
    <3>1. t \in Threads
      BY <2>1 DEF IInv, TypeOK
    <3>2. QED
      BY <1>1, <1>2, <1>8, <2>1, <3>1 DEF HInv, WaitInv
  <2>2. QED
    BY <2>1 DEF WaitInv
<1>13. RunningInv'
  BY <1>2, <1>3 DEF RunningInv, InRing3, HandlerPC, SwitchPC
<1>14. SwitchStackInv'
  <2>1. kstack'[1] \in BeforeExit => esp'.stack = running_thread'
    BY <1>1, <1>3, <1>7 DEF HInv, SwitchStackInv, BeforeExit, SwitchPC
  <2>2. ASSUME NEW t \in ToSet(thread_ready')
        PROVE  Launched(t)' /\ kernel_esp'[t].depth = 1
    <3>1. CASE t \in ToSet(thread_ready)
      <4>1. t \in Threads
        <5>1. thread_ready \in Seq(Threads)
          BY DEF IInv, TypeOK
        <5>2. QED
          BY <3>1, <5>1 DEF ToSet
      <4>2. QED
        BY <1>1, <1>2, <1>4, <3>1, <4>1 DEF IdleInv
    <3>2. CASE t = Driver /\ Driver \in thread_wait
      <4>1. Launched(t) /\ (Suspended(t) => kernel_esp[t].depth = 1) /\ t \in Threads
        BY <3>2 DEF HInv, WaitInv
      <4>2. QED
        BY <1>1, <1>2, <1>3, <4>1 DEF Suspended
    <3>3. QED
      BY <1>1, <2>2, <3>1, <3>2
  <2>3. kstack'[1] = "install" => Launched(next_thread)' /\ kernel_esp'[next_thread'].depth = 1
    <3>1. kstack[1] = "install" => next_thread \in Threads
      BY <1>3 DEF IInv, SwitchInv
    <3>2. QED
      BY <1>1, <1>2, <1>3, <1>4, <3>1 DEF IdleInv, Launched, Created
  <2>4. kstack'[1] = "exit" => Launched(running_thread)' /\ kernel_esp'[running_thread'].depth = 1
    BY <1>1, <1>2, <1>3, <1>4 DEF IdleInv, Launched, Created
  <2>5. stack'[e][2] = [who |-> running_thread', pc |-> kstack'[1]]
    BY <1>1, <1>6, <1>7
  <2>6. IdleInv'
    <3>1. Holds(esp.stack, 1)'
      BY <1>7, <1>9 DEF Holds, Own
    <3>2. esp'.stack \in Threads /\ Suspended(esp.stack)' /\ kernel_esp'[esp'.stack].depth = 1
      BY <1>2, <1>5, <1>7, <1>8 DEF Suspended, Launched, Created
    <3>3. esp'.depth = Len(kstack') /\ Len(stack'[esp'.stack]) = 2
          /\ stack'[esp'.stack][2] = [who |-> running_thread', pc |-> kstack'[1]]
      BY <1>3, <1>7, <2>5
    <3>4. QED
      BY <2>2, <2>3, <2>4, <3>1, <3>2, <3>3 DEF IdleInv
  <2>7. QED
    BY <1>3, <2>1, <2>6 DEF SwitchStackInv
<1>15. StacksBounded'
  <2>1. \A s \in Stacks : Len(stack'[s]) <= 2
    <3>1. \A s \in Stacks : Len(stack[s]) <= 2
      BY DEF HInv, StacksBounded
    <3>2. SUFFICES ASSUME NEW s \in Stacks
                   PROVE  Len(stack'[s]) <= 2
      OBVIOUS
    <3>3. CASE s = e
      <4>1. Len(stack'[s]) = 2
        BY <1>7, <3>3
      <4>2. QED
        BY <4>1
    <3>4. CASE s # e
      BY <1>7, <3>1, <3>4
    <3>5. QED
      BY <3>3, <3>4
  <2>2. QED
    BY <2>1 DEF StacksBounded, Stacks
<1>16. QED
  BY <1>2, <1>7, <1>10, <1>11, <1>12, <1>13, <1>14, <1>15 DEF HInv

LEMMA EntryStep ==
    ASSUME IInv, IInv', HInv, Tick \/ Key \/ Call
    PROVE  HInv'
<1>1. \E pc \in {"handled", "panic"} : Entry(pc)
  <2>1. CASE Tick
    BY <2>1, QuietEntry DEF Tick
  <2>2. CASE Key
    BY <2>2, QuietEntry, KeyEntry DEF Key, KeyInterrupt
  <2>3. CASE Call
    BY <2>3, CallEntry
  <2>4. QED
    BY <2>1, <2>2, <2>3
<1>2. QED
  BY <1>1, FromRing3, FromReturn, FromSwitch

-----------------------------------------------------------------------------
(***************************************************************************)
(* Ring 3.                                                                 *)
(***************************************************************************)
LEMMA ProgramStep ==
    ASSUME IInv, IInv', HInv, kstack = <<>>, kstack' = <<>>, ~ leaving,
           UNCHANGED <<stack, esp, kernel_esp, esp0, leaving, in_service,
                       running_thread, thread_wait>>,
           \A t \in Threads : Launched(t)' <=> Launched(t),
           \A t \in Threads : Launched(t) /\ t # running_thread => upc'[t] = upc[t],
           context' \in Context,
           InRing3' => context' = Own(running_thread)'
    PROVE  HInv'
<1>1. HardwareType'
  BY DEF HInv, HardwareType, Context, Pointer, Stacks, At0
<1>2. running_thread \in Threads
  BY DEF IInv, TypeOK
<1>3. \A t \in Threads : Suspended(t)' => t # running_thread /\ Suspended(t) /\ upc'[t] = upc[t]
  BY DEF Suspended
<1>4. SavedInv'
  BY <1>3, SavedKept DEF HInv
<1>5. LaunchInv'
  BY <1>2 DEF HInv, LaunchInv, Launched, Created
<1>6. WaitInv'
  <2>1. ASSUME NEW t \in thread_wait'
        PROVE  Launched(t)' /\ (Suspended(t)' => kernel_esp'[t].depth = 1)
    <3>1. t \in Threads /\ t \in thread_wait
      BY <2>1 DEF IInv, TypeOK
    <3>2. QED
      BY <1>3, <3>1 DEF HInv, WaitInv
  <2>2. QED
    BY <2>1 DEF WaitInv
<1>7. RunningInv'
  BY DEF RunningInv
<1>8. SwitchStackInv'
  BY DEF SwitchStackInv
<1>9. ServiceInv' /\ StacksBounded'
  BY DEF HInv, ServiceInv, StacksBounded
<1>10. QED
  BY <1>1, <1>4, <1>5, <1>6, <1>7, <1>8, <1>9 DEF HInv

LEMMA ComputeStep ==
    ASSUME IInv, IInv', HInv, Compute
    PROVE  HInv'
<1> DEFINE r == running_thread
<1>1. PICK t \in Threads : CallPrint(t) \/ Format(t) \/ Load(t) \/ ForbidStore(t) \/ PermitStore(t)
  BY DEF Compute
<1>2. /\ upc \in [Threads -> UserPC] /\ upc' \in [Threads -> UserPC] /\ r \in Threads
      /\ \A u \in Threads : ret[u] # "uncreated"
  BY DEF IInv, TypeOK, ForbidInv
<1>3. /\ t = r /\ InRing3 /\ kstack' = <<>>
      /\ UNCHANGED <<running_thread, thread_wait, thread_flags>>
      /\ upc[t] # "uncreated"
      /\ \E pc : Continue(t, pc) /\ pc # "uncreated"
  BY <1>1, <1>2 DEF CallPrint, Format, Load, ForbidStore, PermitStore, User, InRing3, sched, desc
<1>4. \A u \in Threads : (u # r => upc'[u] = upc[u]) /\ (upc'[u] = "uncreated" <=> upc[u] = "uncreated")
  BY <1>2, <1>3 DEF Continue
<1>5. \A u \in Threads : Launched(u)' <=> Launched(u)
  BY <1>3, <1>4 DEF Launched, Created
<1>6. ~ leaving /\ context' = [context EXCEPT !.pc = upc'[running_thread]]
  BY DEF Compute
<1>7. context = Own(r)
  BY <1>3, <1>6 DEF HInv, RunningInv
<1>8. context' = [who |-> r, pc |-> upc'[r]]
  BY <1>6, <1>7 DEF Own
<1>9. context' = Own(running_thread)' /\ context' \in Context
  BY <1>2, <1>3, <1>8 DEF Own, Context
<1>10. UNCHANGED <<stack, esp, kernel_esp, esp0, leaving, in_service>>
  BY DEF Compute
<1>11. QED
  BY <1>3, <1>4, <1>5, <1>6, <1>9, <1>10, ProgramStep DEF InRing3

LEMMA CreateStep ==
    ASSUME IInv, IInv', HInv, Create
    PROVE  HInv'
<1>1. PICK t \in Threads : CreateThread(t)
  BY DEF Create
<1>2. /\ upc[KernelThread] = "boot" /\ upc[t] = "uncreated"
      /\ thread_flags' = [thread_flags EXCEPT ![t] = {"TS_READY", "TB_LAUNCH"}]
      /\ upc' = [upc EXCEPT ![t] = StartOf(t)]
      /\ UNCHANGED <<running_thread, thread_wait, kstack>>
  BY <1>1 DEF CreateThread
<1>3. UNCHANGED hardware /\ kstack = <<>>
  BY <1>2 DEF Create, IInv, BootInv
<1>4. ~ leaving /\ ~ InRing3' /\ KernelThread # t
  BY <1>2 DEF HInv, RunningInv, InRing3
<1>5. /\ thread_flags \in [Threads -> SUBSET ThreadFlags]
      /\ upc \in [Threads -> UserPC] /\ KernelThread \in Threads
  BY DEF IInv, TypeOK
<1>6. \A u \in Threads : Launched(u)' <=> Launched(u)
  BY <1>2, <1>5 DEF Launched, Created
<1>7. \A u \in Threads : Launched(u) => upc'[u] = upc[u]
  BY <1>2, <1>5 DEF Launched, Created
<1>8. ~ InRing3'
  BY <1>2, <1>4, <1>5 DEF InRing3
<1>9. context' \in Context
  BY <1>3 DEF hardware, HInv, HardwareType
<1>10. QED
  BY <1>2, <1>3, <1>4, <1>6, <1>7, <1>8, <1>9, ProgramStep DEF hardware

LEMMA EnterRing3Step ==
    ASSUME IInv, IInv', HInv, EnterRing3
    PROVE  HInv'
<1>1. /\ upc[KernelThread] = "boot"
      /\ upc' = [upc EXCEPT ![KernelThread] = "permit_load"]
      /\ UNCHANGED <<running_thread, thread_wait, thread_flags, kstack>>
  BY DEF EnterRing3, EnterUserMode, sched, desc
<1>2. kstack = <<>> /\ ~ leaving
  BY <1>1 DEF IInv, BootInv, HInv, RunningInv
<1>3. KernelThread = running_thread
  BY <1>1 DEF IInv, ForbidInv, ForbidExact, InForbid, ForbidPC
<1>4. upc \in [Threads -> UserPC] /\ upc' \in [Threads -> UserPC] /\ KernelThread \in Threads
  BY DEF IInv, TypeOK
<1>5. \A u \in Threads : Launched(u)' <=> Launched(u)
  BY <1>1, <1>4 DEF Launched, Created
<1>6. context' = Own(running_thread)' /\ context' \in Context
  BY <1>1, <1>3, <1>4 DEF EnterRing3, Own, Context
<1>7. UNCHANGED <<stack, esp, kernel_esp, esp0, leaving, in_service>>
  BY DEF EnterRing3
<1>8. QED
  BY <1>1, <1>2, <1>3, <1>4, <1>5, <1>6, <1>7, ProgramStep

-----------------------------------------------------------------------------
(***************************************************************************)
(* The kernel.                                                             *)
(***************************************************************************)

\* Steps that neither switch stacks nor leave the kernel.
LEMMA KernelStays ==
    ASSUME IInv, IInv', HInv, kstack # <<>>, kstack' # <<>>, Len(kstack') = Len(kstack),
           UNCHANGED <<stack, esp, kernel_esp, esp0, context, leaving,
                       running_thread, thread_wait, thread_flags, upc>>,
           kstack'[1] \in HandlerPC => kstack[1] \in HandlerPC,
           kstack'[1] \in SwitchPC <=> kstack[1] \in SwitchPC,
           kstack'[1] = "exit" <=> kstack[1] = "exit"
    PROVE  /\ HardwareType' /\ SavedInv' /\ LaunchInv' /\ WaitInv'
           /\ RunningInv' /\ StacksBounded'
           /\ \A t \in Threads : Launched(t)' <=> Launched(t)
           /\ \A t \in Threads : Suspended(t)' <=> Suspended(t)
           /\ kstack'[1] \in BeforeExit =>
                 /\ esp'.stack = running_thread'
                 /\ Len(kstack') = 1 => esp'.depth = kernel_esp'[running_thread'].depth
<1>1. HardwareType'
  BY DEF HInv, HardwareType, Context, Pointer, Stacks, At0
<1>2. \A t \in Threads : Launched(t)' <=> Launched(t)
  BY DEF Launched, Created
<1>3. \A t \in Threads : Suspended(t)' <=> Suspended(t)
  BY <1>2 DEF Suspended
<1>4. SavedInv'
  BY <1>3, SavedKept DEF HInv
<1>5. LaunchInv'
  BY DEF HInv, LaunchInv, Launched, Created
<1>6. WaitInv'
  <2>1. \A t \in thread_wait' : t \in Threads
    BY DEF IInv, TypeOK
  <2>2. QED
    BY <1>2, <1>3, <2>1 DEF HInv, WaitInv
<1>7. RunningInv'
  BY DEF HInv, RunningInv, InRing3, Holds, Own
<1>8. StacksBounded'
  BY DEF HInv, StacksBounded
<1>9. kstack'[1] \in BeforeExit =>
         /\ esp'.stack = running_thread'
         /\ Len(kstack') = 1 => esp'.depth = kernel_esp'[running_thread'].depth
  BY DEF HInv, SwitchStackInv, BeforeExit
<1>10. QED
  BY <1>1, <1>2, <1>3, <1>4, <1>5, <1>6, <1>7, <1>8, <1>9

LEMMA HandledStep ==
    ASSUME IInv, IInv', HInv, Handled
    PROVE  HInv'
<1>1. /\ At("handled") /\ Goto("dispatch")
      /\ UNCHANGED <<running_thread, thread_wait, thread_flags, upc, sti, next_thread>>
      /\ UNCHANGED <<stack, esp, kernel_esp, esp0, context, leaving>>
      /\ in_service' = {}
  BY DEF Handled, Reschedule, EndOfInterrupt, desc, user
<1>2. /\ kstack # <<>> /\ kstack' # <<>> /\ Len(kstack') = Len(kstack)
      /\ Len(kstack) = 1 => kstack[1] = "handled" /\ kstack'[1] = "dispatch"
      /\ Len(kstack) = 2 => kstack'[1] = kstack[1]
  BY <1>1, GotoShape DEF KernelPC
<1>3. \/ Len(kstack) = 1 /\ k_reenter = 0
      \/ Len(kstack) = 2 /\ k_reenter = 1 /\ kstack[1] \in SwitchPC
  BY <1>2, StackShape
<1>4. /\ HardwareType' /\ SavedInv' /\ LaunchInv' /\ WaitInv'
      /\ RunningInv' /\ StacksBounded'
      /\ \A t \in Threads : Launched(t)' <=> Launched(t)
      /\ \A t \in Threads : Suspended(t)' <=> Suspended(t)
      /\ kstack'[1] \in BeforeExit =>
            /\ esp'.stack = running_thread'
            /\ Len(kstack') = 1 => esp'.depth = kernel_esp'[running_thread'].depth
  BY <1>1, <1>2, <1>3, KernelStays DEF HandlerPC, SwitchPC
<1>5. SwitchStackInv'
  <2>1. CASE Len(kstack) = 1
    BY <1>2, <2>1 DEF SwitchStackInv, SwitchPC
  <2>2. CASE Len(kstack) = 2
    <3>1. UNCHANGED thread_ready
      BY <1>3, <2>2 DEF Handled, Reschedule, Requested
    <3>2. sti => IdleInv
      BY <1>2, <1>3, <2>2 DEF HInv, SwitchStackInv
    <3>3. ASSUME sti
          PROVE  IdleInv'
      BY <1>1, <1>2, <1>4, <2>2, <3>1, <3>2, <3>3 DEF IdleInv, Holds, Own, Suspended, Launched, Created
    <3>4. QED
      BY <1>1, <1>4, <3>3 DEF SwitchStackInv
  <2>3. QED
    BY <1>3, <2>1, <2>2
<1>6. ServiceInv'
  BY <1>1 DEF ServiceInv
<1>7. QED
  BY <1>4, <1>5, <1>6 DEF HInv

LEMMA SwitchingStep ==
    ASSUME IInv, IInv', HInv, Switching
    PROVE  HInv'
<1>1. UNCHANGED hardware /\ (ProbeReady \/ Idle \/ Halt \/ UnlinkNext)
  BY DEF Switching
<1>2. UNCHANGED <<running_thread, thread_wait, thread_flags, upc, k_reenter>>
  BY <1>1 DEF ProbeReady, Idle, Halt, UnlinkNext, sched, desc, user
<1>3. PICK old \in BeforeExit, pc \in BeforeExit : At(old) /\ Goto(pc)
  BY <1>1 DEF ProbeReady, Idle, Halt, UnlinkNext, SwitchPC, BeforeExit
<1>4. /\ kstack # <<>> /\ kstack[1] = old /\ Len(kstack) = 1
      /\ kstack' # <<>> /\ kstack'[1] = pc /\ Len(kstack') = 1
      /\ old \in SwitchPC \ {"exit"} /\ pc \in SwitchPC \ {"exit"}
  BY <1>2, <1>3, SwitchGoto DEF BeforeExit
<1>5. /\ HardwareType' /\ SavedInv' /\ LaunchInv' /\ WaitInv'
      /\ RunningInv' /\ StacksBounded'
      /\ \A t \in Threads : Launched(t)' <=> Launched(t)
      /\ \A t \in Threads : Suspended(t)' <=> Suspended(t)
      /\ kstack'[1] \in BeforeExit =>
            /\ esp'.stack = running_thread'
            /\ Len(kstack') = 1 => esp'.depth = kernel_esp'[running_thread'].depth
  BY <1>1, <1>2, <1>4, KernelStays DEF hardware, HandlerPC, SwitchPC
<1>6. esp.stack = running_thread /\ esp.depth = kernel_esp[running_thread].depth
  BY <1>3, <1>4 DEF HInv, SwitchStackInv
<1>7. ASSUME sti, IdleInv, UNCHANGED thread_ready, pc # "install"
      PROVE  IdleInv'
  BY <1>1, <1>2, <1>4, <1>5, <1>7
     DEF IdleInv, hardware, Holds, Own, Suspended, Launched, Created
<1>8. sti' => IdleInv'
  <2>1. sti => IdleInv
    BY <1>4 DEF HInv, SwitchStackInv
  <2>2. CASE ProbeReady \/ Halt
    <3>1. UNCHANGED <<sti, thread_ready>> /\ kstack'[1] # "install"
      <4>1. UNCHANGED <<sti, thread_ready>> /\ (Goto("unlink") \/ Goto("halted"))
        BY <2>2 DEF ProbeReady, Halt, sched
      <4>2. QED
        BY <1>4, <4>1 DEF Goto
    <3>2. QED
      BY <1>4, <1>7, <2>1, <3>1
  <2>3. CASE Idle
    <3>1. At("probe") /\ thread_ready = <<>> /\ thread_ready' = <<>> /\ Goto("hlt")
      BY <2>3 DEF Idle
    <3>2. kstack[1] = "probe" /\ kstack'[1] = "hlt"
      BY <1>4, <3>1 DEF At, Top, Goto
    <3>3. running_thread \in Threads /\ upc[KernelThread] # "boot"
      BY <1>4, StackShape DEF IInv, TypeOK
    <3>4. Launched(running_thread)
      BY <3>2 DEF HInv, LaunchInv
    <3>5. running_thread \in thread_wait
      <4>1. running_thread \in Created /\ OffQueues = {}
        BY <1>4, <3>2, <3>4 DEF Launched, OffQueues
      <4>2. ToSet(thread_ready) = {}
        BY <3>1 DEF ToSet
      <4>3. QED
        BY <4>1, <4>2 DEF IInv, QueueDiscipline
    <3>6. Suspended(running_thread) /\ kernel_esp[running_thread].depth = 1
      BY <1>4, <3>3, <3>4, <3>5 DEF Suspended, HInv, WaitInv
    <3>7. Holds(running_thread, 1)
      BY <3>3, <3>6 DEF HInv, SavedInv
    <3>8. esp' = esp /\ kernel_esp' = kernel_esp /\ stack' = stack
      BY <1>1 DEF hardware
    <3>9. Holds(esp.stack, 1)'
      BY <1>2, <1>6, <3>7, <3>8 DEF Holds, Own
    <3>10. ToSet(thread_ready') = {}
      BY <3>1 DEF ToSet
    <3>11. Suspended(esp.stack)'
      BY <1>2, <1>5, <1>6, <3>3, <3>6, <3>8 DEF Suspended, Launched, Created
    <3>12. QED
      BY <1>4, <1>6, <3>2, <3>3, <3>6, <3>8, <3>9, <3>10, <3>11 DEF IdleInv
  <2>4. CASE UnlinkNext
    <3>1. /\ At("unlink") /\ thread_ready' = Unlink(thread_ready, next_thread)
          /\ Goto("install") /\ UNCHANGED <<sti, next_thread>>
      BY <2>4 DEF UnlinkNext
    <3>2. kstack[1] = "unlink" /\ kstack'[1] = "install"
      BY <1>4, <3>1 DEF At, Top, Goto
    <3>3. next_thread \in ToSet(thread_ready) /\ Distinct(thread_ready) /\ thread_ready \in Seq(Threads)
      BY <1>4, <3>2 DEF IInv, SwitchInv, QueueDiscipline, TypeOK
    <3>4. next_thread \in Threads
      BY <3>3 DEF ToSet
    <3>5. ToSet(thread_ready') \subseteq ToSet(thread_ready)
      BY <3>1, <3>3, <3>4, UnlinkToSet
    <3>6. \A t \in ToSet(thread_ready) : t \in Threads
      BY <3>3 DEF ToSet
    <3>7. SUFFICES ASSUME sti
                   PROVE  IdleInv'
      BY <3>1
    <3>8. IdleInv
      BY <2>1, <3>7
    <3>9. \A t \in ToSet(thread_ready') : Launched(t)' /\ kernel_esp'[t].depth = 1
      BY <1>1, <1>5, <3>5, <3>6, <3>8 DEF IdleInv, hardware
    <3>10. Launched(next_thread)' /\ kernel_esp'[next_thread'].depth = 1
      BY <1>1, <1>2, <3>1, <3>3, <3>8 DEF IdleInv, hardware, Launched, Created
    <3>11. esp' = esp /\ kernel_esp' = kernel_esp /\ stack' = stack
      BY <1>1 DEF hardware
    <3>12. Holds(esp.stack, 1)' /\ Suspended(esp.stack)'
      BY <1>2, <1>4, <3>8, <3>11 DEF IdleInv, Holds, Own, Suspended, Launched, Created
    <3>13. QED
      BY <1>4, <3>2, <3>8, <3>9, <3>10, <3>11, <3>12 DEF IdleInv
  <2>5. QED
    BY <1>1, <2>2, <2>3, <2>4
<1>9. SwitchStackInv'
  BY <1>5, <1>8 DEF SwitchStackInv
<1>10. ServiceInv'
  BY <1>1, <1>4 DEF HInv, ServiceInv, hardware, SwitchPC
<1>11. QED
  BY <1>5, <1>9, <1>10 DEF HInv

\* dispatch saves the stack pointer of the thread that was running, which
\* finds its context.
LEMMA SaveContextStep ==
    ASSUME IInv, IInv', FlagsMatchQueues, HInv, SaveContext
    PROVE  HInv'
<1> DEFINE r == running_thread
<1>1. /\ At("dispatch") /\ k_reenter = 0 /\ Goto("probe")
      /\ thread_flags' = [thread_flags EXCEPT ![r] = @ \ {"TS_RUN"}]
      /\ UNCHANGED <<running_thread, thread_wait, upc, sti>>
  BY DEF SaveContext, BeginSwitch, SwitchDue, user
<1>2. UNCHANGED <<stack, esp, esp0, context, leaving, in_service>>
  BY DEF SaveContext
<1>3. /\ kstack # <<>> /\ kstack' # <<>> /\ Len(kstack) = 1 /\ Len(kstack') = 1
      /\ kstack[1] = "dispatch" /\ kstack'[1] = "probe"
  BY <1>1, StackShape, GotoShape DEF KernelPC, SwitchPC
<1>4. /\ thread_flags \in [Threads -> SUBSET ThreadFlags] /\ r \in Threads
      /\ thread_wait \subseteq Threads
  BY DEF IInv, TypeOK
<1>5. ~ sti /\ ~ leaving
  BY <1>3 DEF IInv, NestingInv, HInv, RunningInv, SwitchPC
<1>6. /\ esp \in Pointer /\ kernel_esp \in [Threads -> Pointer]
      /\ esp.stack = r /\ Holds(r, esp.depth) /\ Launched(r)
      /\ r \in thread_wait => esp.depth = 1
  BY <1>3 DEF HInv, HardwareType, RunningInv, LaunchInv, HandlerPC
<1>7. kernel_esp' = [kernel_esp EXCEPT ![r] = esp]
  <2>1. "TS_RUN" \in thread_flags[r]
    BY <1>3, <1>4 DEF FlagsMatchQueues
  <2>2. QED
    BY <2>1 DEF SaveContext
<1>8. kernel_esp'[r] = esp /\ \A t \in Threads : t # r => kernel_esp'[t] = kernel_esp[t]
  BY <1>4, <1>6, <1>7
<1>9. \A t \in Threads : Launched(t)' <=> Launched(t)
  BY <1>1, <1>4 DEF Launched, Created
<1>10. \A t \in Threads : Suspended(t)' => Suspended(t) \/ t = r
  BY <1>1, <1>9 DEF Suspended
<1>11. HardwareType'
  <2>1. kernel_esp' \in [Threads -> Pointer]
    BY <1>4, <1>6, <1>7
  <2>2. QED
    BY <1>1, <1>2, <2>1 DEF HInv, HardwareType, Context, Pointer, Stacks, At0
<1>12. SavedInv'
  <2>1. ASSUME NEW t \in Threads, Suspended(t)'
        PROVE  (kernel_esp[t].stack = t /\ Holds(t, kernel_esp[t].depth))'
    <3>1. CASE t = r
      BY <1>1, <1>2, <1>6, <1>8, <3>1 DEF Holds, Own
    <3>2. CASE t # r
      <4>1. kernel_esp[t].stack = t /\ Holds(t, kernel_esp[t].depth)
        BY <1>10, <2>1, <3>2 DEF HInv, SavedInv
      <4>2. QED
        BY <1>1, <1>2, <1>8, <3>2, <4>1 DEF Holds, Own
    <3>3. QED
      BY <3>1, <3>2
  <2>2. QED
    BY <2>1 DEF SavedInv
<1>13. LaunchInv'
  <2>1. Launched(KernelThread)' /\ Launched(r)'
    BY <1>1, <1>4, <1>6, <1>9 DEF HInv, LaunchInv, Launched, Created
  <2>2. QED
    BY <1>1, <1>2, <2>1 DEF HInv, LaunchInv, Launched, Created
<1>14. WaitInv'
  <2>1. ASSUME NEW t \in thread_wait'
        PROVE  Launched(t)' /\ (Suspended(t)' => kernel_esp'[t].depth = 1)
    <3>1. t \in Threads /\ t \in thread_wait
      BY <1>1, <1>4, <2>1
    <3>2. CASE t = r
      BY <1>6, <1>8, <1>9, <3>1, <3>2
    <3>3. CASE t # r
      BY <1>8, <1>9, <1>10, <3>1, <3>3 DEF HInv, WaitInv
    <3>4. QED
      BY <3>2, <3>3
  <2>2. QED
    BY <2>1 DEF WaitInv
<1>15. RunningInv'
  BY <1>2, <1>3, <1>5 DEF RunningInv, InRing3, HandlerPC
<1>16. SwitchStackInv'
  BY <1>1, <1>2, <1>3, <1>5, <1>6, <1>8 DEF SwitchStackInv
<1>17. ServiceInv' /\ StacksBounded'
  BY <1>2, <1>3 DEF HInv, ServiceInv, StacksBounded
<1>18. QED
  BY <1>11, <1>12, <1>13, <1>14, <1>15, <1>16, <1>17 DEF HInv

LEMMA InstallStep ==
    ASSUME IInv, IInv', HInv, Install
    PROVE  HInv'
<1> DEFINE n == next_thread
<1>1. /\ At("install") /\ Goto("exit") /\ running_thread' = n
      /\ thread_flags' = [thread_flags EXCEPT ![n] = @ \cup {"TS_RUN"}]
      /\ UNCHANGED <<thread_wait, thread_ready, upc, sti, k_reenter>>
      /\ esp0' = At0(n)
      /\ UNCHANGED <<stack, esp, kernel_esp, context, leaving, in_service>>
  BY DEF Install, InstallNext, KernelStack, user
<1>2. /\ kstack # <<>> /\ kstack' # <<>> /\ Len(kstack) = 1 /\ Len(kstack') = 1
      /\ kstack[1] = "install" /\ kstack'[1] = "exit"
  BY <1>1, SwitchGoto DEF SwitchPC
<1>3. /\ thread_flags \in [Threads -> SUBSET ThreadFlags] /\ n \in Threads
      /\ thread_wait \subseteq Threads
      /\ thread_ready \in Seq(Threads)
  BY <1>2 DEF IInv, TypeOK, SwitchInv
<1>4. ~ leaving
  BY <1>2 DEF HInv, RunningInv
<1>5. \A t \in Threads : Launched(t)' <=> Launched(t)
  BY <1>1, <1>3 DEF Launched, Created
<1>6. \A t \in Threads : Suspended(t)' <=> Suspended(t)
  BY <1>2, <1>5 DEF Suspended, SwitchPC
<1>7. HardwareType'
  BY <1>1 DEF HInv, HardwareType, Context, Pointer, Stacks, At0
<1>8. SavedInv'
  BY <1>1, <1>6, SavedKept DEF HInv
<1>9. LaunchInv'
  <2>1. Launched(KernelThread)'
    BY <1>5 DEF HInv, LaunchInv
  <2>2. QED
    BY <1>1, <1>2, <2>1 DEF HInv, LaunchInv, Launched, Created
<1>10. WaitInv'
  <2>1. \A t \in thread_wait' : t \in Threads
    BY <1>1, <1>3
  <2>2. QED
    BY <1>1, <1>5, <1>6, <2>1 DEF HInv, WaitInv
<1>11. RunningInv'
  BY <1>1, <1>2, <1>4 DEF RunningInv, InRing3, HandlerPC
<1>12. SwitchStackInv'
  <2>1. ASSUME sti
        PROVE  IdleInv'
    <3>1. IdleInv
      BY <1>2, <2>1 DEF HInv, SwitchStackInv, SwitchPC
    <3>2. Launched(n) /\ kernel_esp[n].depth = 1
      BY <1>2, <3>1 DEF IdleInv
    <3>3. Launched(running_thread)' /\ kernel_esp'[running_thread'].depth = 1
      BY <1>1, <1>3, <3>2 DEF Launched, Created
    <3>4. Holds(esp.stack, 1)'
      BY <1>1, <3>1 DEF IdleInv, Holds, Own
    <3>5. /\ esp'.stack \in Threads /\ kernel_esp'[esp'.stack].depth = 1
          /\ esp'.depth = Len(kstack')
      BY <1>1, <1>2, <3>1 DEF IdleInv
    <3>6. Suspended(esp.stack)'
      <4>1. Launched(esp.stack)
        BY <3>1 DEF IdleInv, Suspended
      <4>2. Launched(esp.stack)'
        BY <1>1, <1>3, <3>5, <4>1 DEF Launched, Created
      <4>3. QED
        BY <1>2, <4>2 DEF Suspended, SwitchPC
    <3>7. \A t \in ToSet(thread_ready') : Launched(t)' /\ kernel_esp'[t].depth = 1
      <4>1. \A t \in ToSet(thread_ready) : t \in Threads
        BY <1>3 DEF ToSet
      <4>2. QED
        BY <1>1, <1>5, <3>1, <4>1 DEF IdleInv
    <3>8. QED
      BY <1>2, <3>3, <3>4, <3>5, <3>6, <3>7 DEF IdleInv
  <2>2. QED
    BY <1>1, <1>2, <2>1 DEF SwitchStackInv, BeforeExit
<1>13. ServiceInv' /\ StacksBounded'
  BY <1>1, <1>2 DEF HInv, ServiceInv, StacksBounded
<1>14. QED
  BY <1>7, <1>8, <1>9, <1>10, <1>11, <1>12, <1>13 DEF HInv

\* The stack pointer of the thread that was installed is loaded.
LEMMA LoadStackStep ==
    ASSUME IInv, HInv, LoadStack
    PROVE  HInv'
<1> DEFINE r == running_thread
<1>1. /\ At("exit") /\ UNCHANGED vars /\ esp' = kernel_esp[r]
      /\ UNCHANGED <<stack, kernel_esp, esp0, context, leaving, in_service>>
  BY DEF LoadStack
<1>2. /\ UNCHANGED <<running_thread, thread_wait, thread_ready, thread_flags, upc, sti, kstack>>
      /\ UNCHANGED next_thread
  BY <1>1 DEF vars, sched, desc, user
<1>3. kstack # <<>> /\ Len(kstack) = 1 /\ kstack[1] = "exit"
  BY <1>1, SwitchAtTheBottom DEF SwitchPC
<1>4. r \in Threads /\ ~ leaving
  BY <1>3 DEF IInv, TypeOK, HInv, RunningInv
<1>5. HardwareType'
  BY <1>1, <1>2, <1>4 DEF HInv, HardwareType, Context, Pointer, Stacks, At0
<1>6. \A t \in Threads : (Launched(t)' <=> Launched(t)) /\ (Suspended(t)' <=> Suspended(t))
  BY <1>2 DEF Suspended, Launched, Created
<1>7. SavedInv'
  BY <1>1, <1>2, <1>6, SavedKept DEF HInv
<1>8. LaunchInv'
  BY <1>1, <1>2 DEF HInv, LaunchInv, Launched, Created
<1>9. WaitInv'
  <2>1. \A t \in thread_wait : t \in Threads
    BY DEF IInv, TypeOK
  <2>2. QED
    BY <1>1, <1>2, <1>6, <2>1 DEF HInv, WaitInv
<1>10. RunningInv'
  BY <1>1, <1>2, <1>3, <1>4 DEF RunningInv, InRing3, HandlerPC
<1>11. SwitchStackInv'
  <2>1. ASSUME sti
        PROVE  IdleInv'
    <3>1. IdleInv
      BY <1>3, <2>1 DEF HInv, SwitchStackInv, SwitchPC
    <3>2. Launched(r) /\ kernel_esp[r].depth = 1
      BY <1>3, <3>1 DEF IdleInv
    <3>3. Suspended(r)
      BY <1>3, <3>2 DEF Suspended, SwitchPC
    <3>4. kernel_esp[r].stack = r /\ Holds(r, 1)
      BY <1>4, <3>2, <3>3 DEF HInv, SavedInv
    <3>5. esp'.stack = r /\ esp'.depth = 1
      BY <1>1, <3>2, <3>4
    <3>6. Holds(esp.stack, 1)' /\ Suspended(esp.stack)'
      BY <1>1, <1>2, <3>3, <3>4, <3>5 DEF Holds, Own, Suspended, Launched, Created
    <3>7. \A t \in ToSet(thread_ready') : Launched(t)' /\ kernel_esp'[t].depth = 1
      BY <1>1, <1>2, <3>1 DEF IdleInv, Launched, Created
    <3>8. Launched(running_thread)' /\ kernel_esp'[running_thread'].depth = 1
      BY <1>1, <1>2, <3>2 DEF Launched, Created
    <3>9. QED
      BY <1>1, <1>2, <1>3, <1>4, <3>2, <3>5, <3>6, <3>7, <3>8 DEF IdleInv
  <2>2. QED
    BY <1>2, <1>3, <2>1 DEF SwitchStackInv, BeforeExit
<1>12. ServiceInv' /\ StacksBounded'
  BY <1>1, <1>2 DEF HInv, ServiceInv, StacksBounded
<1>13. QED
  BY <1>5, <1>7, <1>8, <1>9, <1>10, <1>11, <1>12 DEF HInv

\* The kernel counts as left; what is above the context of the thread in
\* ring 3 is of no interest any more.
LEMMA LeftKernel ==
    ASSUME IInv', HInv, HardwareType', kstack' = <<>>,
           UNCHANGED <<running_thread, thread_wait, upc, kernel_esp>>,
           \A t \in Threads : t # running_thread =>
               (Launched(t)' <=> Launched(t)) /\ stack'[t] = stack[t],
           stack'[AddressEnd] = <<>>,
           \A s \in Stacks : Len(stack'[s]) <= 2,
           Launched(running_thread)',
           in_service' = {},
           leaving' => /\ upc[KernelThread] # "boot"
                       /\ esp'.stack = running_thread
                       /\ esp'.depth = 1
                       /\ Len(stack'[running_thread]) >= 1
                       /\ stack'[running_thread][1] = Own(running_thread),
           ~ leaving' => context' = Own(running_thread)
    PROVE  HInv'
<1>1. running_thread \in Threads
  BY DEF IInv, TypeOK
<1>2. Own(running_thread)' = Own(running_thread)
  BY DEF Own
<1>3. \A t \in Threads : Suspended(t)' =>
          t # running_thread /\ Suspended(t) /\ upc'[t] = upc[t] /\ stack'[t] = stack[t]
  BY DEF Suspended
<1>4. SavedInv'
  BY <1>3, SavedKept DEF HInv
<1>5. LaunchInv'
  <2>1. Launched(KernelThread)'
    <3>1. CASE KernelThread = running_thread
      BY <3>1 DEF Launched, Created
    <3>2. CASE KernelThread # running_thread
      BY <3>2 DEF HInv, LaunchInv
    <3>3. QED
      BY <3>1, <3>2
  <2>2. QED
    BY <2>1 DEF LaunchInv, Launched, Created
<1>6. WaitInv'
  <2>1. running_thread \notin thread_wait'
    BY DEF IInv, QueueDiscipline, OffQueues
  <2>2. \A t \in thread_wait' : t \in Threads
    BY DEF IInv, TypeOK
  <2>3. QED
    BY <1>3, <2>1, <2>2 DEF HInv, WaitInv
<1>7. RunningInv'
  BY <1>2 DEF RunningInv, InRing3, Holds
<1>8. SwitchStackInv' /\ ServiceInv'
  BY DEF SwitchStackInv, ServiceInv
<1>9. StacksBounded'
  BY DEF StacksBounded, Stacks
<1>10. QED
  BY <1>4, <1>5, <1>6, <1>7, <1>8, <1>9 DEF HInv

\* The iret takes the innermost context off the stack: the program's, or that
\* of a return from the kernel that was interrupted.
LEMMA PopToThread ==
    ASSUME IInv, IInv', HInv, kstack' = <<>>, upc[KernelThread] # "boot",
           UNCHANGED <<running_thread, thread_wait, upc, kernel_esp, esp0>>,
           \A t \in Threads : t # running_thread => (Launched(t)' <=> Launched(t)),
           Launched(running_thread)',
           in_service' = {},
           esp.stack = running_thread,
           Holds(running_thread, esp.depth),
           PopContext(esp)
    PROVE  HInv'
<1> DEFINE r == running_thread
           d == esp.depth
<1>1. /\ HardwareType /\ esp \in Pointer /\ d \in {1, 2} /\ d <= Len(stack[r])
      /\ kernel_esp \in [Threads -> Pointer]
  BY DEF HInv, HardwareType, Holds
<1>2. /\ r \in Threads /\ r # AddressEnd /\ upc[r] \in UserPC
  BY DEF IInv, TypeOK
<1>3. /\ stack' \in [Stacks -> Seq(Context)]
      /\ Len(stack'[r]) = d - 1
      /\ \A i \in 1 .. d - 1 : stack'[r][i] = stack[r][i]
      /\ \A s \in Stacks \ {r} : stack'[s] = stack[s]
      /\ esp' \in Pointer
      /\ esp'.stack = r
      /\ esp'.depth = d - 1
      /\ stack[r][d] \in Context
      /\ context' = IF stack[r][d].pc \in UserPC THEN stack[r][d] ELSE Nowhere
      /\ leaving' = (stack[r][d].pc = "leaving")
  BY <1>1, Pop, SMTT(60)
<1>4. /\ stack[r][1] = Own(r)
      /\ d = 2 => stack[r][2].pc = "leaving"
      /\ Own(r).pc \in UserPC /\ Own(r).pc # "leaving"
  <2>1. d = 2 => stack[r][2] = [who |-> r, pc |-> "leaving"]
    BY DEF Holds
  <2>2. stack[r][1] = Own(r)
    BY DEF Holds
  <2>3. Own(r).pc = upc[r]
    BY DEF Own
  <2>4. QED
    BY <1>2, <2>1, <2>2, <2>3 DEF UserPC, ForbidPC
<1>5. context' \in Context /\ leaving' \in BOOLEAN
  BY <1>3 DEF Context, Nowhere
<1>6. HardwareType'
  <2>1. esp0' = At0(running_thread')
    BY <1>1 DEF HardwareType, At0
  <2>2. QED
    BY <1>1, <1>3, <1>5, <2>1 DEF HardwareType, Context, Pointer, Stacks
<1>7. \A t \in Threads : t # r => stack'[t] = stack[t]
  BY <1>3 DEF Stacks
<1>8. stack'[AddressEnd] = <<>>
  BY <1>2, <1>3 DEF HInv, LaunchInv, Stacks
<1>9. \A s \in Stacks : Len(stack'[s]) <= 2
  <2>1. \A s \in Stacks : Len(stack[s]) <= 2
    BY DEF HInv, StacksBounded
  <2>2. SUFFICES ASSUME NEW s \in Stacks
                 PROVE  Len(stack'[s]) <= 2
    OBVIOUS
  <2>3. CASE s = r
    <3>1. Len(stack'[s]) = d - 1
      BY <1>3, <2>3
    <3>2. QED
      BY <1>1, <3>1
  <2>4. CASE s # r
    BY <1>3, <2>1, <2>4
  <2>5. QED
    BY <2>3, <2>4
<1>10. CASE d = 1
  <2>1. stack[r][d] = Own(r)
    BY <1>4, <1>10
  <2>2. context' = Own(r) /\ leaving' = FALSE
    BY <1>3, <1>4, <2>1
  <2>3. QED
    BY <1>6, <1>7, <1>8, <1>9, <2>2, LeftKernel
<1>11. CASE d = 2
  <2>1. stack[r][d].pc = "leaving"
    BY <1>4, <1>11
  <2>2. leaving' = TRUE /\ esp'.depth = 1 /\ Len(stack'[r]) = 1 /\ stack'[r][1] = Own(r)
    <3>1. leaving'
      BY <1>3, <2>1
    <3>2. d - 1 = 1 /\ 1 \in 1 .. d - 1
      BY <1>11
    <3>3. esp'.depth = 1 /\ Len(stack'[r]) = 1
      BY <1>3, <3>2
    <3>4. stack'[r][1] = stack[r][1]
      BY <1>3, <3>2
    <3>5. QED
      BY <1>4, <1>5, <3>1, <3>3, <3>4
  <2>3. Len(stack'[r]) >= 1
    BY <2>2
  <2>4. QED
    BY <1>3, <1>6, <1>7, <1>8, <1>9, <2>2, <2>3, LeftKernel
<1>12. QED
  BY <1>1, <1>10, <1>11

\* The way back to an idle switch.
LEMMA ReturnToSwitch ==
    ASSUME IInv, IInv', HInv, Return, Len(kstack) = 2
    PROVE  HInv'
<1> DEFINE r == running_thread
           e == esp.stack
<1>1. /\ At("dispatch") /\ LeaveKernel /\ PopContext(esp)
      /\ UNCHANGED <<running_thread, thread_wait, thread_ready, thread_flags, upc, sti, next_thread>>
      /\ UNCHANGED <<kernel_esp, esp0, in_service>>
  BY DEF Return, NoSwitch, sched, desc, user
<1>2. /\ kstack # <<>> /\ kstack[2] = "dispatch" /\ kstack[1] \in SwitchPC /\ sti
      /\ kstack' # <<>> /\ Len(kstack') = 1 /\ kstack'[1] = kstack[1]
  BY <1>1, StackShape, LeaveShape DEF At, Top
<1>3. IdleInv
  BY <1>2 DEF HInv, SwitchStackInv
<1>4. /\ e \in Threads /\ e \in Stacks /\ e # AddressEnd /\ Suspended(e)
      /\ kernel_esp[e].depth = 1 /\ esp.depth = 2 /\ Len(stack[e]) = 2
      /\ stack[e][1] = Own(e)
      /\ stack[e][2] = [who |-> r, pc |-> kstack[1]]
  BY <1>3 DEF IdleInv, Holds, Stacks
<1>5. /\ HardwareType /\ esp \in Pointer /\ r \in Threads
  BY DEF HInv, HardwareType, IInv, TypeOK
<1>6. /\ stack' \in [Stacks -> Seq(Context)]
      /\ Len(stack'[e]) = 2 - 1
      /\ \A i \in 1 .. 2 - 1 : stack'[e][i] = stack[e][i]
      /\ \A s \in Stacks \ {e} : stack'[s] = stack[s]
      /\ esp' \in Pointer
      /\ esp'.stack = e
      /\ esp'.depth = 2 - 1
      /\ context' = IF stack[e][2].pc \in UserPC THEN stack[e][2] ELSE Nowhere
      /\ leaving' = (stack[e][2].pc = "leaving")
  <2>1. 1 <= esp.depth /\ esp.depth <= Len(stack[esp.stack])
    BY <1>4
  <2> HIDE DEF e
  <2>2. /\ stack' \in [Stacks -> Seq(Context)]
        /\ Len(stack'[esp.stack]) = esp.depth - 1
        /\ \A i \in 1 .. esp.depth - 1 : stack'[esp.stack][i] = stack[esp.stack][i]
        /\ \A s \in Stacks \ {esp.stack} : stack'[s] = stack[s]
        /\ esp' \in Pointer
        /\ esp'.stack = esp.stack
        /\ esp'.depth = esp.depth - 1
        /\ context' = IF stack[esp.stack][esp.depth].pc \in UserPC
                      THEN stack[esp.stack][esp.depth] ELSE Nowhere
        /\ leaving' = (stack[esp.stack][esp.depth].pc = "leaving")
    BY <1>1, <1>5, <2>1, Pop
  <2>3. e = esp.stack
    BY DEF e
  <2>4. QED
    BY <1>4, <2>2, <2>3
<1>7. Len(stack'[e]) = 1 /\ esp'.depth = 1 /\ stack'[e][1] = Own(e)
  BY <1>4, <1>6
<1>8. context' = Nowhere /\ leaving' = FALSE
  <2>1. stack[e][2].pc = kstack[1]
    BY <1>4
  <2>2. kstack[1] \notin UserPC /\ kstack[1] # "leaving"
    BY <1>2 DEF SwitchPC, UserPC, ForbidPC
  <2>3. QED
    BY <1>6, <2>1, <2>2
<1>9. HardwareType'
  <2>1. context' \in Context
    BY <1>8 DEF Context, Nowhere
  <2>2. esp0' = At0(running_thread') /\ kernel_esp' \in [Threads -> Pointer]
    BY <1>1, <1>5 DEF HardwareType, At0
  <2>3. stack' \in [Stacks -> Seq(Context)] /\ esp' \in Pointer /\ leaving' \in BOOLEAN
    BY <1>6, <1>8
  <2>4. QED
    BY <2>1, <2>2, <2>3 DEF HardwareType, Context, Pointer, Stacks
<1>10. \A t \in Threads : (Launched(t)' <=> Launched(t)) /\ (Suspended(t)' <=> Suspended(t))
  BY <1>1, <1>2 DEF Suspended, Launched, Created
<1>11. Own(e)' = Own(e)
  BY <1>1, <1>6 DEF Own
<1>12. Holds(e, 1)' /\ Holds(esp.stack, 1)'
  BY <1>1, <1>6, <1>7 DEF Holds, Own
<1>13. SavedInv'
  <2>1. ASSUME NEW t \in Threads, Suspended(t)'
        PROVE  (kernel_esp[t].stack = t /\ Holds(t, kernel_esp[t].depth))'
    <3>1. kernel_esp[t].stack = t /\ Holds(t, kernel_esp[t].depth)
      BY <1>10, <2>1 DEF HInv, SavedInv
    <3>2. CASE t = e
      BY <1>1, <1>4, <1>7, <3>1, <3>2 DEF Holds, Own
    <3>3. CASE t # e
      <4>1. stack'[t] = stack[t] /\ Own(t)' = Own(t) /\ kernel_esp'[t] = kernel_esp[t]
        BY <1>1, <1>6, <3>3 DEF Stacks, Own
      <4>2. QED
        BY <3>1, <4>1 DEF Holds
    <3>4. QED
      BY <3>2, <3>3
  <2>2. QED
    BY <2>1 DEF SavedInv
<1>14. LaunchInv'
  BY <1>1, <1>2, <1>4, <1>6 DEF HInv, LaunchInv, Launched, Created, Stacks
<1>15. WaitInv'
  <2>1. \A t \in thread_wait : t \in Threads
    BY DEF IInv, TypeOK
  <2>2. QED
    BY <1>1, <1>10, <2>1 DEF HInv, WaitInv
<1>16. RunningInv'
  BY <1>2, <1>8 DEF RunningInv, InRing3, HandlerPC, SwitchPC
<1>17. IdleInv'
  <2>1. \A t \in ToSet(thread_ready) : t \in Threads
    <3>1. thread_ready \in Seq(Threads)
      BY DEF IInv, TypeOK
    <3>2. QED
      BY <3>1 DEF ToSet
  <2>2. \A t \in ToSet(thread_ready') : Launched(t)' /\ kernel_esp'[t].depth = 1
    BY <1>1, <1>3, <1>10, <2>1 DEF IdleInv
  <2>3. Suspended(esp.stack)'
    BY <1>1, <1>2, <1>4, <1>6 DEF Suspended, Launched, Created
  <2>4. kstack'[1] = "install" => Launched(next_thread)' /\ kernel_esp'[next_thread'].depth = 1
    BY <1>1, <1>2, <1>3 DEF IdleInv, Launched, Created
  <2>5. kstack'[1] = "exit" => Launched(running_thread)' /\ kernel_esp'[running_thread'].depth = 1
    BY <1>1, <1>2, <1>3 DEF IdleInv, Launched, Created
  <2>6. QED
    BY <1>1, <1>2, <1>4, <1>6, <1>7, <1>12, <2>2, <2>3, <2>4, <2>5 DEF IdleInv
<1>18. SwitchStackInv'
  <2>1. kstack'[1] \in BeforeExit =>
           /\ esp'.stack = running_thread'
           /\ esp'.depth = kernel_esp'[running_thread'].depth
    <3>1. kstack[1] \in BeforeExit => e = r
      BY <1>2 DEF HInv, SwitchStackInv
    <3>2. QED
      BY <1>1, <1>2, <1>4, <1>6, <1>7, <3>1
  <2>2. QED
    BY <1>17, <2>1 DEF SwitchStackInv
<1>19. ServiceInv'
  <2>1. in_service = {}
    BY <1>2 DEF HInv, ServiceInv
  <2>2. QED
    BY <1>1, <2>1 DEF ServiceInv
<1>20. StacksBounded'
  <2>1. SUFFICES ASSUME NEW s \in Stacks
                 PROVE  Len(stack'[s]) <= 2
    BY DEF StacksBounded, Stacks
  <2>2. CASE s = e
    <3>1. Len(stack'[s]) = 1
      BY <1>7, <2>2
    <3>2. QED
      BY <3>1
  <2>3. CASE s # e
    BY <1>6, <2>3 DEF HInv, StacksBounded
  <2>4. QED
    BY <2>2, <2>3
<1>21. QED
  BY <1>9, <1>13, <1>14, <1>15, <1>16, <1>18, <1>19, <1>20 DEF HInv

LEMMA ReturnStep ==
    ASSUME IInv, IInv', HInv, Return
    PROVE  HInv'
<1>1. /\ At("dispatch") /\ LeaveKernel /\ PopContext(esp)
      /\ UNCHANGED <<running_thread, thread_wait, thread_flags, upc>>
      /\ UNCHANGED <<kernel_esp, esp0, in_service>>
  BY DEF Return, NoSwitch, sched, desc, user
<1>2. CASE Len(kstack) = 1
  <2>1. /\ kstack # <<>> /\ kstack[1] = "dispatch" /\ kstack' = <<>>
        /\ upc[KernelThread] # "boot"
    BY <1>1, <1>2, StackShape, LeaveShape DEF At, Top
  <2>2. /\ esp.stack = running_thread /\ Holds(running_thread, esp.depth)
        /\ Launched(running_thread) /\ in_service = {}
    BY <1>2, <2>1 DEF HInv, RunningInv, HandlerPC, LaunchInv, ServiceInv
  <2>3. \A t \in Threads : Launched(t)' <=> Launched(t)
    BY <1>1 DEF Launched, Created
  <2>4. Launched(running_thread)'
    BY <1>1, <2>2 DEF Launched, Created
  <2>5. QED
    BY <1>1, <2>1, <2>2, <2>3, <2>4, PopToThread
<1>3. CASE Len(kstack) = 2
  BY <1>3, ReturnToSwitch
<1>4. QED
  BY <1>1, <1>2, <1>3, StackShape DEF At

\* The flags at the end of a switch.
LEMMA LeaveFlags ==
    ASSUME IInv, LeaveSwitch
    PROVE  /\ kstack # <<>> /\ Len(kstack) = 1 /\ kstack[1] = "exit" /\ kstack' = <<>>
           /\ upc[KernelThread] # "boot"
           /\ running_thread \in Created
           /\ UNCHANGED <<running_thread, thread_wait, upc>>
           /\ \A t \in Threads : t # running_thread => (Launched(t)' <=> Launched(t))
           /\ Launched(running_thread)'
<1>1. /\ At("exit") /\ LeaveKernel
      /\ thread_flags' = [thread_flags EXCEPT ![running_thread] =
                             IF "TB_LAUNCH" \in @ THEN @ \ {"TB_LAUNCH"}
                                                  ELSE @ \ {"TB_SIGNAL"}]
      /\ UNCHANGED <<running_thread, thread_wait, upc>>
  BY DEF LeaveSwitch, sched, user
<1>2. /\ kstack # <<>> /\ Len(kstack) = 1 /\ kstack[1] = "exit" /\ kstack' = <<>>
      /\ upc[KernelThread] # "boot"
  BY <1>1, SwitchAtTheBottom, LeaveShape, StackShape DEF SwitchPC
<1>3. thread_flags \in [Threads -> SUBSET ThreadFlags] /\ running_thread \in Threads
  BY DEF IInv, TypeOK
<1>4. running_thread \in Created
  <2>1. OffQueues = {running_thread}
    BY <1>2 DEF OffQueues
  <2>2. QED
    BY <2>1 DEF IInv, QueueDiscipline
<1>5. \A t \in Threads : t # running_thread => thread_flags'[t] = thread_flags[t]
  BY <1>1, <1>3
<1>6. "TB_LAUNCH" \notin thread_flags'[running_thread]
  BY <1>1, <1>3
<1>7. Launched(running_thread)'
  BY <1>1, <1>3, <1>4, <1>6 DEF Launched, Created
<1>8. \A t \in Threads : t # running_thread => (Launched(t)' <=> Launched(t))
  BY <1>1, <1>5 DEF Launched, Created
<1>9. QED
  BY <1>1, <1>2, <1>4, <1>7, <1>8

\* An idle switch never ends in a launch.
LEMMA IdleEndsInResume ==
    ASSUME IInv, HInv, LeaveSwitch
    PROVE  Launching => ~ sti
<1>1. kstack # <<>> /\ kstack[1] = "exit"
  BY LeaveFlags
<1>2. sti => Launched(running_thread)
  BY <1>1 DEF HInv, SwitchStackInv, SwitchPC, IdleInv
<1>3. QED
  BY <1>2 DEF Launching, Launched

\* The frame of a launch: nothing is below it on the thread's own stack yet.
LEMMA LaunchStep ==
    ASSUME IInv, IInv', HInv, Launch
    PROVE  HInv'
<1>1. LeaveSwitch /\ Launching /\ UNCHANGED <<kernel_esp, esp0, in_service>>
  BY DEF Launch
<1>2. ~ sti
  BY <1>1, IdleEndsInResume
<1>3. /\ context' = [who |-> running_thread, pc |-> upc[running_thread]]
      /\ UNCHANGED <<stack, esp, leaving>>
  BY <1>2 DEF Launch
<1>4. /\ kstack # <<>> /\ kstack[1] = "exit" /\ Len(kstack) = 1 /\ kstack' = <<>>
      /\ UNCHANGED <<running_thread, thread_wait, upc>>
      /\ \A t \in Threads : t # running_thread => (Launched(t)' <=> Launched(t))
      /\ Launched(running_thread)'
  BY <1>1, LeaveFlags
<1>5. ~ leaving /\ in_service = {}
  BY <1>4 DEF HInv, RunningInv, ServiceInv
<1>6. context' = Own(running_thread)
  BY <1>3 DEF Own
<1>7. HardwareType'
  <2>1. context' \in Context
    <3>1. running_thread \in Threads /\ upc[running_thread] \in UserPC
      BY DEF IInv, TypeOK
    <3>2. QED
      BY <1>3, <3>1 DEF Context
  <2>2. QED
    BY <1>1, <1>3, <1>4, <2>1 DEF HInv, HardwareType, Context, Pointer, Stacks, At0
<1>8. stack'[AddressEnd] = <<>> /\ \A s \in Stacks : Len(stack'[s]) <= 2
  BY <1>3 DEF HInv, LaunchInv, StacksBounded
<1>9. QED
  BY <1>1, <1>3, <1>4, <1>5, <1>6, <1>7, <1>8, LeftKernel

\* A thread that is resumed finds its context through its saved stack pointer.
LEMMA ResumeStep ==
    ASSUME IInv, IInv', HInv, Resume
    PROVE  HInv'
<1> DEFINE r == running_thread
<1>1. /\ LeaveSwitch /\ ~ Launching /\ esp = kernel_esp[r]
      /\ UNCHANGED <<kernel_esp, esp0, in_service>>
  BY DEF Resume, StackLoaded
<1>2. /\ kstack # <<>> /\ kstack[1] = "exit" /\ Len(kstack) = 1 /\ kstack' = <<>>
      /\ upc[KernelThread] # "boot" /\ r \in Created
      /\ UNCHANGED <<running_thread, thread_wait, upc>>
      /\ \A t \in Threads : t # r => (Launched(t)' <=> Launched(t))
      /\ Launched(running_thread)'
  BY <1>1, LeaveFlags
<1>3. in_service = {} /\ in_service' = {}
  BY <1>1, <1>2 DEF HInv, ServiceInv
<1>4. r \in Threads /\ Suspended(r)
  BY <1>1, <1>2 DEF IInv, TypeOK, Launching, Launched, Suspended, SwitchPC
<1>5. esp.stack = r /\ Holds(r, esp.depth)
  BY <1>1, <1>4 DEF HInv, SavedInv
<1>6. CASE sti
  <2>1. leaving' = TRUE /\ UNCHANGED <<stack, esp, context>>
    BY <1>6 DEF Resume
  <2>2. esp.depth = 1
    BY <1>1, <1>2, <1>6 DEF HInv, SwitchStackInv, SwitchPC, IdleInv
  <2>3. Len(stack[r]) >= 1 /\ stack[r][1] = Own(r)
    BY <1>5, <2>2 DEF Holds
  <2>4. HardwareType'
    BY <1>1, <1>2, <2>1 DEF HInv, HardwareType, Context, Pointer, Stacks, At0
  <2>5. stack'[AddressEnd] = <<>> /\ \A s \in Stacks : Len(stack'[s]) <= 2
    BY <2>1 DEF HInv, LaunchInv, StacksBounded
  <2>6. \A t \in Threads : t # r => (Launched(t)' <=> Launched(t)) /\ stack'[t] = stack[t]
    BY <1>2, <2>1
  <2>7. /\ esp'.stack = r /\ esp'.depth = 1 /\ Len(stack'[r]) >= 1 /\ stack'[r][1] = Own(r)
    BY <1>5, <2>1, <2>2, <2>3
  <2>8. QED
    BY <1>1, <1>2, <1>3, <2>1, <2>4, <2>5, <2>6, <2>7, LeftKernel
<1>7. CASE ~ sti
  <2>1. PopContext(esp)
    BY <1>7 DEF Resume
  <2>2. QED
    BY <1>1, <1>2, <1>3, <1>5, <2>1, PopToThread
<1>8. QED
  BY <1>6, <1>7

\* The return from the kernel that an idle switch left the interrupts on for.
LEMMA IretStep ==
    ASSUME IInv, IInv', HInv, Iret
    PROVE  HInv'
<1>1. /\ kstack = <<>> /\ leaving /\ PopContext(esp)
      /\ UNCHANGED <<kstack, running_thread, thread_wait, thread_flags, upc>>
      /\ UNCHANGED <<kernel_esp, esp0, in_service>>
  BY DEF Iret, vars, sched, desc, user
<1>2. /\ upc[KernelThread] # "boot" /\ esp.stack = running_thread /\ esp.depth = 1
      /\ Holds(running_thread, 1) /\ Launched(running_thread) /\ in_service = {}
  BY <1>1 DEF HInv, RunningInv, LaunchInv, ServiceInv
<1>3. \A t \in Threads : Launched(t)' <=> Launched(t)
  BY <1>1 DEF Launched, Created
<1>4. Launched(running_thread)'
  BY <1>1, <1>2 DEF Launched, Created
<1>5. Holds(running_thread, esp.depth)
  BY <1>2
<1>6. QED
  BY <1>1, <1>2, <1>3, <1>4, <1>5, PopToThread

LEMMA StutterStep ==
    ASSUME IInv, HInv, UNCHANGED <<vars, hardware>>
    PROVE  HInv'
<1>1. /\ UNCHANGED <<kstack, sti, next_thread, running_thread, thread_ready, thread_wait,
                     thread_flags, upc>>
      /\ UNCHANGED <<stack, esp, kernel_esp, esp0, context, leaving, in_service>>
  BY DEF vars, sched, desc, user, hardware
<1>2. HardwareType'
  BY <1>1 DEF HInv, HardwareType, Context, Pointer, Stacks, At0
<1>3. \A t \in Threads : (Launched(t)' <=> Launched(t)) /\ (Suspended(t)' <=> Suspended(t))
  BY <1>1 DEF Suspended, Launched, Created
<1>4. SavedInv'
  BY <1>1, <1>3, SavedKept DEF HInv
<1>5. LaunchInv'
  BY <1>1 DEF HInv, LaunchInv, Launched, Created
<1>6. WaitInv'
  <2>1. \A t \in thread_wait : t \in Threads
    BY DEF IInv, TypeOK
  <2>2. QED
    BY <1>1, <1>3, <2>1 DEF HInv, WaitInv
<1>7. RunningInv'
  BY <1>1 DEF HInv, RunningInv, InRing3, Holds, Own
<1>8. SwitchStackInv'
  BY <1>1 DEF HInv, SwitchStackInv, IdleInv, Holds, Own, Suspended, Launched, Created
<1>9. ServiceInv' /\ StacksBounded'
  BY <1>1 DEF HInv, ServiceInv, StacksBounded
<1>10. QED
  BY <1>2, <1>4, <1>5, <1>6, <1>7, <1>8, <1>9 DEF HInv

LEMMA InitHInv == Init /\ HardwareInit => HInv
<1>1. SUFFICES ASSUME Init, HardwareInit
               PROVE  HInv
  OBVIOUS
<1>2. /\ running_thread = KernelThread /\ kstack = <<>> /\ ~ sti /\ thread_wait = {}
      /\ upc = [t \in Threads |-> IF t = KernelThread THEN "boot" ELSE "uncreated"]
      /\ thread_flags = [t \in Threads |-> IF t = KernelThread THEN {"TS_RUN"} ELSE {}]
  BY <1>1 DEF Init
<1>3. KernelThread \in Threads /\ KernelThread \in Stacks
  BY DEF Stacks
<1>4. /\ stack = [s \in Stacks |-> <<>>] /\ esp = At0(KernelThread)
      /\ esp0 = At0(KernelThread) /\ context = Nowhere /\ leaving = FALSE
      /\ in_service = {}
  BY <1>1 DEF HardwareInit
<1>5. \A s \in Stacks : At0(s) \in Pointer
  BY DEF At0, Pointer
<1>6. kernel_esp \in [Threads -> Pointer]
  <2>1. PICK garbage \in Stacks :
           kernel_esp = [t \in Threads |-> At0(IF t = KernelThread THEN garbage ELSE AddressEnd)]
    BY <1>1 DEF HardwareInit
  <2>2. \A t \in Threads : (IF t = KernelThread THEN garbage ELSE AddressEnd) \in Stacks
    BY DEF Stacks
  <2>3. QED
    BY <1>5, <2>1, <2>2
<1>7. HardwareType
  <2>1. stack \in [Stacks -> Seq(Context)]
    BY <1>4
  <2>2. context \in Context
    BY <1>4 DEF Context, Nowhere
  <2>3. QED
    BY <1>2, <1>3, <1>4, <1>5, <1>6, <2>1, <2>2 DEF HardwareType
<1>8. \A t \in Threads : Launched(t) <=> t = KernelThread
  BY <1>2, <1>3 DEF Launched, Created
<1>9. \A t \in Threads : ~ Suspended(t)
  BY <1>2, <1>8 DEF Suspended
<1>10. SavedInv /\ WaitInv
  BY <1>2, <1>9 DEF SavedInv, WaitInv
<1>11. LaunchInv
  BY <1>2, <1>3, <1>4, <1>8 DEF LaunchInv, Stacks
<1>12. RunningInv
  BY <1>2, <1>3, <1>4 DEF RunningInv, InRing3
<1>13. SwitchStackInv /\ ServiceInv
  BY <1>2, <1>4 DEF SwitchStackInv, ServiceInv
<1>14. StacksBounded
  <2>1. \A s \in Stacks : Len(stack[s]) = 0
    BY <1>4
  <2>2. QED
    BY <2>1 DEF StacksBounded
<1>15. QED
  BY <1>7, <1>10, <1>11, <1>12, <1>13, <1>14 DEF HInv

LEMMA HardwareInductive ==
    IInv /\ IInv' /\ FlagsMatchQueues /\ HInv /\ [DispatchNext]_<<vars, hardware>> => HInv'
  BY EntryStep, ComputeStep, CreateStep, EnterRing3Step, HandledStep, ReturnStep,
     SaveContextStep, SwitchingStep, InstallStep, LoadStackStep, LaunchStep, ResumeStep,
     IretStep, StutterStep DEF DispatchNext

\* Without the hardware, the steps are the kernel's.
LEMMA KernelSteps == [DispatchNext]_<<vars, hardware>> => [Next]_vars
<1>1. SUFFICES ASSUME [DispatchNext]_<<vars, hardware>>
               PROVE  [Next]_vars
  OBVIOUS
<1>2. CASE Tick \/ Key \/ Create \/ EnterRing3
  BY <1>2 DEF Tick, Key, Create, EnterRing3, Next
<1>3. CASE Call \/ Compute
  BY <1>3 DEF Call, Compute, Next, PrintStep
<1>4. CASE Handled \/ Return \/ SaveContext \/ Switching \/ Install \/ Launch \/ Resume
  BY <1>4 DEF Handled, Return, SaveContext, Switching, Install, Launch, Resume, Next, KernelStep
<1>5. CASE LoadStack \/ Iret \/ UNCHANGED <<vars, hardware>>
  BY <1>5 DEF LoadStack, Iret
<1>6. QED
  BY <1>1, <1>2, <1>3, <1>4, <1>5 DEF DispatchNext

LEMMA KernelBehaviour == DispatchSpec => Spec
  BY KernelSteps, PTL DEF DispatchSpec, Spec

\* The inductive invariant holds in every state, beside the one of the kernel.
THEOREM HardwareInvariance == DispatchSpec => [](IInv /\ HInv)
<1>1. Init /\ HardwareInit => HInv
  BY InitHInv
<1>2. IInv /\ IInv' /\ FlagsMatchQueues /\ HInv /\ [DispatchNext]_<<vars, hardware>> => HInv'
  BY HardwareInductive
<1>3. DispatchSpec => []IInv /\ []FlagsMatchQueues
  BY KernelBehaviour, Invariance, FlagsFollowQueues, PTL
<1>4. QED
  BY <1>1, <1>2, <1>3, PTL DEF DispatchSpec

-----------------------------------------------------------------------------
(***************************************************************************)
(* What follows from it.                                                   *)
(***************************************************************************)
LEMMA LastIs ==
    ASSUME HardwareType, NEW p \in Pointer, 1 <= p.depth, p.depth <= Len(stack[p.stack])
    PROVE  Last(Above(p)) = stack[p.stack][p.depth]
<1>1. p.depth \in Nat /\ p.depth \in 1 .. p.depth /\ p.depth \in 1 .. Len(stack[p.stack])
  BY DEF Pointer, HardwareType
<1>2. Len(Above(p)) = p.depth /\ Above(p)[p.depth] = stack[p.stack][p.depth]
  BY <1>1, AboveSeq
<1>3. QED
  BY <1>2 DEF Last

\* What a suspended thread will go on with.
LEMMA ContextIs ==
    ASSUME HardwareType, NEW t \in Threads, NEW p \in Pointer, p.stack = t, Holds(t, p.depth)
    PROVE  Above(p) \in Contexts(t)
<1>1. /\ Above(p) \in Seq(Context) /\ Len(Above(p)) = p.depth
      /\ \A i \in 1 .. p.depth : i \in 1 .. Len(stack[t]) => Above(p)[i] = stack[t][i]
  BY AboveSeq
<1>2. p.depth \in {1, 2} /\ p.depth <= Len(stack[t]) /\ Len(stack[t]) \in Nat
  BY DEF Holds, HardwareType, Stacks
<1>3. stack[t][1] = Own(t) /\ (p.depth = 2 => stack[t][2] = [who |-> t, pc |-> "leaving"])
  BY DEF Holds
<1>4. Above(p)[1] = Own(t)
  BY <1>1, <1>2, <1>3
<1>5. CASE p.depth = 1
  <2>1. Above(p) = <<Own(t)>>
    BY <1>1, <1>4, <1>5
  <2>2. QED
    BY <2>1 DEF Contexts
<1>6. CASE p.depth = 2
  <2>1. Above(p)[2] = [who |-> t, pc |-> "leaving"]
    BY <1>1, <1>2, <1>3, <1>6
  <2>2. Above(p) = <<Own(t), [who |-> t, pc |-> "leaving"]>>
    BY <1>1, <1>4, <1>6, <2>1
  <2>3. QED
    BY <2>2 DEF Contexts
<1>7. QED
  BY <1>2, <1>5, <1>6

\* Every thread goes on exactly where it was stopped, whatever was
\* interrupted, idled and launched since (dispatch, launch_frame and the
\* interrupt stubs of idt_s.asm).
THEOREM ContextsKept == DispatchSpec => []EveryContextKept
<1>1. IInv /\ HInv => EveryContextKept
  <2>1. SUFFICES ASSUME IInv, HInv
                 PROVE  EveryContextKept
    OBVIOUS
  <2>2. HardwareType /\ esp \in Pointer /\ \A t \in Threads : kernel_esp[t] \in Pointer
    BY <2>1 DEF HInv, HardwareType
  <2>3. InRing3 /\ ~ leaving => context = Own(running_thread)
    BY <2>1 DEF HInv, RunningInv
  <2>4. ASSUME leaving
        PROVE  Last(Above(esp)) = Own(running_thread)
    <3>1. /\ esp.stack = running_thread /\ esp.depth = 1
          /\ Len(stack[running_thread]) >= 1 /\ stack[running_thread][1] = Own(running_thread)
      BY <2>1, <2>4 DEF HInv, RunningInv, Holds
    <3>2. 1 <= esp.depth /\ esp.depth <= Len(stack[esp.stack])
      BY <3>1
    <3>3. QED
      BY <2>2, <3>1, <3>2, LastIs
  <2>5. ASSUME Len(kstack) = 2
        PROVE  Last(Above(esp)) = [who |-> running_thread, pc |-> kstack[1]]
    <3>1. kstack # <<>> /\ kstack[1] \in SwitchPC /\ sti
      BY <2>1, <2>5, StackShape
    <3>2. IdleInv
      BY <2>1, <3>1 DEF HInv, SwitchStackInv
    <3>3. /\ esp.depth = 2 /\ Len(stack[esp.stack]) = 2
          /\ stack[esp.stack][2] = [who |-> running_thread, pc |-> kstack[1]]
      BY <2>5, <3>2 DEF IdleInv
    <3>4. 1 <= esp.depth /\ esp.depth <= Len(stack[esp.stack])
      BY <3>3
    <3>5. QED
      BY <2>2, <3>3, <3>4, LastIs
  <2>6. ASSUME NEW t \in Threads, Suspended(t)
        PROVE  Above(kernel_esp[t]) \in Contexts(t)
    <3>1. kernel_esp[t].stack = t /\ Holds(t, kernel_esp[t].depth)
      BY <2>1, <2>6 DEF HInv, SavedInv
    <3>2. QED
      BY <2>2, <3>1, ContextIs
  <2>7. QED
    BY <2>3, <2>4, <2>5, <2>6 DEF EveryContextKept
<1>2. QED
  BY <1>1, HardwareInvariance, PTL

\* A kernel stack holds two contexts at the most, however long threads
\* preempt each other, block and idle (kmalloc(4000) in kernel_main.c).
THEOREM TwoContextsEnough == DispatchSpec => []StacksBounded
<1>1. HInv => StacksBounded
  BY DEF HInv
<1>2. QED
  BY <1>1, HardwareInvariance, PTL

\* No interrupt finds the frame of a launch, which all launches build in one
\* place: a switch that has been idle launches nobody.
THEOREM LaunchesApart == DispatchSpec => []LaunchUndisturbed
<1>1. IInv /\ HInv => LaunchUndisturbed
  <2>1. ASSUME IInv, HInv, At("exit"), Launching
        PROVE  ~ sti
    <3>1. kstack # <<>> /\ kstack[1] = "exit"
      BY <2>1, SwitchAtTheBottom DEF SwitchPC
    <3>2. sti => Launched(running_thread)
      BY <2>1, <3>1 DEF HInv, SwitchStackInv, SwitchPC, IdleInv
    <3>3. QED
      BY <2>1, <3>2 DEF Launching, Launched
  <2>2. HInv => stack[AddressEnd] = <<>>
    BY DEF HInv, LaunchInv
  <2>3. QED
    BY <2>1, <2>2 DEF LaunchUndisturbed
<1>2. QED
  BY <1>1, HardwareInvariance, PTL

\* No switch of threads leaves the controller waiting for the end of an
\* interrupt once interrupts are on (irq_handler() in idt.c sends the EOI and
\* then calls schedule()).
THEOREM LinesServed == DispatchSpec => []NoLineSilenced
<1>1. HInv => NoLineSilenced
  <2>1. SUFFICES ASSUME HInv, in_service # {}
                 PROVE  ~ InterruptsOn
    BY DEF NoLineSilenced
  <2>2. kstack # <<>> /\ Top \in {"handled", "panic"}
    BY <2>1 DEF HInv, ServiceInv, Top
  <2>3. QED
    BY <2>2 DEF InterruptsOn, InRing3, SwitchPC
<1>2. QED
  BY <1>1, HardwareInvariance, PTL
=============================================================================
