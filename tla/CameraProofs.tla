---------------------------- MODULE CameraProofs -----------------------------
(***************************************************************************)
(* Proofs about Camera: for every bound, and every set of calls a frontend *)
(* makes in the callbacks of an operation, the protocol of used,           *)
(* exit_requested and ref_count is safe -- provided the callbacks do not   *)
(* initialise the camera again, none calls the API while used = 0, and the *)
(* list functions of the autodetection do not fail.  Each condition is     *)
(* needed; the README says which property fails without it.                *)
(***************************************************************************)
EXTENDS Camera, SequenceTheorems, TLAPS

WellBehaved == QuietCalls = {} /\ "init" \notin BusyCalls /\ ~DetectErrors

\* Which frame may call which.
Nested(f, g) ==
  \/ f.proc \in Kinds /\ f.pc = "init" /\ g.proc = "init"
  \/ f = Frame("unused", "free") /\ g.proc = "exit"
  \/ f = Frame("free", "release") /\ g.proc = "exitNull"
  \/ f = Frame("init", "port") /\ g.proc = "exitNull"

\* The stack is a chain of calls, and its running frame does not wait.
Chain(s) == /\ \A i \in 1..(Len(s) - 1) : Nested(s[i], s[i + 1])
            /\ s # <<>> => s[Len(s)].pc # "init"

\* "used" is held by the outermost frame or not at all.
UsedIsOutermost == used = IF stack # <<>> /\ Holds(stack[1]) THEN 1 ELSE 0

\* A camera is being freed, or was, only without references; a camera without
\* references is in use, or being freed.
FreeIsLast ==
  /\ \A i \in 1..Len(stack) : stack[i].proc = "free" => refCount = 0
  /\ ~alive => refCount = 0 /\ stack = <<>>
  /\ alive /\ refCount = 0 =>
        stack # <<>> /\ (Holds(stack[1]) \/ stack[1].proc \in {"unused", "free"})

\* A postponed exit of an initialised camera is still to be run by the
\* operation that postponed it, or is running.
ExitPending ==
  /\ exitRequested /\ lh =>
       /\ stack # <<>>
       /\ \/ Holds(stack[1])
          \/ \E i \in 1..Len(stack) : stack[i].proc \in {"exit", "exitNull"}
  /\ exitRequested /\ used = 0 =>
       \A i \in 1..Len(stack) : stack[i].proc = "init" => stack[i].pc = "start"

Inv == TypeOK /\ Chain(stack) /\ UsedIsOutermost /\ FreeIsLast /\ ExitPending

\* Inv without the types of the other variables.
Core == /\ stack \in Seq(Frames) /\ Chain(stack)
        /\ UsedIsOutermost /\ FreeIsLast /\ ExitPending
-----------------------------------------------------------------------------
(* What the operations on the stack do to a chain.                         *)

LEMMA NonEmpty ==
  ASSUME NEW s \in Seq(Frames), s # <<>>
  PROVE  Len(s) \in Nat /\ Len(s) >= 1
OBVIOUS

LEMMA NotEmpty ==
  ASSUME NEW s \in Seq(Frames), Len(s) >= 1
  PROVE  s # <<>>
<1>1. Len(<<>>) = 0
  OBVIOUS
<1> QED
  BY <1>1

\* Pushing a frame that the running one may call.
LEMMA PushChain ==
  ASSUME NEW s \in Seq(Frames), Chain(s), NEW f \in Frames, f.pc # "init",
         s # <<>> => Nested(s[Len(s)], f)
  PROVE  /\ Append(s, f) \in Seq(Frames) /\ Chain(Append(s, f))
         /\ Len(Append(s, f)) = Len(s) + 1 /\ Append(s, f) # <<>>
         /\ \A i \in 1..Len(s) : Append(s, f)[i] = s[i]
         /\ Append(s, f)[Len(s) + 1] = f
<1> DEFINE t == Append(s, f)
<1>0. Len(s) \in Nat
  OBVIOUS
<1>1. /\ t \in Seq(Frames) /\ Len(t) = Len(s) + 1 /\ t # <<>> /\ t[Len(s) + 1] = f
      /\ \A i \in 1..Len(s) : t[i] = s[i]
  <2>1. t \in Seq(Frames) /\ Len(t) = Len(s) + 1 /\ t[Len(s) + 1] = f
    OBVIOUS
  <2>2. \A i \in 1..Len(s) : t[i] = s[i]
    OBVIOUS
  <2>3. t # <<>>
    BY <2>1, <1>0, EmptySeq
  <2> QED
    BY <2>1, <2>2, <2>3
<1> HIDE DEF t
<1>2. ASSUME NEW i \in 1..(Len(t) - 1) PROVE Nested(t[i], t[i + 1])
  <2>1. CASE i < Len(s)
    BY <1>0, <1>1, <2>1 DEF Chain
  <2>2. CASE i = Len(s)
    BY <1>0, <1>1, <2>2, EmptySeq
  <2> QED
    BY <1>0, <1>1, <2>1, <2>2
<1>3. Chain(t)
  BY <1>0, <1>1, <1>2 DEF Chain
<1> QED
  BY <1>1, <1>3 DEF t

LEMMA PushFirst ==
  ASSUME NEW f \in Frames, f.pc # "init",
         NEW s, s = <<>>, NEW t, t = Append(s, f)
  PROVE  t \in Seq(Frames) /\ Chain(t) /\ Len(t) = 1 /\ t # <<>> /\ t[1] = f
<1>1. t = <<f>>
  OBVIOUS
<1> QED
  BY <1>1 DEF Chain

\* Returning from the running frame, whose caller does not wait for it.
LEMMA PopChain ==
  ASSUME NEW s \in Seq(Frames), Chain(s), s # <<>>,
         Len(s) > 1 => s[Len(s) - 1].pc # "init",
         NEW t, t = Popped(s)
  PROVE  /\ t \in Seq(Frames) /\ Chain(t) /\ Len(t) = Len(s) - 1
         /\ \A i \in 1..Len(t) : t[i] = s[i]
<1>1. Len(s) \in Nat /\ Len(s) >= 1
  BY NonEmpty
<1>2. t \in Seq(Frames) /\ Len(t) = Len(s) - 1 /\ \A i \in 1..Len(t) : t[i] = s[i]
  BY <1>1 DEF Popped
<1>3. \A i \in 1..(Len(t) - 1) : Nested(t[i], t[i + 1])
  BY <1>1, <1>2 DEF Chain
<1>4. t # <<>> => t[Len(t)].pc # "init"
  <2> SUFFICES ASSUME t # <<>> PROVE t[Len(t)].pc # "init"
    OBVIOUS
  <2>1. Len(t) >= 1
    BY <1>2, NonEmpty
  <2> QED
    BY <1>1, <1>2, <2>1
<1> QED
  BY <1>2, <1>3, <1>4 DEF Chain

\* The running frame moves on, or is replaced.
LEMMA BecomeChain ==
  ASSUME NEW s \in Seq(Frames), Chain(s), s # <<>>, NEW f \in Frames, f.pc # "init",
         Len(s) > 1 => Nested(s[Len(s) - 1], f),
         NEW t, t = Replaced(s, f)
  PROVE  /\ t \in Seq(Frames) /\ Chain(t) /\ Len(t) = Len(s) /\ t # <<>>
         /\ \A i \in 1..(Len(s) - 1) : t[i] = s[i]
         /\ t[Len(s)] = f
BY NonEmpty DEF Chain, Replaced

\* What Append does, for a sequence that is not given by a term.
LEMMA AppendFacts ==
  ASSUME NEW F, NEW u \in Seq(F), NEW g \in F, NEW t, t = Append(u, g)
  PROVE  /\ t \in Seq(F) /\ Len(t) = Len(u) + 1 /\ t[Len(u) + 1] = g
         /\ \A i \in 1..Len(u) : t[i] = u[i]
OBVIOUS

LEMMA AppendFirst ==
  ASSUME NEW u \in Seq(Frames), NEW f, NEW g \in Frames, NEW t,
         Len(u) = 1, u[1] = f, t = Append(u, g)
  PROVE  t \in Seq(Frames) /\ Len(t) = 2 /\ t[1] = f /\ t[2] = g
<1>1. /\ t \in Seq(Frames) /\ Len(t) = Len(u) + 1 /\ t[Len(u) + 1] = g
      /\ \A i \in 1..Len(u) : t[i] = u[i]
  BY AppendFacts
<1> QED
  BY <1>1

\* Returning from the only frame, and from the only call of the first frame.
LEMMA PopFirst ==
  ASSUME NEW s \in Seq(Frames), Len(s) = 1, NEW t, t = Popped(s)
  PROVE  t = <<>> /\ t \in Seq(Frames) /\ Chain(t)
<1>1. t = [i \in 1..0 |-> s[i]]
  BY DEF Popped
<1>2. t = <<>>
  BY <1>1
<1> QED
  BY <1>2 DEF Chain

LEMMA ReturnFirst ==
  ASSUME NEW s \in Seq(Frames), Len(s) = 2, NEW f \in Frames, f.pc # "init",
         NEW t, t = Replaced(Popped(s), f)
  PROVE  t \in Seq(Frames) /\ Chain(t) /\ Len(t) = 1 /\ t # <<>> /\ t[1] = f
<1> DEFINE p == Popped(s)
<1>1. p = [i \in 1..1 |-> s[i]]
  BY DEF Popped
<1>2. p \in Seq(Frames) /\ Len(p) = 1
  BY <1>1
<1> HIDE DEF p
<1>3. t = [p EXCEPT ![1] = f]
  BY <1>2 DEF Replaced, p
<1>4. t \in Seq(Frames) /\ Len(t) = 1 /\ t[1] = f
  BY <1>2, <1>3
<1>5. t # <<>>
  BY <1>4, NotEmpty
<1> QED
  BY <1>4, <1>5 DEF Chain
-----------------------------------------------------------------------------
(* Where a frame can be on the stack.                                      *)

LEMMA InnerTop ==
  ASSUME Inv, stack # <<>>
  PROVE  /\ Len(stack) \in Nat /\ Len(stack) >= 1 /\ Top \in Frames /\ Top.pc # "init"
         /\ Len(stack) > 1 => /\ Nested(stack[Len(stack) - 1], Top)
                              /\ Top.proc \in {"init", "exit", "exitNull"}
<1>1. Len(stack) \in Nat /\ Len(stack) >= 1 /\ Top \in Frames /\ Top.pc # "init"
  BY NonEmpty DEF Inv, TypeOK, Chain, Top
<1>2. ASSUME Len(stack) > 1 PROVE Nested(stack[Len(stack) - 1], Top)
  BY <1>1, <1>2 DEF Inv, Chain, Top
<1> QED
  BY <1>1, <1>2 DEF Nested, Frame

\* Operations, CAMERA_UNUSED and gp_camera_free are entered from outside only.
LEMMA Outermost ==
  ASSUME Inv, stack # <<>>, Top.proc \in Kinds \cup {"unused", "free"}
  PROVE  Len(stack) = 1 /\ Top = stack[1]
<1> DEFINE n == Len(stack)
<1>1. n \in Nat /\ n >= 1 /\ ~(n > 1)
  BY InnerTop DEF Kinds
<1>2. n = 1
  <2> HIDE DEF n
  <2> QED
    BY <1>1
<1> QED
  BY <1>2 DEF Top

\* In an environment that is well behaved, a call starts from an empty stack
\* or while an operation holds the camera.
LEMMA CallFromOutside ==
  ASSUME Inv, WellBehaved, NEW c \in Calls, MayCall(c)
  PROVE  /\ alive /\ refCount > 0
         /\ stack = <<>> \/ (used = 1 /\ Holds(stack[1]) /\ c \in BusyCalls)
         /\ used = 0 => stack = <<>>
BY DEF Inv, TypeOK, UsedIsOutermost, FreeIsLast, WellBehaved, MayCall
-----------------------------------------------------------------------------
LEMMA InitInv == Init => Inv
<1> SUFFICES ASSUME Init PROVE Inv
  OBVIOUS
<1>1. TypeOK
  <2>1. refCount \in 0..MaxRef /\ timeouts \in 0..MaxTimeouts /\ used \in 0..255
    BY CameraAssumption DEF Init
  <2>2. stack \in Seq(Frames) /\ funcs \in SUBSET {"start", "stop"}
    BY EmptySeq DEF Init
  <2> QED
    BY <2>1, <2>2 DEF Init, TypeOK
<1> QED
  BY <1>1 DEF Init, Inv, Chain, UsedIsOutermost, FreeIsLast, ExitPending

LEMMA FrontendInv == ASSUME Inv, WellBehaved, Frontend PROVE Inv'
<1> USE DEF object, config, driver
<1>0. stack \in Seq(Frames) /\ Chain(stack) /\ Len(stack) \in Nat
  BY DEF Inv, TypeOK
<1>1. ASSUME NEW k \in Kinds, CallOp(k) PROVE Inv'
  <2> DEFINE f == Frame(k, "check")
  <2>1. stack = <<>> /\ alive /\ refCount > 0
    BY <1>1, CallFromOutside DEF CallOp, Calls
  <2>2. f \in Frames /\ f.pc = "check" /\ Holds(f) /\ f.proc \notin {"init", "free"}
    BY DEF Frames, Frame, Holds, Kinds
  <2>3. /\ stack' \in Seq(Frames) /\ Chain(stack') /\ Len(stack') = 1 /\ stack' # <<>>
        /\ stack'[1] = f
    <3> HIDE DEF f
    <3>1. stack' = Append(stack, f)
      BY <1>1 DEF CallOp, Push, f
    <3> QED
      BY <1>0, <2>1, <2>2, <3>1, PushFirst
  <2> HIDE DEF f
  <2>4. TypeOK'
    BY <1>1, <2>3 DEF CallOp, Inv, TypeOK
  <2>5. UsedIsOutermost' /\ FreeIsLast' /\ ExitPending'
    BY <1>1, <2>1, <2>2, <2>3 DEF CallOp, UsedIsOutermost, FreeIsLast, ExitPending
  <2> QED
    BY <2>3, <2>4, <2>5 DEF Inv
<1>2. CASE CallExit
  <2>1. CASE stack = <<>>
    <3> DEFINE f == Frame("exit", "timeouts")
    <3>1. used = 0 /\ alive /\ refCount > 0
      BY <1>2, <2>1, CallFromOutside DEF CallExit, Calls, Inv, UsedIsOutermost
    <3>2. f \in Frames /\ f.pc = "timeouts" /\ ~Holds(f) /\ f.proc = "exit"
      BY DEF Frames, Frame, Holds, Kinds
    <3>3. stack' = Append(stack, f) /\ UNCHANGED exitRequested
      BY <1>2, <3>1 DEF CallExit, ExitHead, Push
    <3> HIDE DEF f
    <3>4. /\ stack' \in Seq(Frames) /\ Chain(stack') /\ Len(stack') = 1 /\ stack' # <<>>
          /\ stack'[1] = f
      BY <1>0, <2>1, <3>2, <3>3, PushFirst
    <3>5. TypeOK'
      BY <1>2, <3>3, <3>4 DEF CallExit, Inv, TypeOK
    <3>6. UsedIsOutermost' /\ FreeIsLast' /\ ExitPending'
      BY <1>2, <3>1, <3>2, <3>3, <3>4 DEF CallExit, UsedIsOutermost, FreeIsLast, ExitPending
    <3> QED
      BY <3>4, <3>5, <3>6 DEF Inv
  <2>2. CASE stack # <<>>
    <3>1. used = 1 /\ Holds(stack[1])
      BY <1>2, <2>2, CallFromOutside DEF CallExit, Calls
    <3>2. exitRequested' = TRUE /\ UNCHANGED stack
      BY <1>2, <3>1 DEF CallExit, ExitHead
    <3> QED
      BY <1>2, <2>2, <3>1, <3>2 DEF CallExit, Inv, TypeOK, UsedIsOutermost, FreeIsLast, ExitPending
  <2> QED
    BY <2>1, <2>2
<1>3. CASE CallInit
  <2> DEFINE f == Frame("init", "start")
  <2>1. stack = <<>> /\ used = 0 /\ alive /\ refCount > 0
    BY <1>3, CallFromOutside DEF CallInit, Calls, WellBehaved, Inv, UsedIsOutermost
  <2>2. f \in Frames /\ f.pc = "start" /\ ~Holds(f) /\ f.proc = "init"
    BY DEF Frames, Frame, Holds, Kinds
  <2>3. stack' = Append(stack, f)
    BY <1>3 DEF CallInit, Push
  <2> HIDE DEF f
  <2>4. /\ stack' \in Seq(Frames) /\ Chain(stack') /\ Len(stack') = 1 /\ stack' # <<>>
        /\ stack'[1] = f
    <3>1. /\ Append(stack, f) \in Seq(Frames) /\ Chain(Append(stack, f))
          /\ Len(Append(stack, f)) = 1 /\ Append(stack, f)[1] = f
      BY <2>1, <2>2, PushFirst
    <3> QED
      BY <2>3, <3>1
  <2>5. TypeOK'
    BY <1>3, <2>4 DEF CallInit, Inv, TypeOK
  <2>6. UsedIsOutermost' /\ FreeIsLast' /\ ExitPending'
    BY <1>3, <2>1, <2>2, <2>4 DEF CallInit, Inv, UsedIsOutermost, FreeIsLast, ExitPending
  <2> QED
    BY <2>4, <2>5, <2>6 DEF Inv
<1>4. CASE CallRef
  <2>1. refCount > 0 /\ alive
    BY <1>4, CallFromOutside DEF CallRef, Calls
  <2>2. TypeOK'
    BY <1>4, CameraAssumption DEF CallRef, Inv, TypeOK
  <2> QED
    BY <1>4, <2>1, <2>2 DEF CallRef, Inv, TypeOK, UsedIsOutermost, FreeIsLast, ExitPending
<1>5. CASE CallUnref
  <2>1. refCount > 0 /\ alive /\ (used = 0 => stack = <<>>)
    BY <1>5, CallFromOutside DEF CallUnref, Calls
  <2>2. refCount' \in 0..MaxRef
    BY <1>5, <2>1, CameraAssumption DEF CallUnref, Inv, TypeOK
  <2>3. CASE refCount = 1 /\ used = 0
    <3> DEFINE f == Frame("free", "exit")
    <3>1. f \in Frames /\ f.pc = "exit" /\ ~Holds(f) /\ f.proc = "free"
      BY DEF Frames, Frame, Holds, Kinds
    <3>2. stack' = Append(stack, f)
      BY <1>5, <2>3 DEF CallUnref, Push
    <3> HIDE DEF f
    <3>3. /\ stack' \in Seq(Frames) /\ Chain(stack') /\ Len(stack') = 1 /\ stack' # <<>>
          /\ stack'[1] = f
      BY <1>0, <2>1, <2>3, <3>1, <3>2, PushFirst
    <3>4. TypeOK'
      BY <1>5, <2>2, <3>3 DEF CallUnref, Inv, TypeOK
    <3>5. UsedIsOutermost' /\ FreeIsLast' /\ ExitPending'
      BY <1>5, <2>1, <2>3, <3>1, <3>3 DEF CallUnref, Inv, UsedIsOutermost, FreeIsLast, ExitPending
    <3> QED
      BY <3>3, <3>4, <3>5 DEF Inv
  <2>4. CASE ~(refCount = 1 /\ used = 0)
    <3>1. UNCHANGED stack
      BY <1>5, <2>4 DEF CallUnref
    <3>2. TypeOK'
      BY <1>5, <2>2, <3>1 DEF CallUnref, Inv, TypeOK
    <3>3. FreeIsLast'
      <4>1. \A i \in 1..Len(stack) : stack[i].proc # "free"
        BY <2>1 DEF Inv, TypeOK, FreeIsLast
      <4>2. refCount' = 0 => stack # <<>> /\ Holds(stack[1])
        BY <1>5, <2>1, <2>4 DEF CallUnref, Inv, TypeOK, UsedIsOutermost
      <4> QED
        BY <1>5, <2>1, <3>1, <4>1, <4>2 DEF CallUnref, FreeIsLast
    <3>4. UsedIsOutermost' /\ ExitPending'
      BY <1>5, <3>1 DEF CallUnref, Inv, UsedIsOutermost, ExitPending
    <3> QED
      BY <1>0, <3>1, <3>2, <3>3, <3>4 DEF Inv
  <2> QED
    BY <2>3, <2>4
<1>6. CASE CallSet
  <2>1. /\ alive /\ refCount > 0 /\ (used = 0 => stack = <<>>)
        /\ stack = <<>> \/ (used = 1 /\ Holds(stack[1]))
    BY <1>6, CallFromOutside DEF CallSet, Calls
  <2>2. modelSet' \in BOOLEAN /\ portSet' \in BOOLEAN
    BY <1>6 DEF CallSet, Inv, TypeOK
  <2>3. CASE lh /\ used = 0
    <3> DEFINE f == Frame("exitNull", "timeouts")
    <3>1. f \in Frames /\ f.pc = "timeouts" /\ ~Holds(f) /\ f.proc = "exitNull"
      BY DEF Frames, Frame, Holds, Kinds
    <3>2. stack' = Append(stack, f) /\ UNCHANGED exitRequested
      BY <1>6, <2>3 DEF CallSet, ExitHead, Push
    <3> HIDE DEF f
    <3>3. /\ stack' \in Seq(Frames) /\ Chain(stack') /\ Len(stack') = 1 /\ stack' # <<>>
          /\ stack'[1] = f
      BY <1>0, <2>1, <2>3, <3>1, <3>2, PushFirst
    <3>4. TypeOK'
      BY <1>6, <2>2, <3>2, <3>3 DEF CallSet, Inv, TypeOK
    <3>5. UsedIsOutermost' /\ FreeIsLast' /\ ExitPending'
      BY <1>6, <2>1, <2>3, <3>1, <3>2, <3>3 DEF CallSet, Inv, UsedIsOutermost, FreeIsLast, ExitPending
    <3> QED
      BY <3>3, <3>4, <3>5 DEF Inv
  <2>4. CASE lh /\ used # 0
    <3>1. exitRequested' = TRUE /\ UNCHANGED stack /\ stack # <<>> /\ Holds(stack[1])
      BY <1>6, <2>1, <2>4 DEF CallSet, ExitHead, Inv, UsedIsOutermost
    <3>2. TypeOK'
      BY <1>6, <2>2, <3>1 DEF CallSet, Inv, TypeOK
    <3>3. UsedIsOutermost' /\ FreeIsLast' /\ ExitPending'
      BY <1>6, <2>4, <3>1 DEF CallSet, Inv, UsedIsOutermost, FreeIsLast, ExitPending
    <3> QED
      BY <1>0, <3>1, <3>2, <3>3 DEF Inv
  <2>5. CASE ~lh
    <3>1. UNCHANGED <<exitRequested, stack>>
      BY <1>6, <2>5 DEF CallSet
    <3>2. TypeOK'
      BY <1>6, <2>2, <3>1 DEF CallSet, Inv, TypeOK
    <3>3. UsedIsOutermost' /\ FreeIsLast' /\ ExitPending'
      BY <1>6, <3>1 DEF CallSet, Inv, UsedIsOutermost, FreeIsLast, ExitPending
    <3> QED
      BY <1>0, <3>1, <3>2, <3>3 DEF Inv
  <2> QED
    BY <2>3, <2>4, <2>5
<1>7. CASE CallSetTimeoutFuncs
  <2>1. funcs' \in SUBSET {"start", "stop"}
    BY <1>7, CameraAssumption DEF CallSetTimeoutFuncs
  <2>2. TypeOK'
    BY <1>7, <2>1 DEF CallSetTimeoutFuncs, Inv, TypeOK
  <2> QED
    BY <1>7, <2>2 DEF CallSetTimeoutFuncs, Inv, UsedIsOutermost, FreeIsLast, ExitPending
<1> QED
  BY <1>1, <1>2, <1>3, <1>4, <1>5, <1>6, <1>7 DEF Frontend
-----------------------------------------------------------------------------
(* The steps of the library.                                               *)

\* The running frame moves on within its function.
LEMMA GotoStep ==
  ASSUME Inv, stack # <<>>, NEW pc, Frame(Top.proc, pc) \in Frames, pc # "init",
         stack' = Goto(pc)
  PROVE  /\ stack' \in Seq(Frames) /\ Chain(stack') /\ stack' # <<>>
         /\ Len(stack') = Len(stack)
         /\ \A i \in 1..(Len(stack) - 1) : stack'[i] = stack[i]
         /\ stack'[Len(stack)] = Frame(Top.proc, pc)
<1> DEFINE f == Frame(Top.proc, pc)
<1>1. f \in Frames /\ f.pc # "init" /\ f.proc = Top.proc
  BY DEF Frame
<1>2. Len(stack) > 1 => Nested(stack[Len(stack) - 1], f)
  BY <1>1, InnerTop DEF Nested, Frame, Kinds
<1>3. stack' = Replaced(stack, f)
  BY DEF Goto, Become
<1>4. stack \in Seq(Frames) /\ Chain(stack)
  BY DEF Inv, TypeOK
<1> HIDE DEF f
<1>5. /\ stack' \in Seq(Frames) /\ Chain(stack') /\ stack' # <<>>
      /\ Len(stack') = Len(stack)
      /\ \A i \in 1..(Len(stack) - 1) : stack'[i] = stack[i]
      /\ stack'[Len(stack)] = f
  BY <1>1, <1>2, <1>3, <1>4, BecomeChain
<1> QED
  BY <1>5 DEF f

\* gp_camera_init was called by the frontend, or by an operation that waits.
LEMMA InitDepth ==
  ASSUME Inv, stack # <<>>, Top.proc = "init"
  PROVE  \/ Len(stack) = 1 /\ stack[1] = Top /\ ~Holds(stack[1])
         \/ /\ Len(stack) = 2 /\ Holds(stack[1])
            /\ stack[1].proc \in Kinds /\ stack[1].pc = "init" /\ stack[1] \in Frames
<1>1. /\ Len(stack) \in Nat /\ Len(stack) >= 1 /\ Top \in Frames
      /\ Len(stack) > 1 => Nested(stack[Len(stack) - 1], Top)
  BY InnerTop
<1>2. stack \in Seq(Frames) /\ Chain(stack)
  BY DEF Inv, TypeOK
<1>3. CASE Len(stack) = 1
  BY <1>3 DEF Top, Holds, Frame, Kinds
<1>4. CASE Len(stack) > 1
  <2> DEFINE c == stack[Len(stack) - 1]
  <2>1. c.proc \in Kinds /\ c.pc = "init" /\ c \in Frames
    BY <1>1, <1>2, <1>4 DEF Nested, Frame
  <2>2. Len(stack) = 2
    <3>1. ASSUME Len(stack) > 2 PROVE Nested(stack[Len(stack) - 2], c)
      BY <1>1, <1>2, <3>1 DEF Chain
    <3> HIDE DEF c
    <3>2. ~(Len(stack) > 2)
      BY <2>1, <3>1 DEF Nested, Kinds
    <3> DEFINE n == Len(stack)
    <3>3. n \in Nat /\ n > 1 /\ ~(n > 2)
      BY <1>1, <1>4, <3>2
    <3>4. n = 2
      <4> HIDE DEF n
      <4> QED
        BY <3>3
    <3> QED
      BY <3>4
  <2> QED
    BY <2>1, <2>2 DEF Holds
<1>5. Len(stack) = 1 \/ Len(stack) > 1
  <2> DEFINE n == Len(stack)
  <2>1. n \in Nat /\ n >= 1
    BY <1>1
  <2> HIDE DEF n
  <2>2. n = 1 \/ n > 1
    BY <2>1
  <2> QED
    BY <2>2 DEF n
<1> QED
  BY <1>3, <1>4, <1>5, Zenon

\* gp_camera_init returns.
LEMMA ReturnStep ==
  ASSUME Inv, stack # <<>>, Top.proc = "init", NEW ok \in BOOLEAN, Return(ok)
  PROVE  /\ stack' \in Seq(Frames) /\ Chain(stack')
         /\ \/ Len(stack) = 1 /\ stack' = <<>> /\ ~Holds(stack[1]) /\ stack[1] = Top
            \/ /\ Len(stack) = 2 /\ Holds(stack[1])
               /\ Len(stack') = 1 /\ stack' # <<>> /\ Holds(stack'[1])
               /\ stack'[1].proc \in Kinds \cup {"unused"}
               /\ stack'[1].pc = IF ok THEN "ready" ELSE "dec"
<1>1. stack \in Seq(Frames) /\ Chain(stack)
  BY DEF Inv, TypeOK
<1>2. CASE Len(stack) = 1 /\ stack[1] = Top /\ ~Holds(stack[1])
  <2>1. stack' = Popped(stack)
    BY <1>2 DEF Return, Pop
  <2>2. stack' = <<>> /\ stack' \in Seq(Frames) /\ Chain(stack')
    BY <1>1, <1>2, <2>1, PopFirst
  <2> QED
    BY <1>2, <2>2
<1>3. CASE /\ Len(stack) = 2 /\ Holds(stack[1])
           /\ stack[1].proc \in Kinds /\ stack[1].pc = "init" /\ stack[1] \in Frames
  <2> DEFINE c == stack[1]
             f == IF ok THEN Frame(c.proc, "ready") ELSE Frame("unused", "dec")
  <2>1. stack' = Replaced(Popped(stack), f)
    BY <1>3 DEF Return, Pop
  <2>2. /\ f \in Frames /\ f.pc # "init" /\ Holds(f) /\ f.proc \in Kinds \cup {"unused"}
        /\ f.pc = IF ok THEN "ready" ELSE "dec"
    <3>1. c.proc \in Kinds
      BY <1>3
    <3> HIDE DEF c
    <3> QED
      BY <3>1 DEF Frames, Frame, Holds, Kinds
  <2> HIDE DEF f
  <2>3. /\ stack' \in Seq(Frames) /\ Chain(stack') /\ Len(stack') = 1 /\ stack' # <<>>
        /\ stack'[1] = f
    BY <1>1, <1>3, <2>1, <2>2, ReturnFirst
  <2> QED
    BY <1>3, <2>2, <2>3
<1> QED
  BY <1>2, <1>3, InitDepth

\* An outermost frame is replaced.
LEMMA BecomeStep ==
  ASSUME Inv, Len(stack) = 1, NEW f \in Frames, f.pc # "init", stack' = Become(f)
  PROVE  /\ stack' \in Seq(Frames) /\ Chain(stack') /\ stack' # <<>> /\ Len(stack') = 1
         /\ stack'[1] = f
<1>0. stack \in Seq(Frames) /\ Chain(stack) /\ Len(stack) >= 1
  BY DEF Inv, TypeOK
<1>1. stack \in Seq(Frames) /\ Chain(stack) /\ stack # <<>>
  BY <1>0, NotEmpty
<1> QED
  BY <1>1, BecomeChain DEF Become

\* An outermost frame moves on to f, where it calls g.
LEMMA CallStep ==
  ASSUME Inv, Len(stack) = 1, NEW f \in Frames, NEW g \in Frames, g.pc # "init",
         Nested(f, g), stack' = Append(Become(f), g)
  PROVE  /\ stack' \in Seq(Frames) /\ Chain(stack') /\ stack' # <<>> /\ Len(stack') = 2
         /\ stack'[1] = f /\ stack'[2] = g
<1> DEFINE u == Become(f)
<1>1. u \in Seq(Frames) /\ Len(u) = 1 /\ u[1] = f
  BY DEF Become, Replaced, Inv, TypeOK
<1>2. stack' = Append(u, g)
  OBVIOUS
<1> HIDE DEF u
<1>3. stack' \in Seq(Frames) /\ Len(stack') = 2 /\ stack'[1] = f /\ stack'[2] = g
  BY <1>1, <1>2, AppendFirst
<1>4. stack' # <<>>
  <2>1. Len(stack') >= 1
    BY <1>3
  <2> QED
    BY <1>3, <2>1, NotEmpty
<1>5. Chain(stack')
  BY <1>3 DEF Chain
<1> QED
  BY <1>3, <1>4, <1>5

\* An outermost frame returns.
LEMMA PopStep ==
  ASSUME Inv, Len(stack) = 1, stack' = Pop
  PROVE  stack' = <<>> /\ stack' \in Seq(Frames) /\ Chain(stack')
BY PopFirst DEF Inv, TypeOK, Pop

\* A step that leaves the stack and the protocol's variables alone.
LEMMA IdleCore ==
  ASSUME Inv, UNCHANGED <<alive, refCount, used, exitRequested, lh, stack>>
  PROVE  Core'
BY DEF Core, Inv, TypeOK, UsedIsOutermost, FreeIsLast, ExitPending

\* gp_camera_init and gp_camera_exit moving on.
LEMMA GotoCore ==
  ASSUME Inv, stack # <<>>, Top.proc \in {"init", "exit", "exitNull"},
         NEW pc, Frame(Top.proc, pc) \in Frames, pc # "init", stack' = Goto(pc),
         UNCHANGED <<alive, refCount, used>>,
         exitRequested' /\ lh' => (exitRequested /\ lh) \/ used # 0,
         Top.proc = "init" /\ exitRequested' => used # 0,
         exitRequested' /\ used = 0 => exitRequested
  PROVE  Core'
<1> DEFINE f == Frame(Top.proc, pc)
<1>1. /\ stack' \in Seq(Frames) /\ Chain(stack') /\ stack' # <<>>
      /\ Len(stack') = Len(stack)
      /\ \A i \in 1..(Len(stack) - 1) : stack'[i] = stack[i]
      /\ stack'[Len(stack)] = f
  BY GotoStep
<1>2. Len(stack) \in Nat /\ Len(stack) >= 1
  BY InnerTop
<1>3. f.proc = Top.proc /\ ~Holds(f) /\ ~Holds(Top)
  BY DEF Frame, Holds, Kinds
<1> HIDE DEF f
<1>4. \A i \in 1..Len(stack) : /\ stack'[i].proc = stack[i].proc
                               /\ Holds(stack'[i]) <=> Holds(stack[i])
  <2> TAKE i \in 1..Len(stack)
  <2>1. CASE i = Len(stack)
    BY <1>1, <1>3, <2>1 DEF Top
  <2>2. CASE i \in 1..(Len(stack) - 1)
    BY <1>1, <2>2
  <2> QED
    BY <1>2, <2>1, <2>2
<1>5. 1 \in 1..Len(stack)
  BY <1>2
<1>6. UsedIsOutermost'
  BY <1>1, <1>4, <1>5 DEF Inv, UsedIsOutermost
<1>7. FreeIsLast'
  BY <1>1, <1>4, <1>5 DEF Inv, FreeIsLast
<1>8. used # 0 => Holds(stack'[1])
  BY <1>4, <1>5 DEF Inv, UsedIsOutermost
<1>9. exitRequested' /\ lh' => Holds(stack'[1])
         \/ \E i \in 1..Len(stack') : stack'[i].proc \in {"exit", "exitNull"}
  BY <1>1, <1>4, <1>5, <1>8 DEF Inv, ExitPending
<1>10. ASSUME exitRequested', used = 0, NEW i \in 1..Len(stack'), stack'[i].proc = "init"
       PROVE  stack'[i].pc = "start"
  <2>1. exitRequested /\ stack[i].pc = "start"
    BY <1>1, <1>4, <1>10 DEF Inv, ExitPending
  <2>2. i # Len(stack)
    BY <1>1, <1>3, <1>10
  <2>3. i \in 1..(Len(stack) - 1)
    BY <1>1, <1>2, <2>2
  <2> QED
    BY <1>1, <2>1, <2>3
<1>11. ExitPending'
  BY <1>1, <1>9, <1>10 DEF ExitPending
<1> QED
  BY <1>1, <1>6, <1>7, <1>11 DEF Core

\* gp_camera_init returning.
LEMMA ReturnCore ==
  ASSUME Inv, stack # <<>>, Top.proc = "init", Top.pc # "start",
         NEW ok \in BOOLEAN, Return(ok),
         UNCHANGED <<alive, refCount, used, exitRequested>>
  PROVE  Core'
<1>1. stack' \in Seq(Frames) /\ Chain(stack')
  BY ReturnStep
<1>2. alive
  BY DEF Inv, FreeIsLast
<1>3. CASE Len(stack) = 1 /\ stack' = <<>> /\ ~Holds(stack[1]) /\ stack[1] = Top
  <2>1. used = 0 /\ refCount # 0
    BY <1>2, <1>3 DEF Inv, UsedIsOutermost, FreeIsLast
  <2>2. ~exitRequested
    BY <1>3, <2>1 DEF Inv, ExitPending
  <2> QED
    BY <1>1, <1>2, <1>3, <2>1, <2>2 DEF Core, UsedIsOutermost, FreeIsLast, ExitPending
<1>4. CASE /\ Len(stack) = 2 /\ Holds(stack[1])
           /\ Len(stack') = 1 /\ stack' # <<>> /\ Holds(stack'[1])
           /\ stack'[1].proc \in Kinds \cup {"unused"}
  <2>1. used = 1
    BY <1>4 DEF Inv, UsedIsOutermost
  <2> QED
    BY <1>1, <1>2, <1>4, <2>1 DEF Core, UsedIsOutermost, FreeIsLast, ExitPending, Kinds
<1> QED
  BY <1>3, <1>4, ReturnStep

\* An operation moving on to another place where it holds the camera.
LEMMA HolderCore ==
  ASSUME Inv, stack # <<>>, Top.proc \in Kinds, NEW f \in Frames, f.pc # "init",
         Holds(f), f.proc \in Kinds \cup {"unused"}, stack' = Become(f),
         UNCHANGED <<alive, refCount, used, exitRequested>>
  PROVE  Core'
<1>1. Len(stack) = 1 /\ Top = stack[1]
  BY Outermost
<1>2. alive /\ used = 1
  BY <1>1 DEF Inv, UsedIsOutermost, FreeIsLast, Holds
<1>3. /\ stack' \in Seq(Frames) /\ Chain(stack') /\ stack' # <<>> /\ Len(stack') = 1
      /\ stack'[1] = f
  BY <1>1, BecomeStep
<1> QED
  BY <1>2, <1>3 DEF Core, UsedIsOutermost, FreeIsLast, ExitPending, Kinds

LEMMA LibraryInv == ASSUME Inv, WellBehaved, Library \/ DriverTimeouts PROVE Inv'
<1> USE DEF object, config, driver
<1>0. /\ stack \in Seq(Frames) /\ Chain(stack)
      /\ stack # <<>> => alive
  BY DEF Inv, TypeOK, FreeIsLast
<1>1. CASE InitStart
  <2> DEFINE pc == IF modelSet THEN "port" ELSE "detect"
  <2>1. stack # <<>> /\ Top.proc = "init" /\ stack' = Goto(pc)
    BY <1>1 DEF InitStart, Running, Frame
  <2>2. Frame(Top.proc, pc) \in Frames /\ pc # "init"
    BY <2>1 DEF Frames, Frame
  <2> HIDE DEF pc
  <2>3. Core'
    <3>1. ~exitRequested' /\ UNCHANGED <<alive, refCount, used>>
      BY <1>1 DEF InitStart
    <3> QED
      BY <2>1, <2>2, <3>1, GotoCore
  <2> QED
    BY <1>1, <2>3 DEF InitStart, Inv, TypeOK, Core
<1>2. CASE InitDetected
  <2>1. stack # <<>> /\ Top.proc = "init" /\ Top.pc = "detect" /\ Frame(Top.proc, "port") \in Frames
    BY <1>2 DEF InitDetected, Running, Frame, Frames
  <2>2. Len(stack) \in Nat /\ Len(stack) >= 1
    BY <2>1, InnerTop
  <2>3. ~(exitRequested /\ used = 0)
    BY <2>1, <2>2 DEF Inv, ExitPending, Top
  <2>4. CASE ~lh
    <3>1. stack' = Goto("port") /\ UNCHANGED <<alive, refCount, used, exitRequested, lh>>
      BY <1>2, <2>4 DEF InitDetected
    <3>2. Core'
      BY <2>1, <2>3, <3>1, GotoCore
    <3> QED
      BY <1>2, <2>4, <3>1, <3>2 DEF InitDetected, Inv, TypeOK, Core
  <2>5. CASE lh /\ used # 0
    <3>1. stack' = Goto("port") /\ exitRequested' = TRUE /\ UNCHANGED <<alive, refCount, used, lh>>
      BY <1>2, <2>5 DEF InitDetected
    <3>2. Core'
      BY <2>1, <2>5, <3>1, GotoCore
    <3> QED
      BY <1>2, <2>5, <3>1, <3>2 DEF InitDetected, Inv, TypeOK, Core
  <2>6. CASE lh /\ used = 0
    <3> DEFINE f == Frame("init", "port")
               g == Frame("exitNull", "timeouts")
    <3>1. Len(stack) = 1 /\ stack[1] = Top
      BY <2>1, <2>6, InitDepth DEF Inv, UsedIsOutermost
    <3>2. /\ f \in Frames /\ g \in Frames /\ g.pc # "init" /\ Nested(f, g) /\ ~Holds(f)
          /\ f.proc = "init" /\ g.proc = "exitNull"
      BY DEF Frames, Frame, Nested, Holds, Kinds
    <3>3. stack' = Append(Become(f), g) /\ UNCHANGED <<alive, refCount, used, exitRequested, lh>>
      BY <1>2, <2>1, <2>6 DEF InitDetected, Goto
    <3>4. alive /\ refCount # 0
      BY <1>0, <2>1, <3>1 DEF Inv, FreeIsLast, Holds, Frame, Kinds
    <3> HIDE DEF f, g
    <3>5. /\ stack' \in Seq(Frames) /\ Chain(stack') /\ stack' # <<>> /\ Len(stack') = 2
          /\ stack'[1] = f /\ stack'[2] = g
      BY <3>1, <3>2, <3>3, CallStep
    <3>6. Core'
      BY <2>3, <2>6, <3>2, <3>3, <3>4, <3>5 DEF Core, UsedIsOutermost, FreeIsLast, ExitPending
    <3> QED
      BY <1>2, <2>6, <3>3, <3>6 DEF InitDetected, Inv, TypeOK, Core
  <2> QED
    BY <2>4, <2>5, <2>6
<1>3. CASE InitNotDetected
  <2>1. stack # <<>> /\ Top.proc = "init" /\ Top.pc # "start"
    BY <1>3 DEF InitNotDetected, Running, Frame
  <2>2. Core'
    BY <1>3, <2>1, ReturnCore DEF InitNotDetected
  <2> QED
    BY <1>3, <2>2 DEF InitNotDetected, Inv, TypeOK, Core
<1>4. CASE InitDetectError
  BY <1>4 DEF InitDetectError, WellBehaved
<1>5. CASE InitFailed
  <2>1. stack # <<>> /\ Top.proc = "init" /\ Top.pc # "start"
    BY <1>5 DEF InitFailed, Running, Frame
  <2>2. Core'
    BY <1>5, <2>1, ReturnCore DEF InitFailed
  <2> QED
    BY <1>5, <2>2 DEF InitFailed, Inv, TypeOK, Core
<1>6. CASE InitPort
  <2>1. stack # <<>> /\ Top.proc = "init" /\ Top.pc = "port" /\ Frame(Top.proc, "driver") \in Frames
    BY <1>6 DEF InitPort, Running, Frame, Frames
  <2>2. Len(stack) \in Nat /\ Len(stack) >= 1
    BY <2>1, InnerTop
  <2>3. ~(exitRequested /\ used = 0)
    BY <2>1, <2>2 DEF Inv, ExitPending, Top
  <2>4. UNCHANGED <<alive, refCount, used, exitRequested>>
    BY <1>6 DEF InitPort
  <2>5. CASE portSet
    <3>1. stack' = Goto("driver") /\ lh' = TRUE /\ functions' = TRUE /\ pl' = "partial"
          /\ UNCHANGED fsFuncs
      BY <1>6, <2>5 DEF InitPort
    <3>2. Core'
      BY <2>1, <2>3, <2>4, <3>1, GotoCore
    <3> QED
      BY <1>6, <2>5, <3>1, <3>2 DEF InitPort, Inv, TypeOK, Core
  <2>6. CASE ~portSet
    <3>1. Return(FALSE) /\ UNCHANGED <<lh, driver>>
      BY <1>6, <2>6 DEF InitPort
    <3>2. Core'
      BY <2>1, <2>4, <3>1, ReturnCore
    <3> QED
      BY <1>6, <3>1, <3>2 DEF InitPort, Inv, TypeOK, Core
  <2> QED
    BY <2>5, <2>6
<1>7. CASE InitDriver
  <2>1. stack # <<>> /\ Top.proc = "init" /\ Top.pc # "start"
    BY <1>7 DEF InitDriver, Running, Frame
  <2>2. UNCHANGED <<alive, refCount, used, exitRequested>> /\ (Return(TRUE) \/ Return(FALSE))
    BY <1>7 DEF InitDriver
  <2>3. Core'
    BY <2>1, <2>2, ReturnCore
  <2> QED
    BY <1>7, <2>3 DEF InitDriver, Inv, TypeOK, Core
<1>8. CASE OpCheck
  <2>1. stack # <<>> /\ Top.proc \in Kinds /\ UNCHANGED <<alive, refCount, used, exitRequested, lh>>
    BY <1>8 DEF OpCheck, RunningOp
  <2> DEFINE r == Frame(Top.proc, "ready")
             f == Frame(Top.proc, "init")
             g == Frame("init", "start")
  <2>2. /\ r \in Frames /\ r.pc # "init" /\ Holds(r) /\ r.proc \in Kinds
        /\ f \in Frames /\ g \in Frames /\ g.pc # "init" /\ Nested(f, g) /\ Holds(f)
        /\ f.proc \in Kinds /\ g.proc = "init"
    BY <2>1 DEF Frames, Frame, Nested, Holds, Kinds
  <2>3. IF lh THEN stack' = Become(r) ELSE stack' = Append(Become(f), g)
    BY <1>8 DEF OpCheck, Goto
  <2> HIDE DEF r, f, g
  <2>4. CASE lh
    BY <1>8, <2>1, <2>2, <2>3, <2>4, HolderCore DEF OpCheck, Inv, TypeOK, Core
  <2>5. CASE ~lh
    <3>1. Len(stack) = 1 /\ Top = stack[1]
      BY <2>1, Outermost
    <3>2. used = 1 /\ alive
      BY <1>0, <2>1, <3>1 DEF Inv, UsedIsOutermost, Holds
    <3>3. /\ stack' \in Seq(Frames) /\ Chain(stack') /\ stack' # <<>> /\ Len(stack') = 2
          /\ stack'[1] = f /\ stack'[2] = g
      BY <2>2, <2>3, <2>5, <3>1, CallStep
    <3>4. Core'
      BY <2>1, <2>2, <3>2, <3>3 DEF Core, UsedIsOutermost, FreeIsLast, ExitPending, Kinds
    <3> QED
      BY <1>8, <3>4 DEF OpCheck, Inv, TypeOK, Core
  <2> QED
    BY <2>4, <2>5
<1>9. CASE OpReady
  <2>1. stack # <<>> /\ Top.proc \in Kinds /\ UNCHANGED <<alive, refCount, used, exitRequested>>
    BY <1>9 DEF OpReady, RunningOp
  <2>2. \/ stack' = Become(Frame(Top.proc, "body"))
        \/ Top.proc = "info" /\ stack' = Become(Frame(Top.proc, "fallback"))
        \/ stack' = Become(Frame("unused", "dec"))
    BY <1>9 DEF OpReady, Goto
  <2>3. Core'
    BY <2>1, <2>2, HolderCore DEF Frames, Frame, Holds, Kinds
  <2> QED
    BY <1>9, <2>3 DEF OpReady, Inv, TypeOK, Core
<1>10. CASE OpBody
  <2>1. stack # <<>> /\ Top.proc \in Kinds /\ UNCHANGED <<alive, refCount, used, exitRequested>>
    BY <1>10 DEF OpBody, RunningOp
  <2>2. \/ stack' = Become(Frame("unused", "dec"))
        \/ Top.proc = "info" /\ stack' = Become(Frame(Top.proc, "fallback"))
    BY <1>10 DEF OpBody, Goto
  <2>3. Core'
    BY <2>1, <2>2, HolderCore DEF Frames, Frame, Holds, Kinds
  <2> QED
    BY <1>10, <2>3 DEF OpBody, Inv, TypeOK, Core
<1>11. CASE OpFallback
  <2>1. stack # <<>> /\ Top.proc \in Kinds
    BY <1>11 DEF OpFallback, RunningOp
  <2>2. used = 1
    BY <2>1, Outermost DEF Inv, UsedIsOutermost, Holds
  <2>3. stack' = Become(Frame("unused", "dec")) /\ UNCHANGED <<alive, refCount, used, exitRequested>>
    BY <1>11, <2>2 DEF OpFallback
  <2>4. Core'
    BY <2>1, <2>3, HolderCore DEF Frames, Frame, Holds, Kinds
  <2> QED
    BY <1>11, <2>3, <2>4 DEF OpFallback, Inv, TypeOK, Core
<1>12. CASE UnusedDec
  <2> DEFINE f == Frame("unused", "free")
             g == Frame("exit", "timeouts")
  <2>1. stack # <<>> /\ Top = Frame("unused", "dec") /\ UNCHANGED <<alive, refCount, exitRequested, lh>>
    BY <1>12 DEF UnusedDec, Running
  <2>2. Len(stack) = 1 /\ stack[1] = Frame("unused", "dec")
    BY <2>1, Outermost DEF Frame
  <2>3. used = 1 /\ used' = 0 /\ alive
    BY <1>0, <1>12, <2>2 DEF Inv, UsedIsOutermost, Holds, UnusedDec
  <2>4. /\ f \in Frames /\ g \in Frames /\ f.pc # "init" /\ g.pc # "init" /\ Nested(f, g)
        /\ ~Holds(f) /\ f.proc = "unused" /\ g.proc = "exit"
    BY DEF Frames, Frame, Nested, Holds, Kinds
  <2>5. IF exitRequested THEN stack' = Append(Become(f), g) ELSE stack' = Become(f)
    BY <1>12, <2>1, <2>3 DEF UnusedDec, Goto, Frame
  <2> HIDE DEF f, g
  <2>6. Core'
    <3>1. CASE exitRequested
      <4>1. /\ stack' \in Seq(Frames) /\ Chain(stack') /\ stack' # <<>> /\ Len(stack') = 2
            /\ stack'[1] = f /\ stack'[2] = g
        BY <2>2, <2>4, <2>5, <3>1, CallStep
      <4> QED
        BY <2>1, <2>3, <2>4, <4>1 DEF Core, UsedIsOutermost, FreeIsLast, ExitPending
    <3>2. CASE ~exitRequested
      <4>1. /\ stack' \in Seq(Frames) /\ Chain(stack') /\ stack' # <<>> /\ Len(stack') = 1
            /\ stack'[1] = f
        BY <2>2, <2>4, <2>5, <3>2, BecomeStep
      <4> QED
        BY <2>1, <2>3, <2>4, <3>2, <4>1 DEF Core, UsedIsOutermost, FreeIsLast, ExitPending
    <3> QED
      BY <3>1, <3>2
  <2> QED
    BY <1>12, <2>3, <2>6 DEF UnusedDec, Inv, TypeOK, Core
<1>13. CASE UnusedFree
  <2> DEFINE f == Frame("free", "exit")
  <2>1. /\ stack # <<>> /\ Top = Frame("unused", "free")
        /\ UNCHANGED <<alive, refCount, used, exitRequested, lh>>
    BY <1>13 DEF UnusedFree, Running
  <2>2. Len(stack) = 1 /\ stack[1] = Frame("unused", "free")
    BY <2>1, Outermost DEF Frame
  <2>3. used = 0 /\ alive /\ ~(exitRequested /\ lh)
    BY <1>0, <2>2 DEF Inv, UsedIsOutermost, ExitPending, Holds, Frame, Kinds
  <2>4. f \in Frames /\ f.pc # "init" /\ ~Holds(f) /\ f.proc = "free"
    BY DEF Frames, Frame, Holds, Kinds
  <2>5. IF refCount = 0 THEN stack' = Become(f) ELSE stack' = Pop
    BY <1>13 DEF UnusedFree
  <2> HIDE DEF f
  <2>6. Core'
    <3>1. CASE refCount = 0
      <4>1. /\ stack' \in Seq(Frames) /\ Chain(stack') /\ stack' # <<>> /\ Len(stack') = 1
            /\ stack'[1] = f
        BY <2>2, <2>4, <2>5, <3>1, BecomeStep
      <4> QED
        BY <2>1, <2>3, <2>4, <3>1, <4>1 DEF Core, UsedIsOutermost, FreeIsLast, ExitPending
    <3>2. CASE refCount # 0
      <4>1. stack' = <<>> /\ stack' \in Seq(Frames) /\ Chain(stack')
        BY <2>2, <2>5, <3>2, PopStep
      <4> QED
        BY <2>1, <2>3, <3>2, <4>1 DEF Core, UsedIsOutermost, FreeIsLast, ExitPending
    <3> QED
      BY <3>1, <3>2
  <2> QED
    BY <1>13, <2>6 DEF UnusedFree, Inv, TypeOK, Core
<1>14. CASE ExitTimeouts
  <2>1. /\ stack # <<>> /\ Top.proc \in {"exit", "exitNull"} /\ Frame(Top.proc, "driver") \in Frames
        /\ UNCHANGED <<alive, refCount, used, exitRequested, lh>>
    BY <1>14 DEF ExitTimeouts, RunningExit, Running, Frame, Frames
  <2>2. UNCHANGED stack \/ stack' = Goto("driver")
    BY <1>14 DEF ExitTimeouts
  <2>3. Core'
    BY <2>1, <2>2, GotoCore, IdleCore
  <2>4. timeouts' \in 0..MaxTimeouts
    BY <1>14, CameraAssumption DEF ExitTimeouts, Inv, TypeOK
  <2> QED
    BY <1>14, <2>3, <2>4 DEF ExitTimeouts, Inv, TypeOK, Core
<1>15. CASE ExitDriver
  <2>1. /\ stack # <<>> /\ Top.proc \in {"exit", "exitNull"} /\ ~lh' /\ stack' = Popped(stack)
        /\ UNCHANGED <<alive, refCount, used, exitRequested>>
    BY <1>15 DEF ExitDriver, RunningExit, Running, Frame, Pop
  <2>2. /\ Len(stack) \in Nat /\ Len(stack) >= 1
        /\ Len(stack) > 1 => stack[Len(stack) - 1].pc # "init"
    BY <2>1, InnerTop DEF Nested, Frame
  <2>3. /\ stack' \in Seq(Frames) /\ Chain(stack') /\ Len(stack') = Len(stack) - 1
        /\ \A i \in 1..Len(stack') : stack'[i] = stack[i]
    BY <1>0, <2>1, <2>2, PopChain
  <2>4. CASE Len(stack) = 1
    <3>1. stack' = <<>> /\ stack' \in Seq(Frames) /\ Chain(stack')
      BY <2>1, <2>4, PopStep DEF Pop
    <3>2. used = 0 /\ alive /\ refCount # 0
      BY <1>0, <2>1, <2>4 DEF Inv, UsedIsOutermost, FreeIsLast, Holds, Frame, Kinds, Top
    <3>3. Core'
      BY <2>1, <3>1, <3>2 DEF Core, UsedIsOutermost, FreeIsLast, ExitPending
    <3> QED
      BY <1>15, <3>3 DEF ExitDriver, Inv, TypeOK, Core
  <2>5. CASE Len(stack) # 1
    <3>1. Len(stack') >= 1 /\ stack'[1] = stack[1]
      BY <2>2, <2>3, <2>5
    <3>2. stack' # <<>>
      BY <2>3, <3>1, NotEmpty
    <3>3. \A i \in 1..Len(stack') : i \in 1..Len(stack)
      BY <2>2, <2>3
    <3>4. Core'
      BY <1>0, <2>1, <2>3, <3>1, <3>2, <3>3 DEF Inv, Core, UsedIsOutermost, FreeIsLast, ExitPending
    <3> QED
      BY <1>15, <3>4 DEF ExitDriver, Inv, TypeOK, Core
  <2> QED
    BY <2>4, <2>5
<1>16. CASE FreeExit
  <2> DEFINE f == Frame("free", "release")
             g == Frame("exitNull", "timeouts")
  <2>1. stack # <<>> /\ Top = Frame("free", "exit") /\ UNCHANGED <<alive, refCount, used, lh>>
    BY <1>16 DEF FreeExit, Running
  <2>2. Len(stack) = 1 /\ stack[1] = Frame("free", "exit")
    BY <2>1, Outermost DEF Frame
  <2>3. used = 0 /\ alive /\ refCount = 0 /\ ~(exitRequested /\ lh)
    BY <1>0, <2>2 DEF Inv, UsedIsOutermost, FreeIsLast, ExitPending, Holds, Frame, Kinds
  <2>4. /\ f \in Frames /\ g \in Frames /\ f.pc # "init" /\ g.pc # "init" /\ Nested(f, g)
        /\ ~Holds(f) /\ f.proc = "free" /\ g.proc = "exitNull"
    BY DEF Frames, Frame, Nested, Holds, Kinds
  <2>5. /\ exitRequested' = exitRequested
        /\ IF lh THEN stack' = Append(Become(f), g) ELSE stack' = Become(f)
    BY <1>16, <2>1, <2>3 DEF FreeExit, Goto, Frame, Inv, TypeOK
  <2> HIDE DEF f, g
  <2>6. Core'
    <3>1. CASE lh
      <4>1. /\ stack' \in Seq(Frames) /\ Chain(stack') /\ stack' # <<>> /\ Len(stack') = 2
            /\ stack'[1] = f /\ stack'[2] = g
        BY <2>2, <2>4, <2>5, <3>1, CallStep
      <4> QED
        BY <2>1, <2>3, <2>4, <2>5, <4>1 DEF Core, UsedIsOutermost, FreeIsLast, ExitPending
    <3>2. CASE ~lh
      <4>1. /\ stack' \in Seq(Frames) /\ Chain(stack') /\ stack' # <<>> /\ Len(stack') = 1
            /\ stack'[1] = f
        BY <2>2, <2>4, <2>5, <3>2, BecomeStep
      <4> QED
        BY <2>1, <2>3, <2>4, <2>5, <3>2, <4>1 DEF Core, UsedIsOutermost, FreeIsLast, ExitPending
    <3> QED
      BY <3>1, <3>2
  <2> QED
    BY <1>16, <2>5, <2>6 DEF FreeExit, Inv, TypeOK, Core
<1>17. CASE FreeRelease
  <2>1. /\ stack # <<>> /\ Top = Frame("free", "release") /\ ~alive' /\ stack' = Pop
        /\ UNCHANGED <<refCount, used, exitRequested, lh>>
    BY <1>17 DEF FreeRelease, Running
  <2>2. Len(stack) = 1 /\ stack[1] = Frame("free", "release")
    BY <2>1, Outermost DEF Frame
  <2>3. used = 0 /\ refCount = 0 /\ ~(exitRequested /\ lh)
    BY <2>2 DEF Inv, UsedIsOutermost, FreeIsLast, ExitPending, Holds, Frame, Kinds
  <2>4. stack' = <<>> /\ stack' \in Seq(Frames) /\ Chain(stack')
    BY <2>1, <2>2, PopStep
  <2>5. Core'
    BY <2>1, <2>3, <2>4 DEF Core, UsedIsOutermost, FreeIsLast, ExitPending
  <2> QED
    BY <1>17, <2>5 DEF FreeRelease, Inv, TypeOK, Core
<1>18. CASE DriverTimeouts
  <2>1. timeouts' \in 0..MaxTimeouts
    BY <1>18, CameraAssumption DEF DriverTimeouts, Inv, TypeOK
  <2>2. Core'
    BY <1>18, IdleCore DEF DriverTimeouts
  <2> QED
    BY <1>18, <2>1, <2>2 DEF DriverTimeouts, Inv, TypeOK, Core
<1> QED
  BY <1>1, <1>2, <1>3, <1>4, <1>5, <1>6, <1>7, <1>8, <1>9, <1>10, <1>11, <1>12, <1>13,
     <1>14, <1>15, <1>16, <1>17, <1>18 DEF Library
-----------------------------------------------------------------------------
(* What follows from Inv.                                                  *)

LEMMA InvStep == ASSUME Inv, WellBehaved, [Next]_vars PROVE Inv'
<1>1. CASE UNCHANGED vars
  BY <1>1, IdleCore DEF vars, object, config, driver, Inv, TypeOK, Core
<1> QED
  BY <1>1, FrontendInv, LibraryInv DEF Next

LEMMA SpecInv == ASSUME WellBehaved PROVE Spec => []Inv
<1>1. Inv /\ [Next]_vars => Inv'
  BY InvStep
<1> QED
  BY <1>1, InitInv, PTL DEF Spec

\* Every variable keeps its type: "used" stays within its unsigned char, the
\* timeouts never become negative, and the C stack holds only known frames.
THEOREM TypeCorrect == ASSUME WellBehaved PROVE Spec => []TypeOK
<1>1. Inv => TypeOK
  BY DEF Inv
<1> QED
  BY <1>1, SpecInv, PTL

LEMMA UsedCounts == ASSUME Inv PROVE UsedMatchesOperation
<1>1. stack \in Seq(Frames) /\ Chain(stack) /\ UsedIsOutermost /\ Len(stack) \in Nat
  BY DEF Inv, TypeOK
<1>2. ASSUME NEW i \in 1..Len(stack), Holds(stack[i]) PROVE i = 1
  <2>1. i > 1 => Nested(stack[i - 1], stack[i])
    BY <1>1, <1>2 DEF Chain
  <2>2. ~Nested(stack[i - 1], stack[i])
    BY <1>2 DEF Nested, Holds, Frame, Kinds
  <2> QED
    BY <1>1, <2>1, <2>2
<1>3. stack # <<>> => 1 \in 1..Len(stack)
  BY <1>1, NonEmpty
<1>4. stack = <<>> => Holders = {}
  BY DEF Holders
<1>5. Holds(stack[1]) /\ stack # <<>> <=> Holders # {}
  BY <1>2, <1>3, <1>4 DEF Holders
<1>6. \A i, j \in Holders : i = j
  BY <1>2 DEF Holders
<1> QED
  BY <1>1, <1>5, <1>6 DEF UsedMatchesOperation, UsedIsOutermost

\* "used" is balanced: CHECK_INIT and CAMERA_UNUSED pair up on every path.
THEOREM UsedBalanced == ASSUME WellBehaved PROVE Spec => []UsedMatchesOperation
BY UsedCounts, SpecInv, PTL

\* No function of the library runs on a Camera whose memory was released,
\* although any callback of an operation may drop the last reference.
THEOREM Safe == ASSUME WellBehaved PROVE Spec => []NoUseAfterFree
<1>1. Inv => NoUseAfterFree
  BY DEF Inv, FreeIsLast, NoUseAfterFree
<1> QED
  BY <1>1, SpecInv, PTL

LEMMA DriverOnTop ==
  ASSUME Inv, NEW i \in 1..Len(stack), InDriver(stack[i])
  PROVE  i = Len(stack) /\ stack[i] = Top
<1>1. stack \in Seq(Frames) /\ Chain(stack) /\ Len(stack) \in Nat
  BY DEF Inv, TypeOK
<1>2. i \in 1..(Len(stack) - 1) => Nested(stack[i], stack[i + 1])
  BY <1>1 DEF Chain
<1>3. ~Nested(stack[i], stack[i + 1])
  BY DEF Nested, InDriver, Frame, Kinds
<1>4. i = Len(stack)
  BY <1>1, <1>2, <1>3
<1> QED
  BY <1>4 DEF Top

\* The driver is never entered while one of its functions is running.
THEOREM NotReentered == ASSUME WellBehaved PROVE Spec => []DriverNotReentered
<1>1. Inv => DriverNotReentered
  BY DriverOnTop DEF DriverNotReentered
<1> QED
  BY <1>1, SpecInv, PTL

\* An exit that a callback asked for is never lost: when the outermost call
\* has returned, the camera is not initialised.
THEOREM ExitHonoured == ASSUME WellBehaved PROVE Spec => []PostponedExitHonoured
<1>1. Inv => PostponedExitHonoured
  BY DEF Inv, ExitPending, PostponedExitHonoured
<1> QED
  BY <1>1, SpecInv, PTL

\* Nor is the last gp_camera_unref: a camera nobody refers to is released.
THEOREM NothingLeaks == ASSUME WellBehaved PROVE Spec => []LastReferenceFrees
<1>1. Inv => LastReferenceFrees
  BY DEF Inv, FreeIsLast, LastReferenceFrees
<1> QED
  BY <1>1, SpecInv, PTL
=============================================================================
