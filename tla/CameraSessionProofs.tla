------------------------ MODULE CameraSessionProofs -------------------------
(***************************************************************************)
(* Camera implements CameraSession: the session that the driver holds ends *)
(* only while no operation uses the camera, and the memory is released     *)
(* only without a session.  The environment is the one of CameraProofs;    *)
(* where it says so, the driver's exit also never returns early.           *)
(***************************************************************************)
EXTENDS CameraProofs

\* The functions on a stack.
On(s) == {s[i] : i \in 1..Len(s)}

\* What a function on the stack relies on: an operation that was let in finds the
\* driver initialised, and initialises it only without a session; gp_camera_exit
\* runs only on an idle camera and has stopped all timeouts when it asks the driver.
FrameOK(f) ==
  /\ f.proc \in Kinds /\ f.pc \in {"ready", "body"} => lh
  /\ f = Frame("init", "driver") => lh /\ functions /\ pl = "partial"
  /\ ~ExitErrors /\ f.proc \in Kinds /\ f.pc = "init" => pl # "open"
  /\ f.proc \in {"exit", "exitNull"} => used = 0
  /\ f.proc \in {"exit", "exitNull"} /\ f.pc = "driver" => timeouts = 0

\* gp_camera_free releases nothing that is initialised.
ReleaseOK == stack # <<>> /\ Top = Frame("free", "release") => ~lh

DriverInv ==
  /\ \A f \in On(stack) : FrameOK(f)
  /\ ReleaseOK
  /\ timeouts > 0 => lh
  /\ ~alive => ~lh
  /\ ~ExitErrors /\ pl = "open" => lh /\ functions

StackUnlessMoved == <<alive, used, lh, functions, pl, timeouts>>
-----------------------------------------------------------------------------
(* What a step does to the functions on the stack.                         *)

LEMMA OnPush ==
  ASSUME NEW s \in Seq(Frames), NEW g \in Frames, NEW t, t = Append(s, g)
  PROVE  t \in Seq(Frames) /\ On(t) \subseteq On(s) \cup {g} /\ t[Len(t)] = g
<1>1. /\ t \in Seq(Frames) /\ Len(t) = Len(s) + 1 /\ t[Len(s) + 1] = g
      /\ \A i \in 1..Len(s) : t[i] = s[i]
  BY AppendFacts
<1>2. Len(s) \in Nat
  OBVIOUS
<1> QED
  BY <1>1, <1>2 DEF On

LEMMA OnReplaced ==
  ASSUME NEW s \in Seq(Frames), s # <<>>, NEW f \in Frames, NEW t, t = Replaced(s, f)
  PROVE  t \in Seq(Frames) /\ On(t) \subseteq On(s) \cup {f} /\ t[Len(t)] = f
<1>1. Len(s) \in Nat /\ Len(s) >= 1
  BY NonEmpty
<1>2. /\ t \in Seq(Frames) /\ Len(t) = Len(s) /\ t[Len(s)] = f
      /\ \A i \in 1..Len(s) : i # Len(s) => t[i] = s[i]
  BY <1>1 DEF Replaced
<1> QED
  BY <1>1, <1>2 DEF On

LEMMA OnEmpty == ASSUME NEW s, s = <<>> PROVE On(s) = {}
BY DEF On

LEMMA TopOn == ASSUME Inv, stack # <<>> PROVE Top \in On(stack)
BY InnerTop DEF On, Top

\* A step that leaves the driver alone, and puts functions on the stack that rely
\* on what holds.
LEMMA StackStep ==
  ASSUME DriverInv, UNCHANGED StackUnlessMoved,
         \A f \in On(stack') : f \in On(stack) \/ FrameOK(f), ReleaseOK'
  PROVE  DriverInv'
<1>1. \A f : FrameOK(f)' <=> FrameOK(f)
  BY DEF FrameOK, StackUnlessMoved
<1> QED
  BY <1>1 DEF DriverInv, StackUnlessMoved

LEMMA StillStep ==
  ASSUME DriverInv, UNCHANGED <<StackUnlessMoved, stack>>
  PROVE  DriverInv'
<1>1. \A f : FrameOK(f)' <=> FrameOK(f)
  BY DEF FrameOK, StackUnlessMoved
<1> QED
  BY <1>1 DEF DriverInv, StackUnlessMoved, ReleaseOK, Top, On

LEMMA PushStep ==
  ASSUME Inv, DriverInv, UNCHANGED StackUnlessMoved,
         NEW g \in Frames, FrameOK(g), g # Frame("free", "release"),
         stack' = Append(stack, g)
  PROVE  DriverInv'
<1>1. On(stack') \subseteq On(stack) \cup {g} /\ stack'[Len(stack')] = g
  BY OnPush DEF Inv, TypeOK
<1>2. ReleaseOK'
  BY <1>1 DEF ReleaseOK, Top
<1>3. \A x \in On(stack') : x \in On(stack) \/ FrameOK(x)
  BY <1>1
<1> QED
  BY <1>1, <1>2, <1>3, StackStep DEF StackUnlessMoved

LEMMA MoveStep ==
  ASSUME Inv, DriverInv, stack # <<>>, UNCHANGED StackUnlessMoved,
         NEW f \in Frames, FrameOK(f), f = Frame("free", "release") => ~lh,
         stack' = Become(f)
  PROVE  DriverInv'
<1>1. On(stack') \subseteq On(stack) \cup {f} /\ stack'[Len(stack')] = f
  BY OnReplaced DEF Inv, TypeOK, Become
<1>2. ReleaseOK'
  BY <1>1 DEF ReleaseOK, Top, StackUnlessMoved
<1>3. \A x \in On(stack') : x \in On(stack) \/ FrameOK(x)
  BY <1>1
<1> QED
  BY <1>1, <1>2, <1>3, StackStep DEF StackUnlessMoved

LEMMA SubStep ==
  ASSUME Inv, DriverInv, stack # <<>>, UNCHANGED StackUnlessMoved,
         NEW f \in Frames, FrameOK(f), NEW g \in Frames, FrameOK(g),
         g # Frame("free", "release"), stack' = Append(Become(f), g)
  PROVE  DriverInv'
<1> DEFINE u == Become(f)
<1>1. u \in Seq(Frames) /\ On(u) \subseteq On(stack) \cup {f}
  BY OnReplaced DEF Inv, TypeOK, Become
<1>2. stack' = Append(u, g)
  OBVIOUS
<1> HIDE DEF u
<1>6. On(stack') \subseteq On(u) \cup {g} /\ stack'[Len(stack')] = g
  BY <1>1, <1>2, OnPush
<1>3. On(stack') \subseteq On(stack) \cup {f, g} /\ stack'[Len(stack')] = g
  BY <1>1, <1>6
<1>4. ReleaseOK'
  BY <1>3 DEF ReleaseOK, Top
<1>5. \A x \in On(stack') : x \in On(stack) \/ FrameOK(x)
  BY <1>3
<1> QED
  BY <1>3, <1>4, <1>5, StackStep DEF StackUnlessMoved

LEMMA EmptyStep ==
  ASSUME DriverInv, UNCHANGED StackUnlessMoved, stack' = <<>>
  PROVE  DriverInv'
BY OnEmpty, StackStep DEF ReleaseOK

\* gp_camera_init returns: the operation that waits for it finds the driver
\* initialised, or gives up.
LEMMA ReturnOn ==
  ASSUME Inv, stack # <<>>, Top.proc = "init", NEW ok \in BOOLEAN, Return(ok)
  PROVE  /\ \A f \in On(stack') : /\ f.proc \in Kinds \cup {"unused"}
                                  /\ f.pc = IF ok THEN "ready" ELSE "dec"
         /\ ReleaseOK'
<1>1. CASE stack' = <<>>
  BY <1>1, OnEmpty DEF ReleaseOK
<1>2. CASE /\ Len(stack') = 1 /\ stack'[1].proc \in Kinds \cup {"unused"}
           /\ stack'[1].pc = IF ok THEN "ready" ELSE "dec"
  <2>1. On(stack') = {stack'[1]}
    BY <1>2 DEF On
  <2>2. ReleaseOK'
    BY <1>2 DEF ReleaseOK, Top, Frame, Kinds
  <2> QED
    BY <1>2, <2>1, <2>2
<1> QED
  BY <1>1, <1>2, ReturnStep
-----------------------------------------------------------------------------
(* The steps of the frontend and of the library.                           *)

LEMMA FrontendDriver == ASSUME Inv, DriverInv, WellBehaved, Frontend PROVE DriverInv'
<1> USE DEF object, config, driver
<1>1. ASSUME NEW k \in Kinds, CallOp(k) PROVE DriverInv'
  <2>1. stack = <<>> /\ lh' = lh /\ UNCHANGED <<alive, functions, pl, timeouts>>
    BY <1>1, CallFromOutside DEF CallOp, Calls
  <2> DEFINE g == Frame(k, "check")
  <2>2. g \in Frames /\ g.proc = k /\ g.pc = "check"
    BY DEF Frames, Frame
  <2>3. stack' = Append(stack, g)
    BY <1>1 DEF CallOp, Push
  <2> HIDE DEF g
  <2>4. On(stack') \subseteq {g} /\ stack'[Len(stack')] = g
    BY <2>1, <2>2, <2>3, OnPush, OnEmpty DEF Inv, TypeOK
  <2>5. \A f \in On(stack') : FrameOK(f)'
    BY <2>2, <2>4 DEF FrameOK, Kinds, Frame
  <2>6. ReleaseOK'
    BY <2>2, <2>4 DEF ReleaseOK, Top, Frame, Kinds
  <2> QED
    BY <2>1, <2>5, <2>6 DEF DriverInv
<1>2. ASSUME NEW proc \in {"exit", "exitNull"}, ExitHead(proc), UNCHANGED StackUnlessMoved
      PROVE  DriverInv'
  <2> DEFINE g == Frame(proc, "timeouts")
  <2>1. g \in Frames /\ (used = 0 => FrameOK(g)) /\ g # Frame("free", "release")
    BY DEF Frames, Frame, FrameOK, Kinds
  <2>2. (used = 0 /\ stack' = Append(stack, g)) \/ stack' = stack
    BY <1>2 DEF ExitHead, Push
  <2> HIDE DEF g
  <2> QED
    BY <1>2, <2>1, <2>2, PushStep, StillStep
<1>3. CASE CallExit
  BY <1>2, <1>3 DEF CallExit, StackUnlessMoved
<1>4. CASE CallInit
  <2> DEFINE g == Frame("init", "start")
  <2>1. g \in Frames /\ FrameOK(g) /\ g # Frame("free", "release")
    BY DEF Frames, Frame, FrameOK, Kinds
  <2>2. stack' = Append(stack, g) /\ UNCHANGED StackUnlessMoved
    BY <1>4 DEF CallInit, Push, StackUnlessMoved
  <2> HIDE DEF g
  <2> QED
    BY <2>1, <2>2, PushStep
<1>5. CASE CallRef \/ CallSetTimeoutFuncs
  BY <1>5, StillStep DEF CallRef, CallSetTimeoutFuncs, StackUnlessMoved
<1>6. CASE CallUnref
  <2> DEFINE g == Frame("free", "exit")
  <2>1. g \in Frames /\ FrameOK(g) /\ g # Frame("free", "release")
    BY DEF Frames, Frame, FrameOK, Kinds
  <2>2. /\ stack' = Append(stack, g) \/ stack' = stack
        /\ UNCHANGED StackUnlessMoved
    BY <1>6 DEF CallUnref, Push, StackUnlessMoved
  <2> HIDE DEF g
  <2> QED
    BY <2>1, <2>2, PushStep, StillStep
<1>7. CASE CallSet
  <2>1. UNCHANGED StackUnlessMoved /\ (ExitHead("exitNull") \/ UNCHANGED stack)
    BY <1>7 DEF CallSet, StackUnlessMoved
  <2> QED
    BY <1>2, <2>1, StillStep
<1> QED
  BY <1>1, <1>3, <1>4, <1>5, <1>6, <1>7 DEF Frontend

LEMMA InitSteps ==
  ASSUME Inv, DriverInv, WellBehaved,
         InitStart \/ InitDetected \/ InitNotDetected \/ InitDetectError \/ InitFailed
  PROVE  DriverInv'
<1> USE DEF object, config, driver
<1>0. ~InitDetectError
  BY DEF InitDetectError, WellBehaved
<1>1. stack # <<>> /\ Top.proc = "init" /\ UNCHANGED StackUnlessMoved
  <2>3. \E pc \in {"start", "detect", "failed"} : Running("init", pc)
    BY <1>0 DEF InitStart, InitDetected, InitNotDetected, InitFailed
  <2>1. stack # <<>> /\ Top.proc = "init"
    BY <2>3 DEF Running, Frame
  <2>2. UNCHANGED StackUnlessMoved
    BY <1>0 DEF InitStart, InitDetected, InitNotDetected, InitFailed, StackUnlessMoved
  <2> QED
    BY <2>1, <2>2
<1> DEFINE m == Frame("init", "port")
           g == Frame("exitNull", "timeouts")
<1>2. /\ m \in Frames /\ FrameOK(m) /\ m # Frame("free", "release")
      /\ g \in Frames /\ (used = 0 => FrameOK(g)) /\ g # Frame("free", "release")
  BY DEF Frames, Frame, FrameOK, Kinds
<1>3. CASE InitStart
  <2> DEFINE d == Frame("init", "detect")
  <2>1. d \in Frames /\ FrameOK(d) /\ d # Frame("free", "release")
    BY DEF Frames, Frame, FrameOK, Kinds
  <2>2. stack' = Become(m) \/ stack' = Become(d)
    BY <1>1, <1>3 DEF InitStart, Goto
  <2> HIDE DEF d, m
  <2> QED
    BY <1>1, <1>2, <2>1, <2>2, MoveStep
<1>4. CASE InitDetected
  <2>1. \/ stack' = Become(m)
        \/ used = 0 /\ stack' = Append(Become(m), g)
    BY <1>1, <1>4 DEF InitDetected, Goto
  <2> HIDE DEF m, g
  <2> QED
    BY <1>1, <1>2, <2>1, MoveStep, SubStep
<1>5. CASE InitNotDetected \/ InitFailed
  <2>1. Return(FALSE)
    BY <1>5 DEF InitNotDetected, InitFailed
  <2>2. ReleaseOK' /\ \A f \in On(stack') : f.proc \in Kinds \cup {"unused"} /\ f.pc = "dec"
    BY <1>1, <2>1, ReturnOn
  <2>3. \A f \in On(stack') : FrameOK(f)
    BY <2>2 DEF FrameOK, Kinds, Frame
  <2> QED
    BY <1>1, <2>2, <2>3, StackStep
<1> QED
  BY <1>0, <1>3, <1>4, <1>5

LEMMA InitPortStep == ASSUME Inv, DriverInv, InitPort PROVE DriverInv'
<1> USE DEF object, config, driver
<1>1. stack # <<>> /\ Top.proc = "init" /\ UNCHANGED <<alive, used, timeouts>>
  BY DEF InitPort, Running, Frame
<1>2. alive
  BY <1>1 DEF Inv, FreeIsLast
<1>3. CASE portSet
  <2> DEFINE d == Frame("init", "driver")
  <2>1. d \in Frames /\ d # Frame("free", "release") /\ d.proc = "init" /\ d.pc = "driver"
    BY DEF Frames, Frame
  <2>2. stack' = Become(d) /\ lh' /\ functions' /\ pl' = "partial"
    BY <1>1, <1>3 DEF InitPort, Goto
  <2> HIDE DEF d
  <2>3. On(stack') \subseteq On(stack) \cup {d} /\ stack'[Len(stack')] = d
    BY <1>1, <2>1, <2>2, OnReplaced DEF Inv, TypeOK, Become
  <2>4. \A f \in On(stack') : FrameOK(f)'
    <3> TAKE f \in On(stack')
    <3>1. CASE f \in On(stack)
      BY <1>1, <2>2, <3>1 DEF FrameOK, DriverInv
    <3>2. CASE f = d
      BY <2>1, <2>2, <3>2 DEF FrameOK, Kinds
    <3> QED
      BY <2>3, <3>1, <3>2
  <2> QED
    BY <1>1, <1>2, <2>1, <2>2, <2>3, <2>4 DEF DriverInv, ReleaseOK, Top
<1>4. CASE ~portSet
  <2>1. Return(FALSE) /\ UNCHANGED StackUnlessMoved
    BY <1>4 DEF InitPort, StackUnlessMoved
  <2>2. ReleaseOK' /\ \A f \in On(stack') : f.proc \in Kinds \cup {"unused"} /\ f.pc = "dec"
    BY <1>1, <2>1, ReturnOn
  <2>3. \A f \in On(stack') : FrameOK(f)
    BY <2>2 DEF FrameOK, Kinds, Frame
  <2> QED
    BY <2>1, <2>2, <2>3, StackStep
<1> QED
  BY <1>3, <1>4

LEMMA InitDriverStep == ASSUME Inv, DriverInv, InitDriver PROVE DriverInv'
<1> USE DEF object, config, driver
<1>1. /\ stack # <<>> /\ Top = Frame("init", "driver") /\ Top.proc = "init"
      /\ UNCHANGED <<alive, used, timeouts, lh>>
  BY DEF InitDriver, Running, Frame
<1>2. alive /\ lh /\ functions /\ pl = "partial"
  BY <1>1, TopOn DEF Inv, FreeIsLast, DriverInv, FrameOK
<1>3. PICK ok \in BOOLEAN : Return(ok) /\ (~ok => pl' = pl) /\ (ok => functions' = functions)
  BY DEF InitDriver
<1>4. /\ ReleaseOK'
      /\ \A f \in On(stack') : /\ f.proc \in Kinds \cup {"unused"}
                               /\ f.pc = IF ok THEN "ready" ELSE "dec"
  BY <1>1, <1>3, ReturnOn
<1>5. \A f \in On(stack') : FrameOK(f)'
  BY <1>1, <1>2, <1>4 DEF FrameOK, Kinds, Frame
<1> QED
  BY <1>1, <1>2, <1>3, <1>4, <1>5 DEF DriverInv

LEMMA OpSteps ==
  ASSUME Inv, DriverInv, OpCheck \/ OpReady \/ OpBody \/ OpFallback
  PROVE  DriverInv'
<1> USE DEF object, config, driver
<1>1. stack # <<>> /\ Top.proc \in Kinds
  BY DEF OpCheck, OpReady, OpBody, OpFallback, RunningOp
<1>2. Len(stack) = 1 /\ Top = stack[1] /\ used = 1
  BY <1>1, Outermost DEF Inv, UsedIsOutermost, Holds
<1>3. UNCHANGED StackUnlessMoved
  BY <1>2 DEF OpCheck, OpReady, OpBody, OpFallback, StackUnlessMoved
<1> DEFINE r == Frame(Top.proc, "ready")
           b == Frame(Top.proc, "body")
           w == Frame(Top.proc, "init")
           l == Frame(Top.proc, "fallback")
           u == Frame("unused", "dec")
           g == Frame("init", "start")
<1>4. /\ r \in Frames /\ (lh => FrameOK(r)) /\ r # Frame("free", "release")
      /\ b \in Frames /\ (lh => FrameOK(b)) /\ b # Frame("free", "release")
      /\ w \in Frames /\ (~lh => FrameOK(w)) /\ w # Frame("free", "release")
  <2>1. r \in Frames /\ b \in Frames /\ w \in Frames
    BY <1>1 DEF Frames, Frame
  <2>2. ~lh /\ ~ExitErrors => pl # "open"
    BY DEF DriverInv
  <2> QED
    BY <1>1, <2>1, <2>2 DEF Frame, FrameOK, Kinds
<1>5. /\ l \in Frames /\ FrameOK(l) /\ l # Frame("free", "release")
      /\ u \in Frames /\ FrameOK(u) /\ u # Frame("free", "release")
      /\ g \in Frames /\ FrameOK(g) /\ g # Frame("free", "release")
  BY <1>1 DEF Frames, Frame, FrameOK, Kinds
<1>6. Top.pc \in {"ready", "body"} => lh
  BY <1>1, TopOn DEF DriverInv, FrameOK
<1>7. \/ lh /\ stack' = Become(r)
      \/ ~lh /\ stack' = Append(Become(w), g)
      \/ lh /\ stack' = Become(b)
      \/ stack' = Become(l)
      \/ stack' = Become(u)
  BY <1>2, <1>6 DEF OpCheck, OpReady, OpBody, OpFallback, Goto, RunningOp
<1> HIDE DEF r, b, w, l, u, g
<1> QED
  BY <1>1, <1>3, <1>4, <1>5, <1>7, MoveStep, SubStep

LEMMA UnusedSteps == ASSUME Inv, DriverInv, UnusedDec \/ UnusedFree PROVE DriverInv'
<1> USE DEF object, config, driver
<1> DEFINE f == Frame("unused", "free")
           g == Frame("exit", "timeouts")
           h == Frame("free", "exit")
<1>1. stack # <<>> /\ Top.proc = "unused" /\ Len(stack) = 1 /\ Top = stack[1]
  BY Outermost DEF UnusedDec, UnusedFree, Running, Frame
<1>2. /\ f \in Frames /\ FrameOK(f) /\ f # Frame("free", "release")
      /\ g \in Frames /\ g.proc = "exit" /\ g.pc = "timeouts"
      /\ h \in Frames /\ FrameOK(h) /\ h # Frame("free", "release")
  BY DEF Frames, Frame, FrameOK, Kinds
<1>3. CASE UnusedFree
  <2>1. UNCHANGED StackUnlessMoved /\ (stack' = Become(h) \/ stack' = Pop)
    BY <1>3 DEF UnusedFree, StackUnlessMoved
  <2> HIDE DEF h
  <2> QED
    BY <1>1, <1>2, <2>1, MoveStep, PopStep, EmptyStep
<1>4. CASE UnusedDec
  <2>5. Holds(stack[1])
    BY <1>1, <1>4 DEF UnusedDec, Running, Holds
  <2>6. used = 1
    BY <1>1, <2>5 DEF Inv, UsedIsOutermost
  <2>1. used' = 0 /\ UNCHANGED <<alive, lh, functions, pl, timeouts>>
    BY <1>4, <2>6 DEF UnusedDec
  <2>2. stack' = Become(f) \/ stack' = Append(Become(f), g)
    BY <1>1, <1>4, <2>1 DEF UnusedDec, Goto, Frame, Running
  <2> HIDE DEF f, g
  <2>3. /\ On(stack') \subseteq On(stack) \cup {f, g}
        /\ stack'[Len(stack')] \in {f, g}
    <3> DEFINE v == Become(f)
    <3>1. v \in Seq(Frames) /\ On(v) \subseteq On(stack) \cup {f} /\ v[Len(v)] = f
      BY <1>1, <1>2, OnReplaced DEF Inv, TypeOK, Become
    <3>2. stack' = v \/ stack' = Append(v, g)
      BY <2>2
    <3> HIDE DEF v
    <3>3. CASE stack' = v
      BY <3>1, <3>3
    <3>4. CASE stack' = Append(v, g)
      <4>1. On(stack') \subseteq On(v) \cup {g} /\ stack'[Len(stack')] = g
        BY <1>2, <3>1, <3>4, OnPush
      <4> QED
        BY <3>1, <4>1
    <3> QED
      BY <3>2, <3>3, <3>4
  <2>4. \A x \in On(stack') : FrameOK(x)'
    <3> TAKE x \in On(stack')
    <3>1. CASE x \in On(stack)
      BY <2>1, <3>1 DEF FrameOK, DriverInv
    <3>2. CASE x = f
      BY <1>2, <2>1, <3>2 DEF FrameOK
    <3>3. CASE x = g
      BY <1>2, <2>1, <3>3 DEF FrameOK, Kinds, Frame
    <3> QED
      BY <2>3, <3>1, <3>2, <3>3
  <2>7. ReleaseOK'
    BY <1>2, <2>3 DEF ReleaseOK, Top, Frame
  <2> QED
    BY <2>1, <2>4, <2>7 DEF DriverInv
<1> QED
  BY <1>3, <1>4

LEMMA ExitTimeoutsStep == ASSUME Inv, DriverInv, ExitTimeouts PROVE DriverInv'
<1> USE DEF object, config, driver
<1> DEFINE f == Frame(Top.proc, "driver")
<1>1. /\ stack # <<>> /\ Top.proc \in {"exit", "exitNull"} /\ Top.pc = "timeouts"
      /\ UNCHANGED <<alive, used, lh, functions, pl>>
  BY DEF ExitTimeouts, RunningExit, Running, Frame
<1>2. used = 0
  BY <1>1, TopOn DEF DriverInv, FrameOK
<1>3. CASE timeouts > 0
  <2>1. stack' = stack /\ (timeouts' = timeouts \/ timeouts' = timeouts - 1)
    BY <1>3 DEF ExitTimeouts
  <2>2. \A x \in On(stack) : ~(x.proc \in {"exit", "exitNull"} /\ x.pc = "driver")
    <3> SUFFICES ASSUME NEW i \in 1..Len(stack), stack[i].proc \in {"exit", "exitNull"},
                        stack[i].pc = "driver"
                 PROVE  FALSE
      BY DEF On
    <3>1. stack[i] = Top
      BY DriverOnTop DEF InDriver
    <3> QED
      BY <1>1, <3>1
  <2>3. timeouts' > 0 => lh'
    BY <1>1, <1>3 DEF DriverInv
  <2>4. \A x \in On(stack) : FrameOK(x)'
    BY <1>1, <2>2 DEF DriverInv, FrameOK
  <2> QED
    BY <1>1, <2>1, <2>3, <2>4 DEF DriverInv, ReleaseOK, Top, On
<1>4. CASE ~(timeouts > 0)
  <2>1. stack' = Become(f) /\ UNCHANGED StackUnlessMoved /\ timeouts = 0
    BY <1>1, <1>4 DEF ExitTimeouts, Goto, StackUnlessMoved, Inv, TypeOK
  <2>2. f \in Frames /\ FrameOK(f) /\ f # Frame("free", "release")
    BY <1>1, <1>2, <2>1 DEF Frames, Frame, FrameOK, Kinds
  <2> HIDE DEF f
  <2> QED
    BY <1>1, <2>1, <2>2, MoveStep
<1> QED
  BY <1>3, <1>4

LEMMA ExitDriverStep == ASSUME Inv, DriverInv, ExitDriver PROVE DriverInv'
<1> USE DEF object, config, driver
<1>1. /\ stack # <<>> /\ Top.proc \in {"exit", "exitNull"} /\ Top.pc = "driver"
      /\ ~lh' /\ ~functions' /\ stack' = Pop /\ UNCHANGED <<alive, used, timeouts>>
  BY DEF ExitDriver, RunningExit, Running, Frame
<1>2. used = 0 /\ timeouts = 0
  BY <1>1, TopOn DEF DriverInv, FrameOK
<1>3. ~ExitErrors => pl' # "open"
  BY DEF ExitDriver, DriverInv
<1>4. On(stack') \subseteq On(stack)
  BY InnerTop, <1>1 DEF On, Pop, Popped
<1>5. ASSUME NEW x \in On(stack)
      PROVE  ~Holds(x) /\ x # Frame("init", "driver")
  <2>1. PICK i \in 1..Len(stack) : x = stack[i]
    BY DEF On
  <2>2. ~Holds(x)
    BY <1>2, <2>1, UsedCounts DEF UsedMatchesOperation, Holders
  <2>3. InDriver(x) => x = Top
    BY <2>1, DriverOnTop
  <2> QED
    BY <1>1, <2>2, <2>3 DEF InDriver, Frame
<1>7. \A x \in On(stack') : FrameOK(x)'
  BY <1>1, <1>2, <1>4, <1>5 DEF FrameOK, Holds
<1> QED
  BY <1>1, <1>2, <1>3, <1>7 DEF DriverInv, ReleaseOK

LEMMA FreeSteps == ASSUME Inv, DriverInv, FreeExit \/ FreeRelease PROVE DriverInv'
<1> USE DEF object, config, driver
<1>1. stack # <<>> /\ Top.proc = "free" /\ Len(stack) = 1 /\ Top = stack[1]
  BY Outermost DEF FreeExit, FreeRelease, Running, Frame
<1>2. used = 0
  BY <1>1 DEF Inv, UsedIsOutermost, Holds, Frame, Kinds
<1>3. CASE FreeExit
  <2> DEFINE f == Frame("free", "release")
             g == Frame("exitNull", "timeouts")
  <2>1. /\ UNCHANGED StackUnlessMoved
        /\ (lh /\ stack' = Append(Become(f), g)) \/ (~lh /\ stack' = Become(f))
    BY <1>1, <1>2, <1>3 DEF FreeExit, Goto, StackUnlessMoved
  <2>2. f \in Frames /\ FrameOK(f) /\ g \in Frames /\ FrameOK(g) /\ g # f
    BY <1>2 DEF Frames, Frame, FrameOK, Kinds
  <2>3. g # Frame("free", "release")
    BY <2>2
  <2> HIDE DEF f, g
  <2> QED
    BY <1>1, <2>1, <2>2, <2>3, MoveStep, SubStep
<1>4. CASE FreeRelease
  <2>1. /\ stack' = Pop /\ Top = Frame("free", "release")
        /\ UNCHANGED <<used, lh, functions, pl, timeouts>>
    BY <1>4 DEF FreeRelease, Running
  <2>2. ~lh /\ stack' = <<>>
    BY <1>1, <2>1, PopStep DEF DriverInv, ReleaseOK
  <2>3. \A x \in On(stack') : FrameOK(x)'
    BY <2>2, OnEmpty
  <2> QED
    BY <2>1, <2>2, <2>3 DEF DriverInv, ReleaseOK
<1> QED
  BY <1>3, <1>4

LEMMA DriverTimeoutsStep == ASSUME Inv, DriverInv, DriverTimeouts PROVE DriverInv'
<1> USE DEF object, config, driver
<1>1. /\ stack # <<>> /\ InDriver(Top) /\ Top.proc \in Kinds \cup {"init"}
      /\ UNCHANGED <<alive, used, lh, functions, pl, stack>>
  BY DEF DriverTimeouts, RunningOp, Running, Frame, InDriver
<1>2. lh
  BY <1>1, TopOn DEF DriverTimeouts, RunningOp, Running, DriverInv, FrameOK
<1>3. \A x \in On(stack) : ~(x.proc \in {"exit", "exitNull"} /\ x.pc = "driver")
  <2> SUFFICES ASSUME NEW i \in 1..Len(stack), stack[i].proc \in {"exit", "exitNull"},
                      stack[i].pc = "driver"
               PROVE  FALSE
    BY DEF On
  <2>1. stack[i] = Top
    BY DriverOnTop DEF InDriver
  <2> QED
    BY <1>1, <2>1 DEF Kinds
<1>4. \A x \in On(stack) : FrameOK(x)'
  BY <1>1, <1>3 DEF DriverInv, FrameOK
<1> QED
  BY <1>1, <1>2, <1>4 DEF DriverInv, ReleaseOK, Top, On
-----------------------------------------------------------------------------
LEMMA DriverInit == Init => DriverInv
BY OnEmpty DEF Init, DriverInv, ReleaseOK

LEMMA DriverStep == ASSUME Inv, DriverInv, WellBehaved, [Next]_vars PROVE DriverInv'
<1>1. CASE UNCHANGED vars
  BY <1>1, StillStep DEF vars, object, driver, StackUnlessMoved
<1> QED
  BY <1>1, FrontendDriver, InitSteps, InitPortStep, InitDriverStep, OpSteps, UnusedSteps,
     ExitTimeoutsStep, ExitDriverStep, FreeSteps, DriverTimeoutsStep DEF Next, Library

LEMMA SpecDriver == ASSUME WellBehaved PROVE Spec => [](Inv /\ DriverInv)
<1>1. Inv /\ DriverInv /\ [Next]_vars => DriverInv'
  BY DriverStep
<1> QED
  BY <1>1, DriverInit, SpecInv, PTL DEF Spec

\* A timeout is pending only while the driver it calls is initialised, although
\* drivers start them and gp_camera_exit stops them.
THEOREM TimeoutsStopped == ASSUME WellBehaved PROVE Spec => []TimeoutsOnlyWhileInitialised
<1>1. DriverInv => TimeoutsOnlyWhileInitialised
  BY DEF DriverInv, TimeoutsOnlyWhileInitialised
<1> QED
  BY <1>1, SpecDriver, PTL

\* A released Camera left no session and no timeout behind, whichever callback
\* dropped the last reference.
THEOREM ReleasedClean ==
  ASSUME WellBehaved, ~ExitErrors PROVE Spec => []FreedDisconnected
<1>1. Inv /\ DriverInv => FreedDisconnected
  BY DEF Inv, TypeOK, DriverInv, FreedDisconnected
<1> QED
  BY <1>1, SpecDriver, PTL

\* The Camera is busy in the sense of CameraSession when "used" says so.
BusyIsUsed == (Holders # {}) = (used = 1) /\ used \in {0, 1}

LEMMA BusyUsed == Inv => BusyIsUsed
BY UsedCounts DEF UsedMatchesOperation, BusyIsUsed

LEMMA BusyUsedNext == Inv' => BusyIsUsed'
BY BusyUsed, PTL

\* Every step of a Camera is a step of the abstract session, or none.
LEMMA SessionStep ==
  ASSUME Inv, Inv', DriverInv, WellBehaved, ~ExitErrors, [Next]_vars
  PROVE  [Session!Next]_Session!vars
<1> USE DEF object, config, driver
<1>1. /\ (Holders # {}) = (used = 1) /\ (Holders # {})' = (used' = 1)
      /\ used \in {0, 1} /\ used' \in {0, 1}
  BY BusyUsed, BusyUsedNext DEF BusyIsUsed
<1>2. ASSUME used' = used, pl' = pl, alive' = alive PROVE [Session!Next]_Session!vars
  BY <1>1, <1>2 DEF Session!vars
<1>3. ASSUME NEW k \in Kinds, CallOp(k) PROVE Session!Begin
  <2>1. used = 0 /\ used' = 1 /\ alive /\ alive' = alive /\ pl' = pl
    BY <1>3, CallFromOutside DEF CallOp, Calls
  <2> QED
    BY <1>1, <2>1 DEF Session!Begin
<1>4. ASSUME CallExit \/ CallInit \/ CallRef \/ CallUnref \/ CallSet \/ CallSetTimeoutFuncs
      PROVE  [Session!Next]_Session!vars
  BY <1>2, <1>4 DEF CallExit, CallInit, CallRef, CallUnref, CallSet, CallSetTimeoutFuncs
<1>5. ASSUME InitStart \/ InitDetected \/ InitNotDetected \/ InitDetectError \/ InitFailed
             \/ OpCheck \/ OpReady \/ OpBody \/ UnusedFree \/ ExitTimeouts \/ FreeExit
             \/ DriverTimeouts
      PROVE  [Session!Next]_Session!vars
  BY <1>2, <1>5 DEF InitStart, InitDetected, InitNotDetected, InitDetectError, InitFailed,
     OpCheck, OpReady, OpBody, UnusedFree, ExitTimeouts, FreeExit, DriverTimeouts
<1>6. ASSUME OpFallback PROVE [Session!Next]_Session!vars
  <2>1. Holds(stack[1])
    BY <1>6, Outermost DEF OpFallback, RunningOp, Holds
  <2>2. used = 1
    BY <1>6, <2>1 DEF OpFallback, RunningOp, Inv, UsedIsOutermost
  <2> QED
    BY <1>2, <1>6, <2>2 DEF OpFallback
<1>7. ASSUME InitPort PROVE [Session!Next]_Session!vars
  <2>1. used' = used /\ alive' = alive /\ (pl' = pl \/ pl' = "partial")
    BY <1>7 DEF InitPort
  <2>2. stack # <<>> /\ Top.proc = "init"
    BY <1>7 DEF InitPort, Running, Frame
  <2>3. pl = "open" => used = 0
    <3>1. CASE ~Holds(stack[1])
      BY <3>1 DEF Inv, UsedIsOutermost
    <3>2. CASE Len(stack) = 2 /\ stack[1].proc \in Kinds /\ stack[1].pc = "init"
      BY <3>2 DEF On, DriverInv, FrameOK
    <3> QED
      BY <2>2, <3>1, <3>2, InitDepth
  <2>4. CASE pl = "open" /\ pl' = "partial"
    BY <1>1, <2>1, <2>3, <2>4 DEF Session!Next, Session!Disconnect
  <2>5. CASE pl # "open" /\ pl' = "partial"
    BY <1>1, <2>1, <2>5 DEF Session!vars
  <2> QED
    BY <1>2, <2>1, <2>4, <2>5
<1>8. ASSUME InitDriver PROVE [Session!Next]_Session!vars
  <2>1. used' = used /\ alive' = alive /\ (pl' = pl \/ pl' = "open")
    BY <1>8 DEF InitDriver
  <2>2. stack # <<>> /\ Top = Frame("init", "driver")
    BY <1>8 DEF InitDriver, Running
  <2>3. pl = "partial" /\ alive
    BY <2>2, TopOn DEF DriverInv, FrameOK, Inv, FreeIsLast
  <2>4. CASE pl' = "open"
    BY <1>1, <2>1, <2>3, <2>4 DEF Session!Next, Session!Connect
  <2> QED
    BY <1>2, <2>1, <2>4
<1>9. ASSUME ExitDriver PROVE [Session!Next]_Session!vars
  <2>1. used' = used /\ alive' = alive /\ (pl' = pl \/ pl' = "null")
    BY <1>9 DEF ExitDriver
  <2>2. stack # <<>> /\ Top.proc \in {"exit", "exitNull"}
    BY <1>9 DEF ExitDriver, RunningExit, Running, Frame
  <2>3. used = 0
    BY <2>2, TopOn DEF DriverInv, FrameOK
  <2>4. CASE pl = "open" /\ pl' = "null"
    BY <1>1, <2>1, <2>3, <2>4 DEF Session!Next, Session!Disconnect
  <2>5. CASE pl # "open" /\ pl' = "null"
    BY <1>1, <2>1, <2>5 DEF Session!vars
  <2> QED
    BY <1>2, <2>1, <2>4, <2>5
<1>10. ASSUME UnusedDec PROVE [Session!Next]_Session!vars
  <2>1. Holds(stack[1])
    BY <1>10, Outermost DEF UnusedDec, Running, Holds, Frame
  <2>2. used = 1
    BY <1>10, <2>1 DEF UnusedDec, Running, Inv, UsedIsOutermost
  <2>3. used' = 0 /\ pl' = pl /\ alive' = alive
    BY <1>10, <2>2 DEF UnusedDec
  <2> QED
    BY <1>1, <2>2, <2>3 DEF Session!Next, Session!End
<1>11. ASSUME FreeRelease PROVE [Session!Next]_Session!vars
  <2>1. /\ stack # <<>> /\ Top = Frame("free", "release") /\ Top.proc = "free"
        /\ ~alive' /\ used' = used /\ pl' = pl
    BY <1>11 DEF FreeRelease, Running, Frame
  <2>2. alive /\ ~lh
    BY <2>1 DEF Inv, FreeIsLast, DriverInv, ReleaseOK
  <2>3. stack[1].proc = "free"
    BY <2>1, Outermost
  <2>4. used = 0 /\ pl # "open"
    BY <2>2, <2>3 DEF Inv, UsedIsOutermost, Holds, Frame, Kinds, DriverInv
  <2> QED
    BY <1>1, <2>1, <2>2, <2>4 DEF Session!Next, Session!Release
<1>12. CASE UNCHANGED vars
  BY <1>2, <1>12 DEF vars
<1> QED
  BY <1>3, <1>4, <1>5, <1>6, <1>7, <1>8, <1>9, <1>10, <1>11, <1>12
     DEF Next, Frontend, Library, Session!Next

\* A Camera implements the abstract session: the driver's connection ends only
\* while no operation uses it, and the memory is released only when the camera is
\* idle and disconnected, whatever the callbacks call.
THEOREM ImplementsSession ==
  ASSUME WellBehaved, ~ExitErrors PROVE Spec => SessionSpec
<1>1. Init => Session!Init
  BY DEF Init, Session!Init, Holders
<1>2. Inv /\ Inv' /\ DriverInv /\ [Next]_vars => [Session!Next]_Session!vars
  BY SessionStep
<1> QED
  BY <1>1, <1>2, SpecInv, SpecDriver, PTL DEF Spec, SessionSpec, Session!Spec
=============================================================================
