------------------------------- MODULE Camera -------------------------------
(***************************************************************************)
(* The life cycle of one Camera object (libgphoto2/gphoto2-camera.c) as    *)
(* built for iOS: IOS_BUILD defined, HAVE_MULTI not defined, the PTP/IP    *)
(* port whose open and close always succeed.                               *)
(*                                                                         *)
(* The library is single threaded but re-entrant: while gp_camera_init,    *)
(* gp_camera_exit or an operation runs, the driver calls the frontend back *)
(* (GPContext functions, timeout functions), and the frontend may call the *)
(* API again from the callback.  The C stack is therefore part of the      *)
(* state: "stack" holds one frame per active API function, the last one    *)
(* running.  What protects a Camera from its callbacks is the counter      *)
(* "used", the flag "exit_requested" and the reference count.              *)
(***************************************************************************)
EXTENDS Integers, Sequences, FiniteSets

CONSTANTS
  BusyCalls,      \* API calls a callback makes while the camera is in use
  QuietCalls,     \* API calls a callback makes while used = 0
  TimeoutFuncs,   \* the pairs of timeout functions the frontend installs
  DetectErrors,   \* may a list operation of the autodetection fail?
  ExitErrors,     \* may the driver's exit return before it closed the session?
  MaxRef,         \* bound on the reference count
  MaxTimeouts,    \* bound on the number of pending timeouts
  MaxDepth        \* bound on the depth of the stack

Calls == {"op", "exit", "init", "ref", "unref", "set", "funcs"}

ASSUME CameraAssumption ==
  /\ BusyCalls \subseteq Calls
  /\ QuietCalls \subseteq Calls
  /\ TimeoutFuncs \subseteq SUBSET {"start", "stop"}
  /\ DetectErrors \in BOOLEAN /\ ExitErrors \in BOOLEAN
  /\ MaxRef \in Nat \ {0}
  /\ MaxTimeouts \in Nat
  /\ MaxDepth \in Nat \ {0}

VARIABLES
  alive,          \* the memory of the Camera has not been released
  refCount,       \* pc->ref_count
  used,           \* pc->used, an unsigned char
  exitRequested,  \* pc->exit_requested
  lh,             \* pc->lh, an int in this build
  modelSet,       \* pc->a.model is not empty
  portSet,        \* port->type is not GP_PORT_NONE and port->pc->ops is set
  functions,      \* the driver filled camera->functions
  fsFuncs,        \* the driver called gp_filesystem_set_funcs
  pl,             \* the driver's camera->pl
  timeouts,       \* pc->timeout_ids_len
  funcs,          \* which of timeout_start_func, timeout_stop_func are set
  stack           \* the active API functions, the last one running

object   == <<alive, refCount>>
config   == <<modelSet, portSet, funcs>>
driver   == <<functions, fsFuncs, pl>>
vars == <<object, used, exitRequested, lh, config, driver, timeouts, stack>>

\* An operation guarded by CHECK_INIT ... CAMERA_UNUSED: "table" goes through
\* camera->functions, "fs" through the CameraFilesystem, "info" is
\* gp_camera_file_get_info.
Kinds == {"table", "fs", "info"}

Frames ==
  [proc : Kinds, pc : {"check", "init", "ready", "body", "fallback"}]
  \cup [proc : {"unused"}, pc : {"dec", "free"}]
  \cup [proc : {"init"}, pc : {"start", "detect", "failed", "port", "driver"}]
  \cup [proc : {"exit", "exitNull"}, pc : {"timeouts", "driver"}]
  \cup [proc : {"free"}, pc : {"exit", "release"}]

Frame(proc, pc) == [proc |-> proc, pc |-> pc]
Top == stack[Len(stack)]
Push(f) == Append(stack, f)
Popped(s) == [i \in 1..(Len(s) - 1) |-> s[i]]
Replaced(s, f) == [s EXCEPT ![Len(s)] = f]
Pop == Popped(stack)
Become(f) == Replaced(stack, f)
Goto(pc) == Become(Frame(Top.proc, pc))
Running(proc, pc) == stack # <<>> /\ Top = Frame(proc, pc)
RunningOp(pc) == stack # <<>> /\ Top.proc \in Kinds /\ Top.pc = pc
\* NULL context: gp_camera_free, gp_camera_set_abilities, ..._set_port_info.
RunningExit(pc) == Running("exit", pc) \/ Running("exitNull", pc)

\* The frame holds the "used" count taken by CHECK_INIT.
Holds(f) == f.proc \in Kinds \/ f = Frame("unused", "dec")
\* The frame is inside a function of the camera driver.
InDriver(f) == \/ f.proc \in Kinds /\ f.pc = "body"
               \/ f.proc \in {"init", "exit", "exitNull"} /\ f.pc = "driver"

\* Points at which the library or the driver calls the frontend back: the
\* GPContext functions, and the frontend's timeout_stop_func.
InCallback ==
  \/ RunningOp("body") \/ Running("init", "detect") \/ Running("init", "driver")
  \/ Running("exit", "driver")
  \/ RunningExit("timeouts") /\ timeouts > 0 /\ "stop" \in funcs

\* The frontend calls between two of its own top level calls, or from a
\* callback, and only while it still owns a reference.
MayCall(c) ==
  /\ refCount > 0
  /\ Len(stack) < MaxDepth
  /\ \/ stack = <<>>
     \/ InCallback /\ c \in (IF used # 0 THEN BusyCalls ELSE QuietCalls)

\* gp_camera_new
Init ==
  /\ alive = TRUE /\ refCount = 1 /\ used = 0 /\ exitRequested = FALSE
  /\ lh = FALSE /\ modelSet = FALSE /\ portSet = FALSE
  /\ functions = FALSE /\ fsFuncs = FALSE /\ pl = "null"
  /\ timeouts = 0 /\ funcs = {} /\ stack = <<>>
-----------------------------------------------------------------------------
(* The calls of the frontend.                                              *)

\* An operation takes "used" (CHECK_INIT).  With used # 0 it returns
\* GP_ERROR_CAMERA_BUSY and changes nothing: only the other case is a step.
CallOp(k) ==
  /\ MayCall("op") /\ used = 0
  /\ used' = 1
  /\ stack' = Push(Frame(k, "check"))
  /\ UNCHANGED <<object, exitRequested, lh, config, driver, timeouts>>

\* Mutant: the check of "used" dropped.
ExitHeadNotPostponed(proc) ==
  stack' = Push(Frame(proc, "timeouts")) /\ UNCHANGED exitRequested

\* The head of gp_camera_exit: postponed while the camera is in use.
ExitHead(proc) ==
  IF used # 0 THEN exitRequested' = TRUE /\ UNCHANGED stack
  ELSE stack' = Push(Frame(proc, "timeouts")) /\ UNCHANGED exitRequested

CallExit ==
  /\ MayCall("exit") /\ ExitHead("exit")
  /\ UNCHANGED <<object, used, lh, config, driver, timeouts>>

CallInit ==
  /\ MayCall("init") /\ stack' = Push(Frame("init", "start"))
  /\ UNCHANGED <<object, used, exitRequested, lh, config, driver, timeouts>>

CallRef ==
  /\ MayCall("ref") /\ refCount < MaxRef
  /\ refCount' = refCount + 1
  /\ UNCHANGED <<alive, used, exitRequested, lh, config, driver, timeouts, stack>>

\* Mutant: the last reference frees the camera even when it is in use.
CallUnrefInUse ==
  /\ MayCall("unref")
  /\ refCount' = refCount - 1
  /\ stack' = IF refCount = 1 THEN Push(Frame("free", "exit")) ELSE stack
  /\ UNCHANGED <<alive, used, exitRequested, lh, config, driver, timeouts>>

CallUnref ==
  /\ MayCall("unref")
  /\ refCount' = refCount - 1
  /\ stack' = IF refCount = 1 /\ used = 0 THEN Push(Frame("free", "exit")) ELSE stack
  /\ UNCHANGED <<alive, used, exitRequested, lh, config, driver, timeouts>>

\* gp_camera_set_abilities, gp_camera_set_port_info: a connection is
\* terminated first (postponed while in use), then the new value is copied.
CallSet ==
  /\ MayCall("set")
  /\ \/ modelSet' = TRUE /\ UNCHANGED <<portSet, funcs>>
     \/ portSet' = TRUE /\ UNCHANGED <<modelSet, funcs>>
  /\ IF lh THEN ExitHead("exitNull") ELSE UNCHANGED <<exitRequested, stack>>
  /\ UNCHANGED <<object, used, lh, driver, timeouts>>

CallSetTimeoutFuncs ==
  /\ MayCall("funcs") /\ funcs' \in TimeoutFuncs
  /\ UNCHANGED <<object, used, exitRequested, lh, modelSet, portSet, driver,
                 timeouts, stack>>
-----------------------------------------------------------------------------
(* gp_camera_init.  Return(ok) pops its frame; an operation that waited in *)
(* CHECK_INIT goes on, or releases the camera on an error (macro CR).      *)

Return(ok) ==
  LET caller == Len(stack) - 1
  IN stack' = IF caller > 0 /\ stack[caller].pc = "init"
              THEN Replaced(Pop, IF ok THEN Frame(stack[caller].proc, "ready")
                                 ELSE Frame("unused", "dec"))
              ELSE Pop

InitStart ==
  /\ Running("init", "start")
  /\ exitRequested' = FALSE
  /\ stack' = Goto(IF modelSet THEN "port" ELSE "detect")
  /\ UNCHANGED <<object, used, lh, config, driver, timeouts>>

\* Autodetection found a camera: gp_camera_set_abilities and _set_port_info.
InitDetected ==
  /\ Running("init", "detect")
  /\ modelSet' = TRUE /\ portSet' = TRUE
  /\ IF ~lh THEN stack' = Goto("port") /\ UNCHANGED exitRequested
     ELSE IF used # 0 THEN stack' = Goto("port") /\ exitRequested' = TRUE
     ELSE stack' = Append(Goto("port"), Frame("exitNull", "timeouts"))
          /\ UNCHANGED exitRequested
  /\ UNCHANGED <<object, used, lh, funcs, driver, timeouts>>

\* No camera found, or none at the chosen port.
InitNotDetected ==
  /\ Running("init", "detect")
  /\ Return(FALSE)
  /\ UNCHANGED <<object, used, exitRequested, lh, config, driver, timeouts>>

\* Macro CRSL in gp_camera_init: CAMERA_UNUSED for a count that belongs to
\* the caller, if to anybody; then the error is returned.
InitDetectError ==
  /\ Running("init", "detect") /\ DetectErrors
  /\ stack' = Append(Goto("failed"), Frame("unused", "dec"))
  /\ UNCHANGED <<object, used, exitRequested, lh, config, driver, timeouts>>

InitFailed ==
  /\ Running("init", "failed")
  /\ Return(FALSE)
  /\ UNCHANGED <<object, used, exitRequested, lh, config, driver, timeouts>>

\* GP_PORT_NONE is refused; otherwise lh is set before the driver is asked,
\* and camera_init of the driver begins by filling camera->functions and
\* allocating a new camera->pl.
InitPort ==
  /\ Running("init", "port")
  /\ IF portSet
     THEN /\ lh' = TRUE /\ functions' = TRUE /\ pl' = "partial"
          /\ stack' = Goto("driver") /\ UNCHANGED fsFuncs
     ELSE Return(FALSE) /\ UNCHANGED <<lh, driver>>
  /\ UNCHANGED <<object, used, exitRequested, config, timeouts>>

\* The driver connected and set the filesystem functions; or it failed, and
\* gp_camera_init clears the function table but not lh.
InitDriver ==
  /\ Running("init", "driver")
  /\ \/ fsFuncs' = TRUE /\ pl' = "open" /\ Return(TRUE) /\ UNCHANGED functions
     \/ functions' = FALSE /\ Return(FALSE) /\ UNCHANGED <<fsFuncs, pl>>
  /\ UNCHANGED <<object, used, exitRequested, lh, config, timeouts>>
-----------------------------------------------------------------------------
(* An operation, once CHECK_INIT let it in.                                *)

\* The second half of CHECK_INIT: if (!lh) gp_camera_init.
OpCheck ==
  /\ RunningOp("check")
  /\ stack' = IF lh THEN Goto("ready")
              ELSE Append(Goto("init"), Frame("init", "start"))
  /\ UNCHANGED <<object, used, exitRequested, lh, config, driver, timeouts>>

\* Mutant: CAMERA_UNUSED forgotten on the way out with NOT_SUPPORTED.
OpReadyNoUnused ==
  /\ RunningOp("ready")
  /\ \/ /\ IF Top.proc = "table" THEN functions ELSE fsFuncs
        /\ stack' = Goto("body")
     \/ stack' = IF Top.proc = "info" THEN Goto("fallback") ELSE Pop
  /\ UNCHANGED <<object, used, exitRequested, lh, config, driver, timeouts>>

\* Function present: call the driver.  Absent: GP_ERROR_NOT_SUPPORTED, from
\* which gp_camera_file_get_info goes on to its fallback.
OpReady ==
  /\ RunningOp("ready")
  /\ \/ /\ IF Top.proc = "table" THEN functions ELSE fsFuncs
        /\ stack' = Goto("body")
     \/ stack' = IF Top.proc = "info" THEN Goto("fallback")
                 ELSE Become(Frame("unused", "dec"))
  /\ UNCHANGED <<object, used, exitRequested, lh, config, driver, timeouts>>

\* The driver answers, with success or an error: the camera is released.
\* get_info_func may itself answer GP_ERROR_NOT_SUPPORTED.
OpBody ==
  /\ RunningOp("body")
  /\ \/ stack' = Become(Frame("unused", "dec"))
     \/ Top.proc = "info" /\ stack' = Goto("fallback")
  /\ UNCHANGED <<object, used, exitRequested, lh, config, driver, timeouts>>

\* gp_camera_file_get for the preview, while gp_camera_file_get_info still
\* holds "used": CHECK_INIT of the inner call answers busy.
OpFallback ==
  /\ RunningOp("fallback")
  /\ IF used # 0 THEN stack' = Become(Frame("unused", "dec")) /\ UNCHANGED used
     ELSE /\ used' = 1
          /\ stack' = Append(Become(Frame("unused", "dec")), Frame("fs", "check"))
  /\ UNCHANGED <<object, exitRequested, lh, config, driver, timeouts>>

\* gp_camera_start_timeout and gp_camera_stop_timeout, called by the driver.
DriverTimeouts ==
  /\ RunningOp("body") \/ Running("init", "driver")
  /\ \/ "start" \in funcs /\ timeouts < MaxTimeouts /\ timeouts' = timeouts + 1
     \/ "stop" \in funcs /\ timeouts > 0 /\ timeouts' = timeouts - 1
  /\ UNCHANGED <<object, used, exitRequested, lh, config, driver, stack>>

\* Mutant: exit_requested not looked at.
UnusedDecNoExit ==
  /\ Running("unused", "dec")
  /\ used' = (used - 1) % 256
  /\ stack' = IF used' # 0 THEN Pop ELSE Goto("free")
  /\ UNCHANGED <<object, exitRequested, lh, config, driver, timeouts>>

\* Macro CAMERA_UNUSED: the count drops, and at zero the postponed exit runs.
UnusedDec ==
  /\ Running("unused", "dec")
  /\ used' = (used - 1) % 256
  /\ stack' = IF used' # 0 THEN Pop
              ELSE IF exitRequested
                   THEN Append(Goto("free"), Frame("exit", "timeouts"))
                   ELSE Goto("free")
  /\ UNCHANGED <<object, exitRequested, lh, config, driver, timeouts>>

\* Mutant: ref_count not looked at.
UnusedFreeNever ==
  /\ Running("unused", "free") /\ stack' = Pop
  /\ UNCHANGED <<object, used, exitRequested, lh, config, driver, timeouts>>

\* ... then the postponed free.
UnusedFree ==
  /\ Running("unused", "free")
  /\ stack' = IF refCount = 0 THEN Become(Frame("free", "exit")) ELSE Pop
  /\ UNCHANGED <<object, used, exitRequested, lh, config, driver, timeouts>>
-----------------------------------------------------------------------------
(* gp_camera_exit past its head, and gp_camera_free.                       *)

\* Mutant: do ... while instead of while.
ExitTimeoutsDoWhile ==
  /\ RunningExit("timeouts")
  /\ timeouts' = (IF "stop" \in funcs THEN timeouts - 1 ELSE timeouts)
  /\ stack' = IF timeouts' > 0 THEN stack ELSE Goto("driver")
  /\ UNCHANGED <<object, used, exitRequested, lh, config, driver>>

\* Mutant: the pending timeouts are left alone.
ExitTimeoutsSkipped ==
  /\ RunningExit("timeouts") /\ stack' = Goto("driver")
  /\ UNCHANGED <<object, used, exitRequested, lh, config, driver, timeouts>>

\* Mutant: gp_camera_stop_timeout does not shorten timeout_ids.
ExitTimeoutsKept ==
  /\ RunningExit("timeouts")
  /\ stack' = IF timeouts > 0 THEN stack ELSE Goto("driver")
  /\ UNCHANGED <<object, used, exitRequested, lh, config, driver, timeouts>>

\* while (timeout_ids_len) gp_camera_stop_timeout (timeout_ids[0]), which
\* returns at once when there is no timeout_stop_func.
ExitTimeouts ==
  /\ RunningExit("timeouts")
  /\ IF timeouts > 0
     THEN timeouts' = (IF "stop" \in funcs THEN timeouts - 1 ELSE timeouts)
          /\ UNCHANGED stack
     ELSE stack' = Goto("driver") /\ UNCHANGED timeouts
  /\ UNCHANGED <<object, used, exitRequested, lh, config, driver>>

\* functions->exit, gp_port_close, the table cleared, lh reset.  The driver's
\* exit frees camera->pl at its end, which an error in it skips.
ExitDriver ==
  /\ RunningExit("driver")
  /\ pl' \in (IF ~functions THEN {pl} ELSE IF ExitErrors THEN {"null", pl} ELSE {"null"})
  /\ functions' = FALSE /\ lh' = FALSE
  /\ stack' = Pop
  /\ UNCHANGED <<object, used, exitRequested, config, fsFuncs, timeouts>>

\* Mutant: gp_camera_free without gp_camera_exit.
FreeExitSkipped ==
  /\ Running("free", "exit") /\ stack' = Goto("release")
  /\ UNCHANGED <<object, used, exitRequested, lh, config, driver, timeouts>>

FreeExit ==
  /\ Running("free", "exit")
  /\ IF lh /\ used = 0
     THEN stack' = Append(Goto("release"), Frame("exitNull", "timeouts"))
          /\ UNCHANGED exitRequested
     ELSE stack' = Goto("release") /\ exitRequested' = (exitRequested \/ lh)
  /\ UNCHANGED <<object, used, lh, config, driver, timeouts>>

FreeRelease ==
  /\ Running("free", "release")
  /\ alive' = FALSE /\ stack' = Pop
  /\ UNCHANGED <<refCount, used, exitRequested, lh, config, driver, timeouts>>
-----------------------------------------------------------------------------
Frontend == \/ \E k \in Kinds : CallOp(k)
            \/ CallExit \/ CallInit \/ CallRef \/ CallUnref \/ CallSet
            \/ CallSetTimeoutFuncs

\* Steps that bring the running function nearer to its return.
Library == \/ InitStart \/ InitDetected \/ InitNotDetected \/ InitDetectError
           \/ InitFailed \/ InitPort \/ InitDriver
           \/ OpCheck \/ OpReady \/ OpBody \/ OpFallback \/ UnusedDec \/ UnusedFree
           \/ ExitTimeouts \/ ExitDriver \/ FreeExit \/ FreeRelease

Next == Frontend \/ Library \/ DriverTimeouts

Spec == Init /\ [][Next]_vars

\* A called function runs on: WF for its steps.  A callback that keeps calling
\* the API must not starve the function it interrupts: the frontend's callback
\* returns, so SF for the steps taken at each depth of the stack.
FairSpec == Spec /\ WF_vars(Library)
                 /\ \A d \in 1..MaxDepth : SF_vars(Library /\ Len(stack) = d)
-----------------------------------------------------------------------------
TypeOK ==
  /\ alive \in BOOLEAN /\ refCount \in 0..MaxRef /\ used \in 0..255
  /\ exitRequested \in BOOLEAN /\ lh \in BOOLEAN
  /\ modelSet \in BOOLEAN /\ portSet \in BOOLEAN
  /\ functions \in BOOLEAN /\ fsFuncs \in BOOLEAN
  /\ pl \in {"null", "partial", "open"}
  /\ timeouts \in 0..MaxTimeouts /\ funcs \in SUBSET {"start", "stop"}
  /\ stack \in Seq(Frames)

Holders == {i \in 1..Len(stack) : Holds(stack[i])}

\* "used" counts the operations that CHECK_INIT let in and that did not reach
\* their CAMERA_UNUSED, on every error path, and there is at most one.
UsedMatchesOperation ==
  /\ used \in {0, 1}
  /\ \A i, j \in Holders : i = j
  /\ used = 1 <=> Holders # {}

\* No function of the library is running on a released Camera.
NoUseAfterFree == ~alive => stack = <<>>

\* The driver is not entered again while one of its functions runs: no
\* operation during an exit, no exit during an operation.
DriverNotReentered ==
  \A i, j \in 1..Len(stack) :
    InDriver(stack[i]) /\ InDriver(stack[j]) => i = j

\* An exit asked for while the camera was in use has happened when the
\* outermost call returns.
PostponedExitHonoured == stack = <<>> /\ alive /\ exitRequested => ~lh

\* A Camera whose last reference was dropped in a callback is released when
\* the outermost call returns.
LastReferenceFrees == stack = <<>> /\ refCount = 0 => ~alive

\* A released Camera left nothing behind: no session of the driver, and no
\* timeout that would fire on freed memory.
FreedDisconnected == ~alive => pl # "open" /\ ~lh /\ timeouts = 0

\* A timeout is pending only while the driver it calls is initialised.
TimeoutsOnlyWhileInitialised == timeouts > 0 => lh

\* CHECK_INIT promises an operation an initialised driver (the comment of
\* gp_camera_exit: reinitialized automatically): the driver's functions run
\* only on a camera the driver is connected to.
DriverRunsConnected == RunningOp("body") => pl = "open"

\* Every call of the frontend returns.
EveryCallReturns == []<>(stack = <<>>)
-----------------------------------------------------------------------------
\* The Camera implements the abstract session: "used" is what makes it busy,
\* the driver's open connection is the session.
Session == INSTANCE CameraSession WITH
             busy <- Holders # {}, connected <- pl = "open", released <- ~alive

\* The session ends only when no operation uses it, and the memory is released
\* only when the camera is idle and disconnected.
SessionSpec == Session!Spec
=============================================================================
