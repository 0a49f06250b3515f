----------------------------- MODULE MC_Camera ------------------------------
(* Instances of Camera for TLC.                                            *)
EXTENDS Camera, TLC

\* What a well behaved frontend does in a callback of an operation: anything
\* but initialising the camera again.
CallbackCalls == {"op", "exit", "ref", "unref", "set", "funcs"}
NoCalls == {}

\* gp_camera_set_timeout_funcs is called with both functions, once.
BothFuncs == {{"start", "stop"}}
=============================================================================
