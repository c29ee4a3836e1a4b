----------------------- MODULE MCBridgeActionExecutor -----------------------
(* Model-checking instance of BridgeActionExecutor: two actions, queues of *)
(* capacity one so that back-pressure happens, retry caps of one so that   *)
(* both give-up paths are reached, and one crash/restart.                  *)
EXTENDS BridgeActionExecutor

CONSTANTS a1, a2

MCActions == {a1, a2}
=============================================================================
