----------------------------- MODULE CodecCall -----------------------------
(***************************************************************************)
(* What a caller of comp_task or decomp_task may rely on: the call ends,   *)
(* once; success means that the destination is the whole output; a failure *)
(* leaves the destination as it was, or removes it, or, when it could not  *)
(* be closed or removed, leaves a part; the caller is told which of the two it was.   *)
(* BrotliTask implements it. MqttPub, TcpSession and HttpFileServer        *)
(* contain such a call as a step of theirs.                                *)
(***************************************************************************)

VARIABLES
  state,        \* "idle", "running", "succeeded" or "failed"
  destination,  \* "none", "old" (from an earlier call), "part" or "whole"
  told          \* "nothing", or the outcome the caller was told of

vars == <<state, destination, told>>

Init ==
  /\ state = "idle" /\ destination \in {"none", "old"} /\ told = "nothing"

\* xTaskCreate.
Begin ==
  /\ state = "idle" /\ state' = "running"
  /\ UNCHANGED <<destination, told>>

\* fopen for writing: what was there is gone.
Truncate ==
  /\ state = "running" /\ destination # "part" /\ destination' = "part"
  /\ UNCHANGED <<state, told>>

Succeed ==
  /\ state = "running" /\ state' = "succeeded"
  /\ destination = "part" /\ destination' = "whole"
  /\ UNCHANGED told

Fail ==
  /\ state = "running" /\ state' = "failed"
  /\ destination' = destination \/ (destination = "part" /\ destination' = "none")
  /\ UNCHANGED told

\* The notification arrives.
Tell ==
  /\ state \in {"succeeded", "failed"} /\ told = "nothing" /\ told' = state
  /\ UNCHANGED <<state, destination>>

Next == Begin \/ Truncate \/ Succeed \/ Fail \/ Tell

\* The promise without its liveness part.
Safe == Init /\ [][Next]_vars

\* A call that has begun ends, and the caller hears of it.
Spec == Safe /\ WF_vars(Succeed \/ Fail) /\ WF_vars(Tell)
=============================================================================
