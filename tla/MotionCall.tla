----------------------------- MODULE MotionCall -----------------------------
(***************************************************************************)
(* What the sorter takes a blocking motion for, as AppSort has it: one     *)
(* call that succeeds or fails.  A transfer is in the table exactly when   *)
(* the call succeeds; a call that fails leaves the table alone and is      *)
(* followed by the safe stop of the fault; a homing motion tells nobody    *)
(* that it failed.  A stop may come at any time and decides neither.       *)
(***************************************************************************)

VARIABLES
  call,    \* the motion that runs, "stop" in the fault that follows, or "none"
  result,  \* how the last one ended
  latch,   \* an emergency stop holds
  moved    \* the table says the seedling was moved

vars == <<call, result, latch, moved>>

Init == call = "none" /\ result = "none" /\ latch = FALSE /\ moved = FALSE

Begin(c) ==
  /\ call = "none" /\ ~latch
  /\ c = "pick" => ~moved
  /\ call' = c /\ result' = "none"
  /\ UNCHANGED <<latch, moved>>

Succeed ==
  /\ call \in {"pick", "home", "belt"}
  /\ call' = "none" /\ result' = "ok"
  /\ moved' = (moved \/ call = "pick")
  /\ UNCHANGED latch

Fail ==
  /\ call \in {"pick", "belt"}
  /\ call' = "stop" /\ result' = "failed"
  /\ UNCHANGED <<latch, moved>>

SafeStop == call = "stop" /\ call' = "none" /\ UNCHANGED <<result, latch, moved>>

NewMatrix == call = "none" /\ moved' = FALSE /\ UNCHANGED <<call, result, latch>>

Stop  == ~latch /\ latch' = TRUE /\ UNCHANGED <<call, result, moved>>
Clear == call = "none" /\ latch' = FALSE /\ UNCHANGED <<call, result, moved>>

Next ==
  \/ \E c \in {"pick", "home", "belt"} : Begin(c)
  \/ Succeed \/ Fail \/ SafeStop \/ NewMatrix \/ Stop \/ Clear

Spec == Init /\ [][Next]_vars
=============================================================================
