------------------------------ MODULE PureCall -------------------------------
(***************************************************************************)
(* What PHLEX relies on when it registers an executor as the body of a     *)
(* transform: a call is a function of its own arguments.  It returns what  *)
(* Outcomes allows for those arguments, whatever was called before, or it  *)
(* throws.  A refused call (wrong number of arguments) is a stutter.        *)
(***************************************************************************)
CONSTANTS Args,          \* argument tuples
          Outcomes(_)    \* the results a call with these arguments may have

VARIABLES phase,     \* "idle", "busy", or "failed" after a throw
          args,      \* arguments of the current or last call
          result     \* result of the last call

Init(args0, result0) == phase = "idle" /\ args = args0 /\ result = result0

Call(a) == /\ phase = "idle"
           /\ phase' = "busy"
           /\ args' = a
           /\ UNCHANGED result

Return == /\ phase = "busy"
          /\ phase' = "idle"
          /\ result' \in Outcomes(args)
          /\ UNCHANGED args

Throw == /\ phase = "busy"
         /\ phase' = "failed"
         /\ UNCHANGED <<args, result>>

Next == (\E a \in Args : Call(a)) \/ Return \/ Throw

vars == <<phase, args, result>>
=============================================================================
