----------------------------- MODULE LocalCalls -----------------------------
(***************************************************************************)
(* What call over a link that loses nothing promises: it is the handler    *)
(* itself, called on the spot with the typed arguments, and it returns the *)
(* handler's own typed results.  Others may use the device in between.     *)
(***************************************************************************)
EXTENDS Naturals

CONSTANTS
    Arguments,      \* for each command, the argument tuples it is called with
    Run(_, _, _),   \* the handlers
    InitialDevice   \* the device's first state

VARIABLES
    calls, device,
    result          \* what the latest step returned, if it was a call

localVars == <<calls, device, result>>

NoResult == [command |-> "none", status |-> "Ok", rets |-> <<>>]

Init == calls = 0 /\ device = InitialDevice /\ result = NoResult

\* The command is compared first: results of two commands differ in type.
LocalCall(op, args) ==
    /\ calls' = calls + 1
    /\ result'.command = op
    /\ LET ran == Run(op, args, device)
       IN  /\ device' = ran.state
           /\ result' = [command |-> op, status |-> ran.status,
                         rets |-> IF ran.status = "Ok" THEN ran.rets ELSE <<>>]

UsedByOthers == UNCHANGED calls /\ result' = NoResult

Next ==
    \/ \E op \in DOMAIN Arguments : \E args \in Arguments[op] : LocalCall(op, args)
    \/ UsedByOthers

Spec == Init /\ [][Next]_localVars

=============================================================================
