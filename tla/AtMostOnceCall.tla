--------------------------- MODULE AtMostOnceCall ---------------------------
(***************************************************************************)
(* What a remote call promises: between its invocation and its return the  *)
(* command runs at most once on the device, atomically, and a return that  *)
(* is not a failure tells what that very run did.                          *)
(*                                                                         *)
(* There are no frames, payloads, buffers, lines and timeouts here, and no *)
(* operator of module Dispatch: what the caller is to be told is said case *)
(* by case, from the handler and the codecs of the command alone.          *)
(***************************************************************************)
EXTENDS Naturals, Sequences

CONSTANTS
    Table,                 \* the commands the device has
    DecodeArgs(_, _), EncodeRets(_, _, _), DecodeRets(_, _),   \* their codecs
    Run(_, _, _),          \* their handlers
    Requests,              \* what is called: a command and its arguments, encoded
    InitialState,          \* the device's first state
    ReplyCap               \* the room for a status and the results

VARIABLES
    phase,     \* "idle", "called" or "executed"
    request,   \* what the current or latest call calls
    state,     \* the device's state
    outcome,   \* what the caller is to be told, while phase is "executed"
    result     \* what the latest call returned

callVars == <<phase, request, state, outcome, result>>

Told(status, rets) == [status |-> status, rets |-> rets]
Failure == Told("TransportError", <<>>)

Init ==
    /\ phase = "idle" /\ request = <<>> /\ outcome = Failure
    /\ state = InitialState
    /\ result = Failure

Invoke ==
    /\ phase = "idle"
    /\ phase' = "called"
    /\ request' \in Requests
    /\ UNCHANGED <<state, outcome, result>>

-----------------------------------------------------------------------------
Known == request # <<>> /\ Head(request) \in Table
Given == DecodeArgs(Head(request), Tail(request))

\* No handler runs: nobody has the command, or it is given no arguments of its types.
Refuse ==
    /\ \/ ~Known /\ outcome' = Told("UnknownCommand", <<>>)
       \/ Known /\ ~Given.ok /\ outcome' = Told("BadArguments", <<>>)
    /\ UNCHANGED state

\* The handler runs, with all it does to the device.  The caller is told its
\* status, after Ok its results as far as the caller has the same types, and that
\* there was no room for them if there was none.
RunHandler ==
    /\ Known /\ Given.ok
    /\ LET ran == Run(Head(request), Given.value, state)
           sent == EncodeRets(Head(request), ran.rets, ReplyCap - 1)
           got == DecodeRets(Head(request), sent.bytes)
       IN  /\ state' = ran.state
           /\ \/ ~sent.ok /\ outcome' = Told("ReplyTooLarge", <<>>)
              \/ sent.ok /\ ran.status # "Ok" /\ outcome' = Told(ran.status, <<>>)
              \/ sent.ok /\ ran.status = "Ok" /\ got.ok /\ outcome' = Told("Ok", got.value)
              \/ sent.ok /\ ran.status = "Ok" /\ ~got.ok /\ outcome' = Told("BadArguments", <<>>)

Execute ==
    /\ phase = "called"
    /\ phase' = "executed"
    /\ Refuse \/ RunHandler
    /\ UNCHANGED <<request, result>>

-----------------------------------------------------------------------------
Return ==
    /\ phase = "executed"
    /\ phase' = "idle"
    /\ result' = outcome
    /\ outcome' = Failure
    /\ UNCHANGED <<request, state>>

\* The call fails, whether it ran or not.
Fail ==
    /\ phase # "idle"
    /\ phase' = "idle"
    /\ result' = Failure
    /\ outcome' = Failure
    /\ UNCHANGED <<request, state>>

\* The command cannot even be sent.
FailAtOnce ==
    /\ phase = "idle"
    /\ request' \in Requests
    /\ result' = Failure
    /\ UNCHANGED <<phase, state, outcome>>

DeviceReset ==
    /\ state' = InitialState
    /\ UNCHANGED <<phase, request, outcome, result>>

Next == Invoke \/ Execute \/ Return \/ Fail \/ FailAtOnce \/ DeviceReset

Spec == Init /\ [][Next]_callVars

=============================================================================
