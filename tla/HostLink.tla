------------------------------ MODULE HostLink ------------------------------
(***************************************************************************)
(* A host that calls commands one after the other (call in                 *)
(* include/eup/host.hpp, over the transport of bindings/eup_pybind.hpp), a *)
(* device that answers them and pushes telemetry on its own, and the two   *)
(* directions of the serial line between them.                             *)
(*                                                                         *)
(* What travels are whole frames: module FrameLink shows that the framing  *)
(* layer delivers a subsequence of the frames sent, so the line keeps the  *)
(* order and may lose frames.  Replies carry no identification on the      *)
(* wire; the field call is a ghost that no action reads to decide anything.*)
(***************************************************************************)
EXTENDS Dispatch

CONSTANTS
    Requests,       \* the command payloads the host may send
    InitialState,   \* the device's state after a reset
    ReplyCap,       \* the room for a reply payload
    LateReplies,    \* may an answer arrive after the host gave up on it?
    FailedSendsArrive,   \* may a Command arrive whose sending was reported to fail?
    Endless,        \* does the device push telemetry for ever?
    MaxCalls, MaxStreams, MaxLosses, MaxRestarts   \* bounds

ASSUME HostLinkAssumption ==
    /\ LateReplies \in BOOLEAN /\ Endless \in BOOLEAN
    /\ FailedSendsArrive \in BOOLEAN /\ (FailedSendsArrive => LateReplies)
    /\ ReplyCap \in Nat \ {0} /\ LengthValues \in Nat /\ ReplyCap < LengthValues
    /\ MaxCalls \in Nat /\ MaxStreams \in Nat
    /\ MaxLosses \in Nat /\ MaxRestarts \in Nat

VARIABLES
    hostPc,        \* "idle", or "await" inside await_reply
    calls,         \* how many calls were made; the number of the current one
    request,       \* the payload of the current or latest Command
    result,        \* what the latest call returned
    pending,       \* the received frames not yet looked at (pending_)
    toDevice, toHost,        \* the frames on the line
    state,                   \* the device's state (g_rgb)
    emitted,                 \* how many telemetry packets the device pushed
    losses, restarts,        \* how often frames were lost, the device restarted
    answered,                \* history: the calls that returned, each with the
                             \* call whose reply it was given
    delivered,               \* history: the packets given to the stream handler
    executed,                \* history: the latest executed call and its reply
    clean                    \* history: no reply was on its way when the call began

lineVars == <<toDevice, toHost>>
hostVars == <<hostPc, calls, request, result, pending>>
deviceVars == <<state, emitted, executed>>
faultVars == <<losses, restarts>>
historyVars == <<answered, delivered, clean>>
vars == <<hostVars, lineVars, deviceVars, faultVars, historyVars>>

Command(c, payload) == [type |-> "Command", call |-> c, payload |-> payload]
\* Mutant: the device sends its reply as a Command frame.
ReplyFrameMistyped(c, payload) == [type |-> "Command", call |-> c, payload |-> payload]

ReplyFrame(c, payload) == [type |-> "Reply", call |-> c, payload |-> payload]
Stream(n) == [type |-> "Stream", packet |-> n]

NoReply == 0
Answer(c) == [call |-> calls, by |-> c]
TransportError == [status |-> "TransportError", rets |-> <<>>]

Init ==
    /\ hostPc = "idle" /\ calls = 0 /\ request = <<>>
    /\ result = TransportError
    /\ pending = <<>> /\ toDevice = <<>> /\ toHost = <<>>
    /\ state = InitialState /\ emitted = 0
    /\ losses = 0 /\ restarts = 0
    /\ answered = <<>> /\ delivered = <<>>
    /\ executed = [call |-> 0, payload |-> <<>>] /\ clean = TRUE

RepliesIn(frames) == {n \in 1 .. Len(frames) : frames[n].type = "Reply"}
Quiet == toDevice = <<>> /\ RepliesIn(toHost) = {} /\ RepliesIn(pending) = {}

\* call: the Command is sent and await_reply begins.
Call ==
    /\ hostPc = "idle" /\ calls < MaxCalls
    /\ calls' = calls + 1
    /\ request' \in Requests
    /\ toDevice' = Append(toDevice, Command(calls', request'))
    /\ hostPc' = "await"
    /\ clean' = Quiet
    /\ UNCHANGED <<result, pending, toHost, deviceVars, faultVars, answered, delivered>>

\* call: send_command reports a link failure and the call is over, although the
\* Command may have gone out.
SendFails ==
    /\ hostPc = "idle" /\ calls < MaxCalls
    /\ calls' = calls + 1
    /\ request' \in Requests
    /\ result' = TransportError
    /\ \/ UNCHANGED toDevice
       \/ FailedSendsArrive /\ toDevice' = Append(toDevice, Command(calls', request'))
    /\ UNCHANGED <<hostPc, pending, toHost, deviceVars, faultVars, historyVars>>

\* next_byte reads a chunk when nothing is pending.
ReadChunk ==
    /\ hostPc = "await" /\ pending = <<>>
    /\ \E n \in 1 .. Len(toHost) :
          /\ pending' = SubSeq(toHost, 1, n)
          /\ toHost' = SubSeq(toHost, n + 1, Len(toHost))
    /\ UNCHANGED <<hostPc, calls, request, result, toDevice, deviceVars, faultVars, historyVars>>

\* The stream handler is given packets; with endless telemetry nobody counts.
Deliver(packets) ==
    delivered' = IF Endless THEN <<>> ELSE delivered \o packets

\* await_reply meets a Stream frame and hands it to its callback.
ConsumeStream ==
    /\ hostPc = "await" /\ pending # <<>>
    /\ Head(pending).type = "Stream"
    /\ Deliver(<<Head(pending).packet>>)
    /\ pending' = Tail(pending)
    /\ UNCHANGED <<hostPc, calls, request, result, lineVars, deviceVars, faultVars, answered, clean>>

\* Mutant: the bytes of the reply stay in the buffer.
ConsumeReplyKeeps ==
    /\ hostPc = "await" /\ pending # <<>>
    /\ Head(pending).type = "Reply"
    /\ result' = ParseReply(Head(request), Head(pending).payload)
    /\ answered' = Append(answered, Answer(Head(pending).call))
    /\ hostPc' = "idle"
    /\ UNCHANGED <<calls, request, pending, lineVars, deviceVars, faultVars, delivered, clean>>

\* Mutant: what follows the reply in the chunk is dropped.
ConsumeReplyDropsRest ==
    /\ hostPc = "await" /\ pending # <<>>
    /\ Head(pending).type = "Reply"
    /\ result' = ParseReply(Head(request), Head(pending).payload)
    /\ answered' = Append(answered, Answer(Head(pending).call))
    /\ pending' = <<>>
    /\ hostPc' = "idle"
    /\ UNCHANGED <<calls, request, lineVars, deviceVars, faultVars, delivered, clean>>

\* await_reply returns the first Reply it meets, and call parses it.
ConsumeReply ==
    /\ hostPc = "await" /\ pending # <<>>
    /\ Head(pending).type = "Reply"
    /\ result' = ParseReply(Head(request), Head(pending).payload)
    /\ answered' = Append(answered, Answer(Head(pending).call))
    /\ pending' = Tail(pending)
    /\ hostPc' = "idle"
    /\ UNCHANGED <<calls, request, lineVars, deviceVars, faultVars, delivered, clean>>

\* Mutant: an empty read does not end the wait.
TimeoutKeepsWaiting ==
    /\ hostPc = "await" /\ pending = <<>>
    /\ UNCHANGED vars

\* The read comes back empty.  Unless LateReplies, that happens only when there
\* is nothing left to wait for.
Timeout ==
    /\ hostPc = "await" /\ pending = <<>>
    /\ LateReplies \/ (toHost = <<>> /\ toDevice = <<>>)
    /\ result' = TransportError
    /\ answered' = Append(answered, Answer(NoReply))
    /\ hostPc' = "idle"
    /\ UNCHANGED <<calls, request, pending, lineVars, deviceVars, faultVars, delivered, clean>>

Packets(frames) ==
    LET upTo[n \in 0 .. Len(frames)] ==
            IF n = 0 THEN <<>>
            ELSE IF frames[n].type = "Stream" THEN Append(upTo[n - 1], frames[n].packet)
            ELSE upTo[n - 1]
    IN  upTo[Len(frames)]

\* Mutant: poll looks at the fresh read only.
PollFreshOnly ==
    /\ hostPc = "idle"
    /\ \E n \in 0 .. Len(toHost) :
          /\ Deliver(Packets(SubSeq(toHost, 1, n)))
          /\ toHost' = SubSeq(toHost, n + 1, Len(toHost))
    /\ UNCHANGED <<hostVars, toDevice, deviceVars, faultVars, answered, clean>>

\* poll: everything pending and one fresh read; Replies are dropped.
Poll ==
    /\ hostPc = "idle"
    /\ \E n \in 0 .. Len(toHost) :
          LET chunk == pending \o SubSeq(toHost, 1, n)
          IN  /\ chunk # <<>>
              /\ Deliver(Packets(chunk))
              /\ toHost' = SubSeq(toHost, n + 1, Len(toHost))
    /\ pending' = <<>>
    /\ UNCHANGED <<hostPc, calls, request, result, toDevice, deviceVars, faultVars, answered, clean>>

\* Mutant: the reply buffer is sent before the command has filled it.
HandlePacketStaleReply ==
    /\ toDevice # <<>>
    /\ LET cmd == Head(toDevice)
           done == DispatchCommand(cmd.payload, state, ReplyCap)
       IN  /\ state' = done.state
           /\ toHost' = Append(toHost, ReplyFrame(executed.call, executed.payload))
           /\ executed' = [call |-> cmd.call, payload |-> done.payload]
    /\ toDevice' = Tail(toDevice)
    /\ UNCHANGED <<hostVars, emitted, faultVars, historyVars>>

\* device_handle_packet: the command is dispatched and the reply goes out.
HandlePacket ==
    /\ toDevice # <<>>
    /\ LET cmd == Head(toDevice)
           done == DispatchCommand(cmd.payload, state, ReplyCap)
       IN  /\ state' = done.state
           /\ toHost' = Append(toHost, ReplyFrame(cmd.call, done.payload))
           /\ executed' = [call |-> cmd.call, payload |-> done.payload]
    /\ toDevice' = Tail(toDevice)
    /\ UNCHANGED <<hostVars, emitted, faultVars, historyVars>>

\* device_emit_telemetry
EmitTelemetry ==
    /\ \/ ~Endless /\ emitted < MaxStreams /\ emitted' = emitted + 1
       \/ Endless /\ Len(toHost) < MaxStreams /\ UNCHANGED emitted
    /\ toHost' = Append(toHost, Stream(emitted'))
    /\ UNCHANGED <<hostVars, toDevice, state, executed, faultVars, historyVars>>

LoseFrame ==
    /\ losses < MaxLosses
    /\ losses' = losses + 1
    /\ \/ toDevice # <<>> /\ toDevice' = Tail(toDevice) /\ UNCHANGED toHost
       \/ toHost # <<>> /\ toHost' = Tail(toHost) /\ UNCHANGED toDevice
    /\ UNCHANGED <<hostVars, deviceVars, restarts, historyVars>>

\* The device loses its state and what it had received.
DeviceRestart ==
    /\ restarts < MaxRestarts
    /\ restarts' = restarts + 1
    /\ state' = InitialState
    /\ toDevice' = <<>>
    /\ UNCHANGED <<hostVars, toHost, emitted, executed, losses, historyVars>>

HostStep == ReadChunk \/ ConsumeStream \/ ConsumeReply \/ Timeout

Next ==
    \/ Call
    \/ SendFails
    \/ HostStep
    \/ Poll
    \/ HandlePacket
    \/ EmitTelemetry
    \/ LoseFrame
    \/ DeviceRestart

Spec == Init /\ [][Next]_vars

\* A host inside await_reply keeps running and a silent line ends its read; a device that has
\* a command handles it.  Nothing else is promised to happen.
Fairness == WF_vars(HostStep) /\ WF_vars(HandlePacket)

FairSpec == Spec /\ Fairness

-----------------------------------------------------------------------------
(* The type of every variable.                                             *)
TypeOK ==
    /\ hostPc \in {"idle", "await"}
    /\ calls \in 0 .. MaxCalls /\ emitted \in 0 .. MaxStreams
    /\ losses \in 0 .. MaxLosses /\ restarts \in 0 .. MaxRestarts
    /\ request \in Requests \cup {<<>>}
    /\ \A n \in 1 .. Len(toDevice) : toDevice[n].type = "Command"
    /\ \A n \in 1 .. Len(pending \o toHost) :
          (pending \o toHost)[n].type \in {"Reply", "Stream"}
    /\ clean \in BOOLEAN

Replied == {n \in 1 .. Len(answered) : answered[n].by # NoReply}

(* What host.hpp asks of a transport (lines 20 to 24): await_reply returns *)
(* "the Reply to the command just sent", "only the matching Reply frame".  *)
RepliesMatch == \A n \in Replied : answered[n].by = answered[n].call

(* However late replies are, no reply answers two calls or a later call's  *)
(* question, and answers never overtake each other: a host that is out of  *)
(* step lags behind, it never reads ahead.                                 *)
AnswersInOrder ==
    /\ \A n \in Replied : answered[n].by <= answered[n].call
    /\ \A m, n \in Replied : m < n => answered[m].by < answered[n].by

(* A call that begins when no command or reply of an earlier one is on its *)
(* way gets its own reply or a TransportError: after a timeout, draining   *)
(* the line with poll puts the host back in step.                          *)
CleanCallMatches ==
    clean => \A n \in Replied :
        answered[n].call = calls => answered[n].by = calls

(* The stream handler sees the packets in the order the device pushed      *)
(* them, none twice, although await_reply and poll share the buffer of     *)
(* received bytes and both dispatch from it.                               *)
StreamsInOrder ==
    \A m, n \in 1 .. Len(delivered) : m < n => delivered[m] < delivered[n]

(* Until a frame is lost the host misses no packet: what it was given, is *)
(* buffering and has on the line is everything that was pushed.            *)
NoStreamLost ==
    losses = 0 =>
        delivered \o Packets(pending \o toHost) = [n \in 1 .. emitted |-> n]

(* Every call returns (host.hpp line 24: await_reply "returns false on a   *)
(* link failure or timeout").  It does when telemetry ends; when the       *)
(* device pushes for ever and the reply is lost, no read comes back empty  *)
(* and await_reply, which has no deadline of its own, does not return.     *)
CallReturns == hostPc = "await" ~> hostPc = "idle"

\* The abstract call: see AtMostOnceCall.
phase ==
    IF hostPc = "idle" THEN "idle"
    ELSE IF executed.call = calls THEN "executed" ELSE "called"

AbstractCall == INSTANCE AtMostOnceCall WITH
    outcome <- IF phase = "executed" THEN ParseReply(Head(request), executed.payload)
               ELSE TransportError

(* When no answer outlives the call it belongs to, a call is one atomic    *)
(* execution on the device or none: the caller is told what that execution *)
(* did, also when it changed the device and its results did not fit, a     *)
(* TransportError leaves open whether it ran, and nothing runs between     *)
(* calls.                                                                  *)
RefinesAbstractCall == AbstractCall!Spec

=============================================================================
