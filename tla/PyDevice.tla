------------------------------ MODULE PyDevice ------------------------------
(***************************************************************************)
(* The Python Device of bindings/eup_pybind.hpp, byte by byte: one         *)
(* FrameReader and one buffer of received bytes (pending_) behind commands *)
(* (call over send_command and await_reply) and poll, used by several      *)
(* Python threads, by stream callbacks that call back into the Device, and *)
(* with callbacks and ports that raise.                                    *)
(*                                                                         *)
(* A thread holds the GIL from one call into Python to the next; there,    *)
(* in the port's write and read and in a callback, any thread may go on.   *)
(* The stack of a thread holds its unfinished operations, and the          *)
(* callbacks between them, innermost last.                                 *)
(*                                                                         *)
(* A frame travels as two bytes, its body and the delimiter, so that a     *)
(* read can cut it.  Frames are numbered as they are sent (nr); no action  *)
(* decides anything by that number or by the call a reply belongs to.      *)
(***************************************************************************)
EXTENDS Naturals, Sequences, FiniteSets, SequencesExt

CONSTANTS
    Threads,
    None,           \* no thread
    Delimiter,
    ReadFirst,      \* which operand of + in poll the build evaluates first,
                    \* {TRUE}: read_chunk, {FALSE}: pending_.substr
    MayRaise,       \* may callbacks and the port raise?
    MaxDepth,       \* bound on operations nested in each other
    MaxCalls, MaxPolls, MaxPackets

\* The bodies of frames.
FrameBody == [type : {"Reply", "Stream"}, nr : Nat, call : Nat]

ASSUME PyDeviceAssumption ==
    /\ Delimiter \notin FrameBody
    /\ None \notin Threads
    /\ ReadFirst \subseteq BOOLEAN

VARIABLES
    region, overflow, frame, lastStatus, event,   \* reader_
    pending,        \* pending_ from pending_pos_ on
    registered,     \* does callbacks_ have an entry for the stream?
    stack,          \* the unfinished operations of each thread
    gil,            \* the thread that runs the Device's code, or None
    terminated,     \* an exception met noexcept: the process is gone
    readFirst,      \* member of ReadFirst
    toDevice,       \* calls whose Command is on the line
    line,           \* the bytes on the line to the host
    calls, polls, packets, sent,     \* counters
    seen,           \* history: the numbers of the frames the reader completed
    answered,       \* history: the finished calls and the replies they got
    discarded,      \* history: frames of which a raising callback cost bytes
    overlapped,     \* history: did two threads use the Device at once?
    nestedInPoll    \* history: did a callback of poll use the Device?

readerVars == <<region, overflow, frame, lastStatus, event>>
portVars == <<toDevice, line, packets, sent>>
usageVars == <<overlapped, nestedInPoll>>
historyVars == <<seen, answered, discarded>>
vars == <<readerVars, pending, registered, stack, gil, terminated, readFirst,
          portVars, calls, polls, historyVars, usageVars>>

NoFrame == [type |-> "None", nr |-> 0, call |-> 0]
NoCall == 0

Reader == INSTANCE FrameReader WITH
    Byte <- {Delimiter}, RegionCap <- 255, Frame <- {NoFrame}, InitialFrame <- NoFrame,
    FrameStatus <- {"Ok", "BufferTooSmall", "CrcMismatch"},
    DecodeRegion <- LAMBDA r : IF Len(r) = 1 THEN [status |-> "Ok", frame |-> r[1]]
                               ELSE [status |-> "CrcMismatch", frame |-> NoFrame]

Init ==
    /\ Reader!Init
    /\ pending = <<>> /\ registered = FALSE
    /\ stack = [t \in Threads |-> <<>>] /\ gil = None /\ terminated = FALSE
    /\ readFirst \in ReadFirst
    /\ toDevice = <<>> /\ line = <<>>
    /\ calls = 0 /\ polls = 0 /\ packets = 0 /\ sent = 0
    /\ seen = <<>> /\ answered = {} /\ discarded = {}
    /\ overlapped = FALSE /\ nestedInPoll = FALSE

-----------------------------------------------------------------------------
\* Operations and callbacks on a thread's stack.
Call(n, alone) == [op |-> "call", pc |-> "send", call |-> n, chunk |-> <<>>, alone |-> alone]
Poll(rest) == [op |-> "poll", pc |-> "read", call |-> 0, chunk |-> rest, alone |-> FALSE]
Callback == [op |-> "callback", pc |-> "python", call |-> 0, chunk |-> <<>>, alone |-> FALSE]

Top(t) == Last(stack[t])
In(t, op, pc) == stack[t] # <<>> /\ Top(t).op = op /\ Top(t).pc = pc
InPython(t) == stack[t] # <<>> => Top(t).op = "callback"

Popped(t) == [stack EXCEPT ![t] = Front(@)]
GoTo(t, pc) == [stack EXCEPT ![t][Len(stack[t])].pc = pc]

Depth(t) == Cardinality({k \in 1 .. Len(stack[t]) : stack[t][k].op # "callback"})
OthersActive(t) == \E u \in Threads \ {t} : stack[u] # <<>>

\* What a newly begun operation means for those that are under way.
Disturb(t) ==
    /\ overlapped' = (overlapped \/ OthersActive(t))
    /\ nestedInPoll' = (nestedInPoll \/ \E k \in 1 .. Len(stack[t]) : stack[t][k].op = "poll")
NoLongerAlone ==
    [t \in Threads |-> [k \in 1 .. Len(stack[t]) |-> [stack[t][k] EXCEPT !.alone = FALSE]]]

IsReply(byte) == byte # Delimiter /\ byte.type = "Reply"
Quiet ==
    /\ toDevice = <<>>
    /\ \A s \in {region, pending, line} : \A k \in 1 .. Len(s) : ~IsReply(s[k])

\* Python code runs: the thread holds no lock of the Device's.
Python(t) == ~terminated /\ gil = None /\ InPython(t)

\* add_command's lambda: the GIL is released and call begins.
BeginCall(t) ==
    /\ Python(t) /\ calls < MaxCalls /\ Depth(t) < MaxDepth
    /\ calls' = calls + 1
    /\ LET alone == Quiet /\ \A u \in Threads : stack[u] = <<>>
       IN  stack' = [NoLongerAlone EXCEPT ![t] = Append(@, Call(calls', alone))]
    /\ Disturb(t)
    /\ UNCHANGED <<readerVars, pending, registered, gil, terminated, readFirst, portVars,
                   polls, historyVars>>

\* poll: the operands of + are evaluated in the order of this build.
BeginPoll(t) ==
    /\ Python(t) /\ polls < MaxPolls /\ Depth(t) < MaxDepth
    /\ polls' = polls + 1
    /\ stack' = [NoLongerAlone EXCEPT ![t] =
                    Append(@, Poll(IF readFirst THEN <<>> ELSE pending))]
    /\ Disturb(t)
    /\ UNCHANGED <<readerVars, pending, registered, gil, terminated, readFirst, portVars,
                   calls, historyVars>>

\* on
Register(t) ==
    /\ Python(t) /\ ~registered
    /\ registered' = TRUE
    /\ UNCHANGED <<readerVars, pending, stack, gil, terminated, readFirst, portVars, calls,
                   polls, historyVars, usageVars>>

\* send_command: the port's write, under the GIL that was taken for it.
SendCommand(t) ==
    /\ ~terminated /\ gil = None /\ In(t, "call", "send")
    /\ toDevice' = Append(toDevice, Top(t).call)
    /\ stack' = GoTo(t, "await")
    /\ UNCHANGED <<readerVars, pending, registered, gil, terminated, readFirst, line,
                   packets, sent, calls, polls, historyVars, usageVars>>

\* await_reply takes the GIL again.
EnterAwait(t) ==
    /\ ~terminated /\ gil = None /\ In(t, "call", "await")
    /\ gil' = t
    /\ stack' = GoTo(t, "loop")
    /\ UNCHANGED <<readerVars, pending, registered, terminated, readFirst, portVars, calls,
                   polls, historyVars, usageVars>>

\* FrameReader::push.
PushByte(byte) ==
    /\ Reader!Push(byte)
    /\ seen' = IF event' = "FrameReady" THEN Append(seen, frame'.nr) ELSE seen

\* Mutant: what the reader holds is looked at, not whether it is new.
CompletedStale(type) == lastStatus' = "Ok" /\ frame'.type = type

Completed(type) == event' = "FrameReady" /\ frame'.type = type

\* Mutant: the GIL is still held when the callback runs, and it is no recursive lock.
EnterCallbackHolding(t, below) ==
    /\ stack' = [below EXCEPT ![t] = Append(@, Callback)] /\ UNCHANGED gil

\* dispatch_stream finds a handler and calls into Python.
EnterCallback(t, below) ==
    /\ stack' = [below EXCEPT ![t] = Append(@, Callback)]
    /\ gil' = None

\* A call ends, with a frame or, without one, with a TransportError.
Answer(t, status, f) ==
    answered' = answered \cup {[call |-> Top(t).call, alone |-> Top(t).alone,
                                status |-> status, by |-> f.call, nr |-> f.nr]}

\* Mutant: whatever frame is complete is the reply.
AwaitByteAnyFrame(t) ==
    /\ gil = t /\ In(t, "call", "loop") /\ pending # <<>>
    /\ PushByte(Head(pending))
    /\ pending' = Tail(pending)
    /\ IF event' = "FrameReady"
       THEN /\ Answer(t, "Ok", frame')
            /\ stack' = Popped(t) /\ gil' = None
       ELSE UNCHANGED <<stack, gil, answered>>
    /\ UNCHANGED <<registered, terminated, readFirst, portVars, calls, polls, discarded,
                   usageVars>>

\* await_reply: one byte of pending_.
AwaitByte(t) ==
    /\ gil = t /\ In(t, "call", "loop") /\ pending # <<>>
    /\ PushByte(Head(pending))
    /\ pending' = Tail(pending)
    /\ \/ /\ Completed("Reply")
          /\ Answer(t, "Ok", frame')
          /\ stack' = Popped(t) /\ gil' = None
       \/ /\ Completed("Stream") /\ registered
          /\ EnterCallback(t, stack)
          /\ UNCHANGED answered
       \/ /\ ~Completed("Reply") /\ ~(Completed("Stream") /\ registered)
          /\ UNCHANGED <<stack, gil, answered>>
    /\ UNCHANGED <<registered, terminated, readFirst, portVars, calls, polls, discarded,
                   usageVars>>

\* next_byte: nothing is pending, the port's read begins.
BeginRead(t) ==
    /\ gil = t /\ In(t, "call", "loop") /\ pending = <<>>
    /\ stack' = GoTo(t, "read") /\ gil' = None
    /\ UNCHANGED <<readerVars, pending, registered, terminated, readFirst, portVars, calls,
                   polls, historyVars, usageVars>>

\* The port's read returns n bytes.
TakeFromLine(n) == line' = SubSeq(line, n + 1, Len(line))

\* next_byte: the chunk replaces whatever pending_ holds by now.
AwaitRead(t) ==
    /\ ~terminated /\ gil = None /\ In(t, "call", "read")
    /\ \E n \in 1 .. Len(line) : TakeFromLine(n) /\ pending' = SubSeq(line, 1, n)
    /\ stack' = GoTo(t, "loop") /\ gil' = t
    /\ UNCHANGED <<readerVars, registered, terminated, readFirst, toDevice, packets, sent,
                   calls, polls, historyVars, usageVars>>

\* next_byte: an empty read, await_reply returns false.
AwaitTimeout(t) ==
    /\ ~terminated /\ gil = None /\ In(t, "call", "read")
    /\ pending' = <<>>
    /\ Answer(t, "TransportError", NoFrame)
    /\ stack' = Popped(t)
    /\ UNCHANGED <<readerVars, registered, gil, terminated, readFirst, portVars, calls, polls,
                   seen, discarded, usageVars>>

\* Mutant: only what was just read is looked at.
PollReadFreshOnly(t) ==
    /\ ~terminated /\ gil = None /\ In(t, "poll", "read")
    /\ \E n \in 0 .. Len(line) :
          /\ TakeFromLine(n)
          /\ stack' = [GoTo(t, "loop") EXCEPT ![t][Len(stack[t])].chunk = SubSeq(line, 1, n)]
    /\ pending' = <<>> /\ gil' = t
    /\ UNCHANGED <<readerVars, registered, terminated, readFirst, toDevice, packets, sent,
                   calls, polls, historyVars, usageVars>>

\* Mutant: what was pending stays there.
PollReadKeepsPending(t) ==
    /\ ~terminated /\ gil = None /\ In(t, "poll", "read")
    /\ LET rest == IF readFirst THEN pending ELSE Top(t).chunk
       IN  \E n \in 0 .. Len(line) :
              /\ TakeFromLine(n)
              /\ stack' = [GoTo(t, "loop") EXCEPT
                              ![t][Len(stack[t])].chunk = rest \o SubSeq(line, 1, n)]
    /\ gil' = t
    /\ UNCHANGED <<readerVars, pending, registered, terminated, readFirst, toDevice, packets,
                   sent, calls, polls, historyVars, usageVars>>

\* poll: its chunk is complete, pending_ is cleared.
PollRead(t) ==
    /\ ~terminated /\ gil = None /\ In(t, "poll", "read")
    /\ LET rest == IF readFirst THEN pending ELSE Top(t).chunk
       IN  \E n \in 0 .. Len(line) :
              /\ TakeFromLine(n)
              /\ stack' = [GoTo(t, "loop") EXCEPT
                              ![t][Len(stack[t])].chunk = rest \o SubSeq(line, 1, n)]
    /\ pending' = <<>> /\ gil' = t
    /\ UNCHANGED <<readerVars, registered, terminated, readFirst, toDevice, packets, sent,
                   calls, polls, historyVars, usageVars>>

\* poll: one byte of the chunk; a Reply is dropped.
PollByte(t) ==
    /\ gil = t /\ In(t, "poll", "loop") /\ Top(t).chunk # <<>>
    /\ PushByte(Head(Top(t).chunk))
    /\ LET rest == [stack EXCEPT ![t][Len(stack[t])].chunk = Tail(@)]
       IN  IF Completed("Stream") /\ registered THEN EnterCallback(t, rest)
           ELSE stack' = rest /\ UNCHANGED gil
    /\ UNCHANGED <<pending, registered, terminated, readFirst, portVars, calls, polls,
                   answered, discarded, usageVars>>

PollReturns(t) ==
    /\ gil = t /\ In(t, "poll", "loop") /\ Top(t).chunk = <<>>
    /\ stack' = Popped(t) /\ gil' = None
    /\ UNCHANGED <<readerVars, pending, registered, terminated, readFirst, portVars, calls,
                   polls, historyVars, usageVars>>

CallbackReturns(t) ==
    /\ ~terminated /\ gil = None /\ In(t, "callback", "python")
    /\ stack' = Popped(t) /\ gil' = t
    /\ UNCHANGED <<readerVars, pending, registered, terminated, readFirst, portVars, calls,
                   polls, historyVars, usageVars>>

\* What the innermost operation of a thread raises: poll passes it on to its
\* caller, call is noexcept.
Raise(t, operation) ==
    IF operation.op = "call"
    THEN /\ terminated' = TRUE /\ stack' = [u \in Threads |-> <<>>]
         /\ UNCHANGED discarded
    ELSE /\ discarded' = discarded \cup
                {operation.chunk[k].nr : k \in {j \in 1 .. Len(operation.chunk) :
                                                   operation.chunk[j] # Delimiter}}
         /\ UNCHANGED terminated

\* A callback raises through dispatch_stream, or the decoder of its packet does.
CallbackRaises(t) ==
    /\ MayRaise /\ ~terminated /\ gil = None /\ In(t, "callback", "python")
    /\ LET operation == Last(Front(stack[t]))
       IN  /\ Raise(t, operation)
           /\ \/ operation.op = "call"
              \/ operation.op = "poll" /\ stack' = [stack EXCEPT ![t] = Front(Front(@))]
    /\ UNCHANGED <<readerVars, pending, registered, gil, readFirst, portVars, calls, polls,
                   seen, answered, usageVars>>

\* The port's write or read raises.  In poll nothing has been taken yet.
PortRaises(t) ==
    /\ MayRaise /\ ~terminated /\ gil = None
    /\ \/ /\ In(t, "call", "send") \/ In(t, "call", "read")
          /\ Raise(t, Top(t))
       \/ /\ In(t, "poll", "read")
          /\ stack' = Popped(t)
          /\ UNCHANGED <<terminated, discarded>>
    /\ UNCHANGED <<readerVars, pending, registered, gil, readFirst, portVars, calls, polls,
                   seen, answered, usageVars>>

-----------------------------------------------------------------------------
\* The device's side of the line.
Transmit(type, call) ==
    /\ sent' = sent + 1
    /\ line' = line \o <<[type |-> type, nr |-> sent', call |-> call], Delimiter>>

DeviceReplies ==
    /\ ~terminated /\ toDevice # <<>>
    /\ Transmit("Reply", Head(toDevice))
    /\ toDevice' = Tail(toDevice)
    /\ UNCHANGED <<readerVars, pending, registered, stack, gil, terminated, readFirst, packets,
                   calls, polls, historyVars, usageVars>>

DevicePushes ==
    /\ ~terminated /\ packets < MaxPackets
    /\ packets' = packets + 1
    /\ Transmit("Stream", NoCall)
    /\ UNCHANGED <<readerVars, pending, registered, stack, gil, terminated, readFirst, toDevice,
                   calls, polls, historyVars, usageVars>>

\* A thread inside an operation goes on: by itself, or when its read or callback ends.
Continue(t) ==
    \/ SendCommand(t) \/ EnterAwait(t) \/ AwaitByte(t) \/ BeginRead(t)
    \/ AwaitRead(t) \/ AwaitTimeout(t)
    \/ PollRead(t) \/ PollByte(t) \/ PollReturns(t)
    \/ CallbackReturns(t)

Next ==
    \/ \E t \in Threads :
          \/ BeginCall(t) \/ BeginPoll(t) \/ Register(t)
          \/ Continue(t)
          \/ CallbackRaises(t) \/ PortRaises(t)
    \/ DeviceReplies \/ DevicePushes

Spec == Init /\ [][Next]_vars

Fairness == \A t \in Threads : WF_vars(Continue(t))

FairSpec == Spec /\ Fairness

-----------------------------------------------------------------------------
InTransit(s) == {s[k].nr : k \in {j \in 1 .. Len(s) : s[j] # Delimiter}}
Chunks == UNION {{stack[t][k].chunk : k \in 1 .. Len(stack[t])} : t \in Threads}
Buffered == UNION {InTransit(s) : s \in {region, pending, line} \cup Chunks}

(* As long as one thread at a time uses the Device and no callback of poll *)
(* does, frames come out of it in the order they were sent, none is lost   *)
(* between await_reply's buffer, poll's chunk, the reader and the port,    *)
(* however reads cut them; callbacks of commands may use the Device, and a *)
(* callback that raises in poll costs the rest of its chunk and no more.   *)
FramesAccounted ==
    ~overlapped /\ ~nestedInPoll =>
        /\ ToSet(seen) \cup discarded \cup Buffered = 1 .. sent
        /\ \A m, n \in 1 .. Len(seen) : m < n => seen[m] < seen[n]
        /\ \A m \in ToSet(seen), n \in Buffered : m < n

(* No frame is handled twice, with threads, nested operations and          *)
(* exceptions, provided the build evaluates poll's read before it copies   *)
(* pending_; otherwise as long as one thread at a time uses the Device.    *)
SeenOnce ==
    readFirst \/ ~overlapped =>
        \A m, n \in 1 .. Len(seen) : seen[m] = seen[n] => m = n

(* No two calls return the same reply, under the same condition: threads   *)
(* that overlap may take each other's replies, but what one has taken is   *)
(* gone for the others, although they share the reader, which keeps the    *)
(* frame it completed last, and the bytes before it.                       *)
ReplyUsedOnce ==
    readFirst \/ ~overlapped =>
        \A a, b \in answered : a.status = "Ok" /\ b.status = "Ok" /\ a.nr = b.nr => a = b

(* A command that begins on a quiet link and is alone until it ends        *)
(* returns its own reply or a TransportError, whatever threads, nested     *)
(* operations and exceptions did to the buffers before.                    *)
LoneCallMatches == \A a \in answered : a.alone /\ a.status = "Ok" => a.by = a.call

(* Every operation ends: no thread waits for a GIL that a nested operation *)
(* or another thread's wait keeps.                                         *)
OperationsReturn == \A t \in Threads : stack[t] # <<>> ~> stack[t] = <<>>

=============================================================================
