------------------------------ MODULE Dispatch ------------------------------
(***************************************************************************)
(* The device's command layer as operators: dispatch and find_entry        *)
(* (src/command.cpp), the thunk generated for each command                 *)
(* (include/eup/command.hpp), and the host's parsing of the reply          *)
(* (call, include/eup/host.hpp).                                           *)
(*                                                                         *)
(* A frame's payload is a sequence of bytes whose first element names an   *)
(* opcode or a status.  How arguments and results become bytes is given by *)
(* constant operators: module Codec has the field codecs of the code.  A   *)
(* handler is the constant operator Run: it maps an opcode, decoded        *)
(* arguments and the device's state to a status, results and the next      *)
(* state.                                                                  *)
(***************************************************************************)
EXTENDS Naturals, Sequences

CONSTANTS
    Table,              \* the opcodes of the command table
    DecodeArgs(_, _),   \* opcode, bytes: a record [ok, value]
    EncodeRets(_, _, _),\* opcode, results, room: a record [ok, bytes]
    DecodeRets(_, _),   \* opcode, bytes: a record [ok, value]
    Run(_, _, _),       \* the handlers
    LengthValues        \* the number of values of a payload's length

FrameworkStatus == {"UnknownCommand", "BadArguments", "ReplyTooLarge"}

\* A reply payload, and the state the device is left in.
Reply(status, bytes, state) == [payload |-> <<status>> \o bytes, state |-> state]

\* Mutant: the results are measured before the handler has run.
DispatchThunkRoomFirst(opcode, args, state, replyCap) ==
    LET decoded == DecodeArgs(opcode, args)
    IN  IF ~decoded.ok THEN Reply("BadArguments", <<>>, state)
        ELSE LET ran == Run(opcode, decoded.value, state)
                 rets == EncodeRets(opcode, ran.rets, replyCap)
             IN  IF rets.ok THEN Reply(ran.status, rets.bytes, ran.state)
                 ELSE Reply("ReplyTooLarge", <<>>, state)

\* dispatch_thunk, with replyCap the room after the status byte.  The handler has
\* run by the time its results turn out not to fit.
DispatchThunk(opcode, args, state, replyCap) ==
    LET decoded == DecodeArgs(opcode, args)
    IN  IF ~decoded.ok THEN Reply("BadArguments", <<>>, state)
        ELSE LET ran == Run(opcode, decoded.value, state)
                 rets == EncodeRets(opcode, ran.rets, replyCap)
             IN  IF rets.ok THEN Reply(ran.status, rets.bytes, ran.state)
                 ELSE Reply("ReplyTooLarge", <<>>, ran.state)

\* What remains of a payload whose length is cast to its type.
Narrowed(payload) == SubSeq(payload, 1, Len(payload) % LengthValues)

\* dispatch, for a reply buffer of at least one byte; cmd is the payload of a
\* frame of any type, its opcode first.
DispatchCommand(cmd, state, replyCap) ==
    IF cmd = <<>> \/ Head(cmd) \notin Table
    THEN Reply("UnknownCommand", <<>>, state)
    ELSE LET done == DispatchThunk(Head(cmd), Tail(cmd), state, replyCap - 1)
         IN  [payload |-> Narrowed(done.payload), state |-> done.state]

\* Step 3 of call: the status, then the results if the status is Ok; otherwise
\* they stay as they were initialised, here <<>>.
ParseReply(opcode, payload) ==
    LET rets == DecodeRets(opcode, Tail(payload))
    IN  IF payload = <<>> THEN [status |-> "TransportError", rets |-> <<>>]
        ELSE IF Head(payload) # "Ok" THEN [status |-> Head(payload), rets |-> <<>>]
        ELSE IF ~rets.ok THEN [status |-> "BadArguments", rets |-> <<>>]
        ELSE [status |-> "Ok", rets |-> rets.value]

=============================================================================
