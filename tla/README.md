# Verification of the Embedded Unified Protocol

TLA+ models of the protocol library in `src/`: the byte stuffing and framing of
packets, the streaming reader, typed calls and streams with their field codecs, a
remote call over a serial line that loses frames while the device pushes telemetry of
its own, and the Python `Device` under threads, nested callbacks and exceptions.  TLC
checks small instances of every model; TLAPS proves properties of the byte stuffing,
the framing, the reader, the line in front of it, the CRC, the host link and the Python
`Device` for every size, input and number of calls, threads and faults.

Paths below are relative to the repository; `file:line` refers to its source.

## 1. The system

    host application                                     device application
        call<Def>  ---- Command -------------------------->  dispatch -> handler
        (host.hpp)                                           (command.cpp)
        call<Def>  <--- Reply -----------------------------  encode_frame
        callback   <--- Stream (unsolicited) --------------  StreamWriter
            ^                                                     |
        Device (eup_pybind.hpp): await_reply, poll                |
            ^                                                     v
        FrameReader::push  <-- bytes, 0x00 ends a frame --  COBS( TYPE LEN PAYLOAD CRC ) 0x00

| Component | State it keeps | Operations | Interacts with |
|---|---|---|---|
| CRC-16 (`src/crc16.cpp`) | none | `crc16_ccitt_update` | called by framing, both ends |
| COBS (`src/cobs.cpp`) | none; loop indices into two buffers | `cobs_encode`, `cobs_decode` | called by framing; `raw[]` is uninitialised there |
| Framing (`src/frame.cpp`) | none; fills the caller's `Frame` only on success | `encode_frame`, `decode_region` | COBS, CRC, `FrameReader` |
| `FrameReader` (`src/frame.cpp`) | region buffer, length, `overflow_`, last good frame, last status | `push`, `reset` | fed by both receive paths |
| Dispatch (`src/command.cpp`, `command.hpp`) | none; runs a handler that changes the device | `dispatch`, `find_entry`, `dispatch_thunk` | frame in, reply payload out |
| Codec (`codec.hpp`) | none | codecs of integers, floats, bool, enums, spans; `encode_tuple`, `decode_tuple` | thunks, `call`, streams |
| Streams (`stream.hpp`) | none | `StreamWriter::write`, `dispatch_stream` | codec, framing |
| Host call (`host.hpp`) | none between calls | `call<Def>` | a transport: `send_command`, `await_reply` |
| Python `Device` (`bindings/eup_pybind.hpp`) | `reader_`, `pending_`, `pending_pos_`, callbacks | `send_command`, `await_reply`, `poll`, `on` | serial port, callbacks, Python threads |
| Firmware example (`examples/rgb_led_adc/device.cpp`) | colour, name, uptime | `device_handle_packet`, `device_emit_telemetry`, seven handlers | dispatch, framing, streams |

What is hard here:

* **Failure of the line.**  Bytes vanish, change or appear; either end restarts in
  the middle of a frame.  Correctness is about which *other* frames suffer.
* **Ordering.**  Replies and telemetry share one line and one receive buffer, and
  two operations (`await_reply`, `poll`) consume from that buffer.
* **Timeouts.**  A call that gives up leaves a reply behind.  Replies carry no
  sequence number.
* **Limits.**  A full COBS block, the full region buffer, the reserved delimiter
  byte, an uninitialised buffer whose every byte read must have been written.
* **Reentrancy and threads.**  Stream callbacks run inside `await_reply` and
  `poll` and may use the `Device` again; commands release the GIL, and so does every
  read, write and callback; a callback may raise through a function that is `noexcept`.
* **Two meanings of one status.**  `BadArguments` comes from the device, which then ran
  nothing, or from the host, which could not read the results of a handler that ran.

What makes each component correct is stated with its module below; the hazards,
each at its line with the properties that cover it, are in `PROJECT.json`.

## 2. Modules

| Module | Models | Correspondence to the code |
|---|---|---|
| `CobsEncode` | `cobs_encode`, `cobs_max_encoded_size` | One action per way through the loop body: `ZeroByte`, `DataByteNoRoom`, `DataByte`, `LastByteOfFullBlock`, `CloseFinalBlock`; `write`, `codeIdx`, `code` are the code's variables; `dst` starts as zeros, the value no encoding may contain. |
| `CobsDecode` | `cobs_decode` | `ReadCode`, `CopyByte`, `EndBlock`, `EndOfInput`; every cell of `dst` starts as `Unwritten`, so a byte reported but not written is visible. |
| `Cobs` | the definition of COBS | No loop or buffer: runs of non-zero bytes, and chains of code positions.  The two machines are compared with it. |
| `Framing` | `encode_frame`, `decode_region`, the `encode_frame` of the Python modules | Operators; the COBS codec and the CRC are constants (`CobsAssumption`, `CrcAssumption` say what is asked of them).  `BlockStatus` holds the checks in the code's order; `Narrowed` is the cast of the payload's size in the bindings. |
| `FrameRoundTrip` | encode, damage, decode | Actions `Encode`, `PyEncode`, `Damage`, `Decode` around `Framing`. |
| `FrameReader` | `FrameReader::push`, `reset` | `Push` is the disjunction of the five ways through `push`; `decode_region` is a constant operator. |
| `FrameSplitter` | abstract | An unbounded piece of the wire, accepted or refused as a whole. |
| `FrameReaderHistory` | refinement | Adds the history variable `piece`; `RefinesSplitter` maps the reader to `FrameSplitter`. |
| `FrameLink` | a faulty byte line into a `FrameReader` | Composes `FrameReader` with a sender and the faults `Drop`, `Corrupt`, `Insert`, `Restart`. |
| `Crc16` | `crc16_ccitt_update` | The loop over the message that `encode_frame` sends and over its damaged copy in `decode_region` at once, and the comparison with the field of the raw block, which is sent low byte first and may be damaged too.  A word is its set of 1-bits.  Its names (`CrcInit`, `CrcSpec`) are its own, so that `FramingProofs` can extend it next to `FrameRoundTrip`. |
| `Codec` | every field codec, tuples, `InlineArray::push_back`, `make_string` | Operators over types that are records; `EncodeScalar` is one operator for integers, floats, bool and enums, which differ in `Bits` and `FromBits` only.  `Radix` is the number of values of a byte. |
| `Streams` | `StreamWriter::write`, `stream_thunk`, `dispatch_stream` | Operators on top of `Codec`. |
| `Dispatch` | `dispatch`, the thunks, reply parsing in `call` | Operators; decoding, encoding and the handlers are constants.  `Loopback` gives them `Codec`, `HostLink` byte counts.  `Narrowed` is the cast of the reply's length, to one of `LengthValues` values. |
| `Firmware` | `commands.hpp` and the handlers of `device.cpp` | The static variables are a record; a handler maps arguments and that record to a status, results and a record. |
| `Loopback` | `call` over `SerialLink`, `device_handle_packet`, `device_emit_telemetry`, the host's stream dispatch | Composes `Codec`, `Streams`, `Dispatch`.  A packet is the sequence of frames its bytes contain.  `HandlePacket` and `ReceiveStream` bring frames of other origin. |
| `LocalCalls` | abstract | A call is the handler, run on the spot with typed arguments. |
| `PyDevice` | the Python `Device` | `region`..`event` are `reader_` (an instance of `FrameReader`), `pending` is `pending_`; `stack` holds a thread's unfinished operations with the program counter of `await_reply` or `poll`, `gil` says whose code runs. |
| `HostLink` | `call`, the Python `Device` transport, the device's receive path and telemetry, the line | Whole frames travel; `pending` is `pending_`, `ReadChunk`/`ConsumeStream`/`ConsumeReply`/`Timeout` are the ways through `await_reply`, `Poll` is `poll`.  `SendFails` is a `send_command` that reports a failure; with `FailedSendsArrive` the frame may have gone out all the same. |
| `AtMostOnceCall` | abstract | A remote call: the command runs at most once, atomically, between invocation and return.  What the caller is told (no such command, bad arguments, no room for the results, a handler's status, results it cannot read) is stated case by case from handlers and codecs; no operator of `Dispatch` is used. |

`MC*` modules give constants their values.  `*Proofs` modules hold theorems only.
Definitions marked `Mutant` change one definition of the model the way a bug in the
code would; every property is known to fail under one of them (`PROJECT.json`,
"mutants").

How the layers justify each other:

* `CobsEncode` and `CobsDecode` compute what `Cobs` defines (`EncodesAsDefined` and
  `DecodesAsDefined`, proved), and `Cobs` is the codec `FrameRoundTrip` runs on.
  `Framing` asks of its codec that the decoder undoes the encoder (`CobsAssumption`);
  that `Cobs` does so is proved (`CobsIsUndone`, from `DecodingUndoesEncoding`).
* `FrameRoundTrip` shows which regions `decode_region` accepts: given the CRC, only
  encodings (proved for COBS).  `FrameLink` takes from there that a damaged region is
  refused.  That is an idealisation: a CRC of 16 bits accepts some damaged raw blocks.
  `Crc16` says which damage it cannot accept: in the raw block, before byte stuffing, every
  burst within 12 bits, and every burst within 16 bits that does not cross from the message
  into the CRC field (proved).  Wider bursts across that boundary can pass, because the
  field is sent low byte first (`frame.cpp:26`) while the register shifts towards its high
  end: 0x89 in the last byte of the message and 0xA1 in the one after it change the
  computed and the received CRC alike.
* `FrameLink` shows that the frames delivered are a subsequence of the frames sent.
  `HostLink` takes that as its line: order is kept, frames may be lost.
* `HostLink` lets a chunk hold whole frames and runs no callback.  `PyDevice` shows when
  that is right: `FramesAccounted` says that reads may cut frames anywhere without
  consequence as long as threads take turns and no callback of `poll` uses the `Device`
  (proved).
* `Loopback` takes from `FrameRoundTrip` that a frame is read as it was written, and
  shows that what is in the frames makes a call a local one.

## 3. Runs

| Run | Instance | Question and answer |
|---|---|---|
| `CobsEncode` | all blocks of up to 6 bytes over {0, 1, MaxCode}, MaxCode = 4, capacities 0..9 | The output is zero-free, is the defined encoding, decodes back, has the promised size, and no write leaves the buffer. |
| `CobsDecode` | all byte sequences of up to 6 bytes over 0..4, five capacities | Exactly the sequences of whole blocks are accepted; every reported byte was written; output shorter than input; a zero-free region the reader can hold has one encoding only. |
| `FrameReader` | 3 byte values, buffer of 3, pieces up to 5 bytes | The reader implements the splitter; the buffer is the prefix of the piece. |
| `FrameLink` | 4 frames of 1, 2 and 3 (= the buffer) bytes, up to 3 faults | Frames arrive in order, once, undamaged; a frame is lost only if a fault hit it or its predecessor's delimiter; at most one error per fault, and one more for each delimiter that noise made up. |
| `FrameRoundTrip` | bytes 0..7, payloads of up to 4 bytes where 2 are allowed and longer ones than a byte can count, 7 capacities, up to 2 damaged places | Packets are well formed at every capacity; round trip, and what Python cuts; only encodings are accepted. |
| `Crc16` | messages of 2 and 3 bytes and their CRC field; every error in the first 16 bits, every error in the next 16, every error within 12 bits that crosses from the one to the other (for the shorter message: from the message into the field) | Bursts within 12 bits are detected anywhere, the field included, and within 16 bits on one side of it; with errors within 13 bits, and that limit, the property is violated.  Detection does not depend on the message. |
| `HostLinkPrompt` | 3 calls over 9 requests, 1 lost frame, 1 restart, 1 stream packet, no late replies; one command's results do not fit the reply, one is known to the host with other results, one is unknown to the device | Replies match, and the whole link implements `AtMostOnceCall`: what the caller is told is what the one execution did. |
| `HostLinkLate` | 3 calls over 3 requests, 2 stream packets, 1 lost frame, 1 restart, replies may be late, a failed send may arrive | Answers never overtake each other or serve twice; a call that starts on a quiet link gets its own answer; telemetry arrives in order and complete if nothing is lost; every call returns. |
| `PyDevice` | 2 threads, operations nested 2 deep, 2 commands, 2 polls, 1 stream packet, every cut of a read, callbacks and port may raise, both orders of evaluation of `poll`'s operands | Frames are kept, in order, under sequential use; handled once, and no reply returned by two calls, under any use if the read is evaluated first; a command alone on a quiet link gets its own reply whatever happened before; every operation ends. |
| `Loopback` | 9 commands of all field types, 16 values of a byte, payloads of 10 bytes, 3 steps of which one is of other origin: every payload of up to 4 bytes over {0, 2, 15} for four commands, packets of two frames of any type | Handlers run on exact encodings only, once, for the last frame of a packet; the reply says truly whether one ran; stream handlers get what was written; calls are local calls (`LocalCalls`). |
| `HostLinkStale` | 2 calls, nothing lost | **Violated**: `RepliesMatch`. |
| `HostLinkStarved` | 1 call, 1 lost frame, endless telemetry, fairness | **Violated**: `CallReturns`. |

Why the bounds are enough.  MaxCode = 4 puts a full block at 3 bytes, so 6 bytes hold
two full blocks, and every alignment of a zero with a block boundary; the theorems
about COBS remove the bound.  The reader's buffer of 3 is passed by one and by two bytes, after
which nothing new can be reached: the reader drops whatever comes.  In `FrameLink`
any two frames that merge fill or exceed the buffer, and three faults allow a
lost delimiter, noise and a restart in one behaviour.  In `FrameRoundTrip` the largest
raw block is one byte short of `MaxByte`, as in the code (254 and 255), so an encoded
frame can be exactly one full block.  A stale reply needs two calls; the third
shows what it leads to.

In `Loopback` a byte has 16 values and the largest payload is 6 fewer, as 250 is of
256, so that `read_block`'s results fill the payload to the last byte, and both ends of
every integer type occur.  The lengths and counts that the code casts to `uint8_t` are
taken modulo the values of a byte in the model: the reply (`command.cpp:57`, `Narrowed`),
the command's and the stream's payload (`host.hpp:96`, `stream.hpp:99`, `Narrow`) and the
elements of a span (`codec.hpp:267`, `EncodeSpan`).  `BudgetAssumption` and
`HostLinkAssumption` state the limits, static assertions and buffer sizes in the code,
under which none of these casts changes a value.  `ReplyTooLarge` cannot occur in
`Loopback`, where every contract keeps its budget; the host link's instance has a command
that gets it.  One packet of other origin calls `read_block`, so a full reply payload also
leaves `device_handle_packet` on that way.  Three steps are
a setter, a disturbance and a getter.  In `PyDevice` two commands and two polls over two
threads and two levels contain every pair of operations, nested or overlapping, with
another after them; one stream packet is enough to enter a callback.

`CHECK_DEADLOCK FALSE` is set where the modelled function returns or the bounded
scenario ends; `FrameReader` runs for ever and is checked for deadlock.

### Findings

1. **A late reply answers the next call** (`HostLinkStale`, `eup_pybind.hpp:176`).
   The transport contract asks for the Reply "to the command just sent"
   (`host.hpp:20`).  `await_reply` takes the first Reply it meets.  After one timeout
   the host is a call behind until `poll` drops the stray reply, and no error is
   reported.  `CleanCallMatches` shows that draining the line before the next call is
   a sufficient remedy.
2. **A lost reply under telemetry blocks the call** (`HostLinkStarved`,
   `eup_pybind.hpp:173`).  The contract promises false "on a link failure or timeout"
   (`host.hpp:23`); only an empty read ends the wait, and with packets arriving faster
   than the port's read timeout there is none.

What the conditions in `PyDevice`'s properties mean in use (each is necessary: TLC finds
the property violated without it):

* A callback of `poll` that calls a command or `poll` reads and handles bytes that come
  after those left in the outer `poll`'s chunk: frames overtake each other, a frame that a
  read cut is mixed with other bytes, and the outer `poll` drops the reply of the nested
  command when it is in its chunk.  A callback of a command may use the `Device`.
* Two threads: `pending_ = read_chunk(256)` overwrites what another thread put there, and
  one takes the other's reply, which then is nobody else's: if the build evaluates the read first, no two calls return
  the same reply (`ReplyUsedOnce`).  If it copies `pending_` before it reads, the same frame
  can be handled twice, also by two calls.  `eup_pybind.hpp:222` says that "nothing is lost across early
  returns"; that is true of one thread at a time, and so is `eup_pybind.hpp:178`.
* An exception from a callback of `poll` costs the rest of its chunk and no more; one from
  a callback of a command, or from the port during it, meets `noexcept` and ends the
  process.

Documentation that differs from the code without a run of its own: `README.md:52` has
`dispatch` called "for each decoded Command frame", `device_handle_packet` dispatches the
last frame of a packet only (`RunsOnlyEncodings` says so).  The Python `encode_frame`
cuts payloads of 256 bytes and more to their size modulo 256, and refuses only what is
longer than 250 bytes after that (`PacketWellFormed`, `RoundTrip`).  `frame.hpp:77`
and `cobs.hpp:5` speak of a leading delimiter, the code writes a trailing one
(`frame.cpp:46`); `cobs.hpp:31` says that decoding reports an unexpected 0x00, the code
tests code bytes only and copies a zero in data position (`DecodesAsDefined` pins
down what it accepts; `FrameReader` never passes such a region, by `TypeOK`).

## 4. Fairness

`HostLink` assumes weak fairness of `HostStep` and of `HandlePacket` only.  `HostStep`
is the body of `await_reply`: the host's thread keeps running, and a blocking read
with a timeout comes back, with bytes or without.  `HandlePacket` is the device's main
loop.  Nothing forces a telemetry packet, a poll, a call, a loss or a restart.  `CallReturns`
holds under these when telemetry is finite; with `Endless` it fails although
the host is scheduled for ever.  The read that would time out is possible again and again,
whenever the line is empty for a moment, but fairness of `HostStep` does not force it: the
host also keeps running by reading and handling one more packet (`ReadChunk`,
`ConsumeStream`), as in the code.

`PyDevice` assumes weak fairness of `Continue(t)` for each thread: a thread that is inside
an operation of the `Device` and may run does run, its read returns, with bytes or
without, and its callback returns.  The port's `read` is expected to have a timeout; a
callback that never returns is outside the claim.  Nothing forces an operation to begin,
the device to answer, a packet or an exception.  `OperationsReturn` says that under this
alone no thread waits for ever; it bounds the stream packets by `MaxPackets`, so it does
not contradict `HostLinkStarved`.

All other modules make no liveness claims.

## 5. Proofs

TLAPS proves, for every value of the constants that satisfies the named
assumptions, which TLC evaluates on the runs of the module:

**The definition of COBS** (`CobsProofs`, for sequences of every length and every block
size from 2): `DecodingUndoesEncoding`, `ShortEncoding`, `RegionsAreCanonical`.
`Encoding` and `Decoding` are recursive functions, and what they compute is a matter of
induction over data.  The induction is made in set form: the lengths at which a claim
fails would be a set of numbers, and a set of numbers that is not empty has a least
element (`LeastElement`, from the well-foundedness of `<`).  In the same way
a sequence has one chain of code positions at most, so that `Decodable` and `Decoding`
can be followed along a chain as it grows.

**`cobs_encode`** (`CobsEncodeProofs`, from `CobsEncodeAssumption`):

* `TypeOK`, `NoZeroInOutput`, `WritesInBounds`, `ShortInputGrowsByOne`.
  `NoZeroInOutput` is not inductive: the code byte of the open block is still to be
  written.  `LoopInv` says that this is the only hole (`dst[k] # 0` before `write`
  except at `codeIdx`), that `code = write - codeIdx` stays below `MaxCode` and
  `write` within `dstCap`, and that a short block has written one byte more than it
  read.
* `MaxSizeSuffices` needs a second invariant, `SizeInv`: every
  full block so far and the open one were paid for by bytes read,
  `FullBlocks * (MaxCode - 1) + (code - 1) <= read`.
* `EncodesAsDefined` and `DecodesBack`, by `ComputeInv`: the closed blocks are those of
  the input up to the byte where the open block starts, and the open block holds, after
  its code byte, the bytes from there to `read`, none of them zero.  When the last block
  closes, the blocks are all of the encoding (`EncodedIn`), and what is so made decodes
  to the input.

**`cobs_decode`** (`CobsDecodeProofs`, from `CobsDecodeAssumption`):

* `TypeOK`, `ResultWritten`, `DecodeShrinks`.  The invariant is the race of the two
  indices: `write <= read` between blocks, `write < read` inside one, since a block
  consumes its code byte before it emits anything; and every cell before `write` is
  written.
* `DecodesAsDefined`, by `ComputeInv`: between blocks (`BetweenBlocks`) the code bytes
  read so far are a chain that ends at `read`, and the output is what the input up to
  there stands for; inside one (`InsideBlock`) the chain ends at its code byte.  A
  refusal comes where no chain can go on.
* `ShortRegionIsCanonical`, by `CanonicalInv`: in a region that the reader can hold, the
  input read so far is also what the encoder would have made of the output.

**Framing** (`FramingProofs`, from `FramingAssumption`, `FrameRoundTripAssumption`,
`CrcAssumption`, which asks for a checksum of 16 bits and nothing more, and
`CobsAssumption`):

* `DecodeUndoesEncode`, and of the machine `FrameRoundTrip` `RoundTrip`.  The argument takes a raw block apart: `TwoDigits` for
  the high and low byte of the CRC, then `BlockRoundTrip` for each check of
  `decode_region` in order.
* `PacketWellFormed` and `AcceptsOnlyEncodings`.  They are not true of every invertible
  byte stuffing, so they have the hypothesis `UsesCobs`: the codec is the one `Cobs`
  defines, with `MaxByte` as the largest code byte, and the largest raw block, of 254
  bytes in the code, is below it.  The run `FrameRoundTrip` is of this kind (6 below 7).
  The first is `ShortEncoding` applied to the raw block; the second puts the raw block
  together again from the checks that `decode_region` made (`RawOfBlock`) and uses
  `RegionsAreCanonical` for the bytes.

**The reader** (`FrameReaderProofs`, from `FrameReaderAssumption`: the delimiter is a
byte, `decode_region` returns a status and, on `Ok`, a frame): `TypeOK`,
`BufferIsPrefix`, and the refinement `RefinesSplitter`, step by step: a byte is `Gather`,
a delimiter `Boundary`, `Accept` or `Refuse`, a reset `Forget`.  `BufferIsPrefix` is what
makes the buffer equal to the piece whenever it is decoded.

**The faulty line** (`FrameLinkProofs`, from `FrameLinkAssumption`: frames fit the buffer,
the delimiter, noise and data are different), for any number of frames, lengths and
faults: `DeliveredAsSent`, `OnlyDamagedFramesLost`, `ErrorsBounded`.  Three things are
kept together.  What the region holds was sent after everything that was delivered
(`RegionIsNews`), so deliveries ascend.  The region of a garbled frame is not, and never
becomes, the bytes of that frame (`GarbledIsLost`), and a frame that no fault has hit is
in the region as far as it was sent (`CurrentArrives`).  A region that is not what was
sent of the current frame costs one error more, at most: `errors + Pending <= faults + splits`,
where `splits` counts the faults that made up a delimiter.

**The host link** (`HostLinkProofs`, from `HostLinkAssumption`), for any number of calls,
stream packets, losses and restarts:

* `TypeOK`, `AnswersInOrder`, `CleanCallMatches`.  The
  invariant `InOrder` is one ascending order of call numbers through the whole loop:
  answered calls, then replies in `pending`, then replies in `toHost`, then commands in
  `toDevice`.  Every action moves the first element of one part to the end of the part
  before it, or drops it.  `Alone` adds that while a call that began on a quiet link
  waits, everything that travels and is not telemetry is of that call.
* `RepliesMatch`, and the refinement of `AtMostOnceCall`, under the hypothesis
  `~LateReplies`, the refinement also under `EncodersKeepRoom` (an encoder of results that
  succeeds has kept to the room it was given, as the writers of `codec.hpp` do): with late replies the first is false (`HostLinkStale` shows it).
  `InStep` says that nothing travels between calls, that during a call at most its own
  command or its own reply does, and that a command on the line has not run while a reply
  on the line is of the run the device remembers.  Handling the command is the abstract
  `Execute` (`DispatchExecutes`: the status byte and results that `dispatch` puts into the
  reply, read by `call`, are what the abstract call tells, case by case), the first matching reply or the failure the abstract return, all else
  stutters.
* `StreamsInOrder`, without a hypothesis, and `NoStreamLost`, for finite telemetry.
  `StreamInv` is the order of `InOrder` for packets: delivered, then in `pending`, then in
  `toHost`, the numbers ascend, and while nothing was lost they are 1 to `emitted`.

**The CRC** (`FramingProofs`, from `Crc16Assumption`: messages are sequences of bytes), for
messages and errors of every length:

* `DifferenceIsOfError`, from the linearity of one bit step, of eight, and of a byte step
  over symmetric difference.
* `BurstsDetected`.  The register, with the two bytes of the error that come next brought
  in at its top and its bottom (`Ahead`), is what is left of the error in the division by
  the polynomial.  `BurstInv`: once all of the error is in it, `Ahead` is not empty, and
  before the first bit of the error comes the register is.  A byte that holds the last bit
  of the burst comes into a register that reaches only as far up as the other bits of the
  burst allow, so nothing is fed back until they are in (`EightTaken`, one bit at a time by
  `OneTaken`); after that the register cannot become empty, since the polynomial has its
  lowest bit (`BitStepKeeps`).  At the end of the message the register stands against the
  damage of the field (`DetectedAtEnd`).  Damage on one side only leaves one of the two
  unchanged and the other not.  For a burst across the boundary the register holds what the
  last two bytes of the message left there (`LastTwo`); what each bit of a word becomes in
  eight steps (`BitsAfterEight`) shows that this is never the damage of the field, as long
  as both lie within 12 bits (`BurstAcross`).

**The Python `Device`** (`PyDeviceProofs`, from `PyDeviceAssumption`: a frame is not the
delimiter, `None` is no thread, a build reads first or not), for any number of threads,
depth of nesting, commands, polls and packets, every cut of a read, and callbacks and ports
that raise at any moment.  All of it rests on `TypeInv`: a stack is `Proper`, operations
and callbacks take turns on it and an operation calls back from its loop only.  A step
keeps the lower part of one stack and puts something new on it (`Stacked`), so one lemma
per action says what is new, and the invariants are about such steps.

* `LoneCallMatches`, by `OneThread` (if nothing overlapped, at most one thread has a stack)
  and `Alone`: a command that is alone is at the bottom of the only stack, and every command
  and reply on its way, on the line, in `pending_` or in the region, is its own.
* `ReplyUsedOnce`, from `SeenOnce`: a call that returns a reply has seen its frame at that
  moment, and what was seen is never seen again (`AnswersSeen`).
* `SeenOnce`, by `Once`: frames are held by the line, `pending_`, the region and the chunks
  of the polls that have read; every frame has one holder and stands there once, and no
  frame that was seen has a holder.  Steps hand frames from holder to holder, and a push to
  `seen` (`OnceMoved`).  `Copies` is where the order of evaluation matters: a poll that
  copied `pending_` before it gave up the GIL holds a copy that is only true while no other
  thread touches it; one that reads first has copied nothing.
* `FramesAccounted`, by `Accounted`: under sequential use there is a sequence of bytes
  between the region and the line, `pending_` or what the one poll that has read has yet to
  push (`Between`), and region, this sequence and line together are one flow in which every
  frame is followed by its delimiter, frames ascend, and nothing is missing from 1 to
  `sent` but what was seen or discarded (`Orderly`).  That the region is empty when `poll`
  calls back is what lets an exception cost the rest of the chunk and not a frame more.

Only model-checked:

* `CallReturns` and `OperationsReturn`: liveness under fairness is out of the prover's
  reach.
* The properties of `Loopback` (`RunsOnlyEncodings`, `AnswersTruly`,
  `StreamsGivenAsWritten`, and its refinement of `LocalCalls`).  They follow the codecs
  through folds over the fields of a tuple and the elements of a span, which is induction
  over data, and over operators that the folds take as parameters.  What a scalar decodes
  to also needs the digits of a number in powers of `Radix`, and the provers have no theory
  of `^`.

## 6. Not modelled

* The timing of the serial port.  A read returns some of what is on the line or,
  where a timeout is possible, nothing.
* The conversion of Python objects to field values (the type casters of
  `eup_pybind.hpp`) and the registration of modules, enums and properties: no protocol
  state.  The bindings of `cobs_*`, `crc16_*`, `decode_region` and `FrameReader` in
  `eup_core_pybind.hpp` pass bytes through.
* What the example program prints, the tests, the build.
* Bytes inside a packet in `Loopback` and damage to frames in `PyDevice`: the framing runs
  answer those questions.  In `PyDevice` the port's write and read take effect at one
  moment, while the thread does not hold the GIL.
* The order in which `decode_region` checks and writes (`frame.cpp:53-91`): it is one
  function of region and frame in `Framing`.  It returns at the first failed check and
  writes the caller's frame behind the last one, so no caller sees a moment in between.
* `device_handle_packet` returning 0 because `encode_frame` finds no room after the handler
  ran (`device.cpp:133-135`): the example's buffer of `kMaxPacket` bytes holds every reply.
  To the host it would be a lost reply, which `HostLink` has.
* Damage that a CRC of 16 bits accepts: `FrameLink` refuses every region that is not what was
  sent; `Crc16` says for which damage that is so.
* What another thread's `pending_ = read_chunk(256)` overwrites (`eup_pybind.hpp`) is in the
  model of `PyDevice`, but no property says that it is kept: it is not.
* A table with two entries of one opcode: `Dispatch` takes the table as a set.

## 7. Plan

Done in this order: COBS (with proofs), framing and reader (with the refinement and its
proof), CRC (with proof), dispatch, host link (with the abstract call); the proofs
of framing and of the host link; then the Python `Device`, the Python `encode_frame`
(with its proof), the codecs and streams, and the firmware on top of them (with
`LocalCalls`); then the proofs about the prompt link and about streams, the faulty line,
the definition of COBS, what `cobs_encode` and `cobs_decode` compute, and the regions
that `decode_region` accepts.

After them the proofs about the Python `Device`, and that bursts are detected.

Next, most important first:

1. `AnswersTruly` of `Loopback`: it needs of the codecs only how many bytes they write and
   read, so an induction over folds like that of `CobsProofs` over lengths, without the
   values of scalars.
2. What `encode_tuple` writes, `decode_tuple` reads back: with `Radix ^ n` replaced by a
   recursive function, so that digits can be reasoned about; then `RunsOnlyEncodings` and
   `StreamsGivenAsWritten`.
