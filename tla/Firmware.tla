------------------------------ MODULE Firmware ------------------------------
(***************************************************************************)
(* The device of examples/rgb_led_adc: the contracts of commands.hpp and   *)
(* the handlers of device.cpp.  Opcodes are names; the state of the device *)
(* is a record of its static variables.                                    *)
(***************************************************************************)
EXTENDS Streams

CONSTANTS AdcChannelCount, MaxNameLen, BlockLen

FirmwareContracts ==
    [set_rgb       |-> [args |-> <<UintOf(1), UintOf(1), UintOf(1)>>, rets |-> <<>>],
     read_adc      |-> [args |-> <<UintOf(1)>>,                   rets |-> <<UintOf(2)>>],
     get_rgb       |-> [args |-> <<>>, rets |-> <<UintOf(1), UintOf(1), UintOf(1)>>],
     get_uptime_ms |-> [args |-> <<>>, rets |-> <<UintOf(4)>>],
     set_name      |-> [args |-> <<StringOf(MaxNameLen)>>, rets |-> <<>>],
     get_name      |-> [args |-> <<>>, rets |-> <<StringOf(MaxNameLen)>>],
     read_block    |-> [args |-> <<UintOf(1)>>, rets |-> <<SpanOf(UintOf(2), BlockLen)>>]]

TelemetryStream == [opcode |-> "telemetry", fields |-> <<UintOf(2), IntOf(2)>>]

\* g_rgb, g_name and ticks at start.
PoweredUp == [rgb |-> <<0, 0, 0>>, name |-> <<>>, ticks |-> 0]

\* hw_read_adc: 0x0200 + channel * 0x40 in bytes of 256 values.
HwReadAdc(channel) == (2 * Radix + channel * (Radix \div 4)) % Radix ^ 2

Returns(status, rets, device) == [status |-> status, rets |-> rets, state |-> device]

SetRgb(args, d) == Returns("Ok", <<>>, [d EXCEPT !.rgb = args])

ReadAdc(args, d) ==
    IF args[1] >= AdcChannelCount THEN Returns("InvalidChannel", <<0>>, d)
    ELSE Returns("Ok", <<HwReadAdc(args[1])>>, d)

GetRgb(d) == Returns("Ok", d.rgb, d)

\* hw_millis
GetUptimeMs(d) ==
    LET ticks == (d.ticks + 5) % Radix ^ 4
    IN  Returns("Ok", <<ticks>>, [d EXCEPT !.ticks = ticks])

SetName(args, d) == Returns("Ok", <<>>, [d EXCEPT !.name = args[1]])

GetName(d) == Returns("Ok", <<d.name>>, d)

ReadBlock(args, d) ==
    LET sample(i) == HwReadAdc((args[1] + i) % AdcChannelCount)
        block == FoldLeft(LAMBDA s, i : PushBack(s, sample(i - 1), BlockLen),
                          <<>>, [i \in 1 .. BlockLen |-> i])
    IN  Returns("Ok", <<block>>, d)

\* kTable
RunFirmware(op, args, d) ==
    CASE op = "set_rgb"       -> SetRgb(args, d)
      [] op = "read_adc"      -> ReadAdc(args, d)
      [] op = "get_rgb"       -> GetRgb(d)
      [] op = "get_uptime_ms" -> GetUptimeMs(d)
      [] op = "set_name"      -> SetName(args, d)
      [] op = "get_name"      -> GetName(d)
      [] op = "read_block"    -> ReadBlock(args, d)

\* The fields of device_emit_telemetry.  The temperature is computed in 32 bits,
\* without a sign, and cut to 16 with one.
Telemetry(counter) ==
    LET temperature == (230 + counter * 5) % Radix ^ 4
    IN  <<HwReadAdc(0), FromBits(IntOf(2), temperature % Radix ^ 2)>>

=============================================================================
