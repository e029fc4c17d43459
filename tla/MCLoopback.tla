----------------------------- MODULE MCLoopback -----------------------------
(***************************************************************************)
(* The example firmware, its command table extended by two commands in the *)
(* manner of tests/test_command.cpp whose types the firmware does not use. *)
(* With 16 values of a byte the proportions are those of the code: the     *)
(* largest payload is 6 less than the values of a byte, and read_block's   *)
(* results fill it to the last byte.                                       *)
(***************************************************************************)
EXTENDS Loopback, Firmware

MCRadix == 16
MCMaxPayload == 10

MCContracts == FirmwareContracts @@
    [set_led |-> [args |-> <<Bool, EnumOf(1)>>, rets |-> <<Bool>>],
     stats   |-> [args |-> <<IntOf(1), FloatOf(2), SpanOf(IntOf(2), 2)>>,
                  rets |-> <<SpanOf(IntOf(2), 2), FloatOf(2), IntOf(1)>>]]

MCRun(op, args, d) ==
    IF op = "set_led" THEN Returns("Ok", <<args[1]>>, d)
    ELSE IF op = "stats" THEN Returns("Ok", <<args[3], args[2], args[1]>>, d)
    ELSE RunFirmware(op, args, d)

CStrings == {<<>>, <<15>>, <<1, 2, 15>>}
Words == {-128, -1, 127}

MCArguments ==
    [set_rgb       |-> {<<0, 15, 1>>, <<15, 0, 2>>},
     read_adc      |-> {<<c>> : c \in 0 .. AdcChannelCount},
     get_rgb       |-> {<<>>},
     get_uptime_ms |-> {<<>>},
     set_name      |-> {<<MakeString(MaxNameLen, s)>> : s \in CStrings},
     get_name      |-> {<<>>},
     read_block    |-> {<<0>>, <<15>>},
     set_led       |-> BOOLEAN \X {0, 15},
     stats         |-> {-8, 7} \X {255} \X SeqOf(Words, 2)]

MCCounters == {0, 1, 2, Radix ^ 3, Radix ^ 4 - 1}
Alarm == [opcode |-> "alarm", fields |-> <<StringOf(2)>>]
MCStreamTable == <<TelemetryStream, Alarm>>

\* Payloads of any length, also of opcodes nobody has.
Opcodes == {"set_rgb", "set_name", "set_led", "stats"}
Tails == SeqOf({0, 2, 15}, 4)
MCPayloads == {<<op>> \o tail : op \in Opcodes, tail \in Tails}
                  \cup {<<>>, <<"none">>, <<"get_name">>, <<"get_name", 0>>,
                        <<"set_name", 3, 0, 2, 15>>, <<"set_name", 3, 0, 2>>,
                        <<"read_block", 0>>}

Framed(type, payload) == [type |-> type, payload |-> payload]
Few == {Framed("Command", <<"set_rgb", 1, 2, 15>>), Framed("Command", <<"set_name", 3>>),
        Framed("Command", <<"get_uptime_ms">>), Framed("Command", <<>>),
        Framed("Reply", <<"set_rgb", 1, 2, 15>>), Framed("Stream", <<"telemetry", 0>>), Garbage}
MCPackets == {<<Framed("Command", p)>> : p \in MCPayloads} \cup SeqOf(Few, 2)

MCStreamPayloads ==
    {<<op, 2, 0, 0, 15>> \o tail : op \in {"telemetry", "alarm"}, tail \in Tails}
        \cup {<<>>, <<"none", 0>>, <<"telemetry">>, <<"telemetry", 2, 0, 0>>}

=============================================================================
