----------------------------- MODULE MCHostLink -----------------------------
EXTENDS HostLink

\* Commands as in examples/rgb_led_adc, with one byte of colour.  Swap sets the
\* colour and has more results than the reply buffer of this instance holds;
\* get_adc is known to the host with one result less than it has on the device;
\* and a host of a newer version knows a command that the device does not.
MCTable == {"set_rgb", "get_rgb", "read_adc", "get_adc", "swap"}
ArgCount == [op \in MCTable |-> IF op = "get_rgb" THEN 0 ELSE 1]
RetCount == [op \in MCTable \cup {"newer"} |->
                IF op \in {"set_rgb", "get_adc"} THEN 0 ELSE IF op = "swap" THEN 2 ELSE 1]
\* Every argument and result takes one byte here.
MCDecodeArgs(op, bytes) == [ok |-> Len(bytes) = ArgCount[op], value |-> bytes]
MCEncodeRets(op, rets, cap) ==
    IF Len(rets) > cap THEN [ok |-> FALSE, bytes |-> <<>>] ELSE [ok |-> TRUE, bytes |-> rets]
MCDecodeRets(op, bytes) == [ok |-> Len(bytes) = RetCount[op], value |-> bytes]

AdcChannelCount == 4

MCRun(op, args, rgb) ==
    IF op = "set_rgb" THEN [status |-> "Ok", rets |-> <<>>, state |-> args[1]]
    ELSE IF op = "get_rgb" THEN [status |-> "Ok", rets |-> <<rgb>>, state |-> rgb]
    ELSE IF op = "swap" THEN [status |-> "Ok", rets |-> <<rgb, args[1]>>, state |-> args[1]]
    ELSE IF args[1] >= AdcChannelCount
         THEN [status |-> "InvalidChannel", rets |-> <<0>>, state |-> rgb]
    ELSE [status |-> "Ok", rets |-> <<args[1] + 5>>, state |-> rgb]

MCRequests == {<<"set_rgb", 1>>, <<"get_rgb">>, <<"read_adc", 4>>}
MCRequestsAll == MCRequests \cup {<<"set_rgb", 2>>, <<"set_rgb">>, <<"read_adc", 3>>,
                                  <<"get_adc", 0>>, <<"swap", 3>>, <<"newer">>}
MCInitialState == 0
MCReplyCap == 2
MCLengthValues == 3

=============================================================================
