--------------------------- MODULE PyDeviceProofs ---------------------------
(***************************************************************************)
(* The Python Device, for any number of threads, of nested operations, of  *)
(* commands, polls and stream packets, every cut of a read and every       *)
(* exception.                                                              *)
(*                                                                         *)
(* TypeInv is what every stack of operations looks like.  OneThread and    *)
(* Alone are about commands that nothing overlaps, Once about builds that  *)
(* evaluate poll's read first, Accounted about sequential use.  Each is    *)
(* inductive with those before it and has one lemma per kind of step.      *)
(***************************************************************************)
EXTENDS PyDevice, SequenceTheorems, TLAPS

\* What travels on the line to the host.
WireByte == FrameBody \cup {Delimiter}

\* A byte of a frame, as opposed to the one that ends it.
IsBody(byte) == byte # Delimiter

(* What a push does to the region and the history of frames.               *)
LEMMA PushLaws ==
    ASSUME region \in Seq(FrameBody), NEW byte \in WireByte, PushByte(byte)
    PROVE  /\ region' \in Seq(FrameBody)
           /\ IsBody(byte) =>
                 /\ seen' = seen /\ event' # "FrameReady"
                 /\ \/ region' = Append(region, byte) /\ overflow' = overflow
                    \/ region' = region /\ Len(region) >= 255
           /\ ~IsBody(byte) =>
                 /\ region' = <<>> /\ (~overflow => ~overflow')
                 /\ (~overflow => region = <<>> \/ Len(region) # 1 \/ event' = "FrameReady")
           /\ event' = "FrameReady" =>
                 Len(region) = 1 /\ seen' = Append(seen, region[1].nr) /\ frame' = region[1]
           /\ event' # "FrameReady" => seen' = seen
<1>0. seen' = IF event' = "FrameReady" THEN Append(seen, frame'.nr) ELSE seen
    BY DEF PushByte
<1>1. CASE Reader!Accumulate(byte)
    BY <1>0, <1>1 DEF Reader!Accumulate, IsBody, WireByte
<1>2. CASE Reader!Overflow(byte)
    BY <1>0, <1>2 DEF Reader!Overflow, IsBody
<1>3. CASE Reader!SkipEmpty(byte)
    BY <1>0, <1>3 DEF Reader!SkipEmpty, IsBody
<1>4. CASE Reader!CloseOverflowed(byte)
    BY <1>0, <1>4 DEF Reader!CloseOverflowed, Reader!StartRegion, IsBody
<1>5. CASE Reader!CloseRegion(byte)
    <2>1. byte = Delimiter /\ region # <<>> /\ ~overflow /\ region' = <<>> /\ overflow' = FALSE
        BY <1>5 DEF Reader!CloseRegion, Reader!StartRegion
    <2>2. CASE Len(region) = 1
        <3>1. lastStatus' = "Ok" /\ event' = "FrameReady" /\ frame' = region[1]
            BY <1>5, <2>2 DEF Reader!CloseRegion
        <3> QED BY <1>0, <2>1, <2>2, <3>1 DEF IsBody
    <2>3. CASE Len(region) # 1
        <3>1. lastStatus' = "CrcMismatch" /\ event' = "Error"
            BY <1>5, <2>3 DEF Reader!CloseRegion
        <3> QED BY <1>0, <2>1, <2>3, <3>1 DEF IsBody
    <2> QED BY <2>2, <2>3
<1> QED BY <1>1, <1>2, <1>3, <1>4, <1>5 DEF PushByte, Reader!Push

-----------------------------------------------------------------------------
(* The stacks.                                                             *)
Op == [op : {"call", "poll", "callback"}, pc : {"send", "await", "loop", "read", "python"},
       call : Nat, chunk : Seq(WireByte), alone : BOOLEAN]

\* Any operations in any order, on the stack of every thread.
Stacks == [Threads -> Seq(Op)]

\* e is still on its stack; at most it is no longer alone.
Kept(e, f) ==
    /\ f.op = e.op /\ f.pc = e.pc /\ f.call = e.call /\ f.chunk = e.chunk
    /\ f.alone => e.alone

\* In a step, n elements stay on t's stack, those of new come on top of them,
\* and nothing happens to the other stacks.
Stacked(t, n, new) ==
    /\ stack' \in Stacks
    /\ n \in 0 .. Len(stack[t])
    /\ Len(stack'[t]) = n + Len(new)
    /\ \A k \in 1 .. n : Kept(stack[t][k], stack'[t][k])
    /\ \A k \in 1 .. Len(new) : stack'[t][n + k] = new[k]
    /\ \A u \in Threads \ {t} :
          /\ Len(stack'[u]) = Len(stack[u])
          /\ \A k \in 1 .. Len(stack[u]) : Kept(stack[u][k], stack'[u][k])

(* A stack whose first n elements stay, as it is built in the actions.     *)
LEMMA StackedBy ==
    ASSUME stack \in Stacks, NEW t \in Threads, NEW s \in Seq(Op), NEW n \in 0 .. Len(stack[t]),
           NEW new, Len(new) \in Nat, Len(s) = n + Len(new),
           \A k \in 1 .. n : s[k] = stack[t][k],
           \A k \in 1 .. Len(new) : s[n + k] = new[k],
           stack' = [stack EXCEPT ![t] = s]
    PROVE  Stacked(t, n, new)
<1>1. stack' \in Stacks /\ stack'[t] = s /\ \A u \in Threads \ {t} : stack'[u] = stack[u]
    BY DEF Stacks
<1>2. \A e : Kept(e, e)
    BY DEF Kept
<1> QED BY <1>1, <1>2 DEF Stacked

(* What is on a stack.                                                     *)
LEMMA OnStack ==
    ASSUME stack \in Stacks, NEW t \in Threads
    PROVE  /\ stack[t] \in Seq(Op) /\ Len(stack[t]) \in Nat
           /\ \A k \in 1 .. Len(stack[t]) : stack[t][k] \in Op
           /\ stack[t] # <<>> => Len(stack[t]) >= 1 /\ Top(t) = stack[t][Len(stack[t])] /\ Top(t) \in Op
BY DEF Stacks, Top, Last

(* An element comes on top.                                                *)
LEMMA PushStacks ==
    ASSUME stack \in Stacks, NEW t \in Threads, NEW e \in Op,
           stack' = [stack EXCEPT ![t] = Append(@, e)]
    PROVE  Stacked(t, Len(stack[t]), <<e>>)
<1> DEFINE s == Append(stack[t], e)
           n == Len(stack[t])
<1>1. stack[t] \in Seq(Op)
    BY OnStack
<1>2. s \in Seq(Op) /\ Len(s) = n + 1 /\ s[n + 1] = e /\ \A k \in 1 .. n : s[k] = stack[t][k]
    BY <1>1
<1>3. n \in 0 .. Len(stack[t]) /\ Len(<<e>>) = 1 /\ <<e>>[1] = e
    BY <1>1
<1>4. stack' = [stack EXCEPT ![t] = s]
    BY DEF Stacks
<1> DEFINE new == <<e>>
<1>5. Len(new) = 1 /\ Len(new) \in Nat /\ \A k \in 1 .. Len(new) : s[n + k] = new[k]
    BY <1>2, <1>3
<1> HIDE DEF s, n, new
<1>6. Stacked(t, n, new)
    BY <1>2, <1>3, <1>4, <1>5, StackedBy
<1> QED BY <1>6 DEF n, new

(* The upper elements go.                                                  *)
LEMMA PopStacks ==
    ASSUME stack \in Stacks, NEW t \in Threads, NEW n \in 0 .. Len(stack[t]),
           stack' = [stack EXCEPT ![t] = SubSeq(stack[t], 1, n)]
    PROVE  Stacked(t, n, <<>>)
<1> DEFINE s == SubSeq(stack[t], 1, n)
<1>1. stack[t] \in Seq(Op)
    BY OnStack
<1>2. s \in Seq(Op) /\ Len(s) = n /\ \A k \in 1 .. n : s[k] = stack[t][k]
    BY <1>1
<1>3. Len(<<>>) = 0 /\ n \in Nat
    BY <1>1
<1> DEFINE new == <<>>
<1>4. Len(new) \in Nat /\ Len(s) = n + Len(new) /\ \A k \in 1 .. Len(new) : s[n + k] = new[k]
    BY <1>2, <1>3
<1>5. stack' = [stack EXCEPT ![t] = s]
    OBVIOUS
<1> HIDE DEF s, new
<1>6. Stacked(t, n, new)
    BY <1>2, <1>3, <1>4, <1>5, StackedBy
<1> QED BY <1>6 DEF new

(* The uppermost element changes.                                          *)
LEMMA ChangeStacks ==
    ASSUME stack \in Stacks, NEW t \in Threads, stack[t] # <<>>, NEW e \in Op,
           stack' = [stack EXCEPT ![t] = [stack[t] EXCEPT ![Len(stack[t])] = e]]
    PROVE  Stacked(t, Len(stack[t]) - 1, <<e>>)
<1> DEFINE s == [stack[t] EXCEPT ![Len(stack[t])] = e]
           n == Len(stack[t]) - 1
<1>1. stack[t] \in Seq(Op) /\ Len(stack[t]) >= 1
    BY OnStack
<1>2. s \in Seq(Op) /\ Len(s) = n + 1 /\ s[n + 1] = e /\ \A k \in 1 .. n : s[k] = stack[t][k]
    BY <1>1
<1>3. n \in 0 .. Len(stack[t]) /\ Len(<<e>>) = 1 /\ <<e>>[1] = e
    BY <1>1
<1>4. stack' = [stack EXCEPT ![t] = s]
    OBVIOUS
<1> DEFINE new == <<e>>
<1>5. Len(new) = 1 /\ Len(new) \in Nat /\ \A k \in 1 .. Len(new) : s[n + k] = new[k]
    BY <1>2, <1>3
<1> HIDE DEF s, n, new
<1>6. Stacked(t, n, new)
    BY <1>2, <1>3, <1>4, <1>5, StackedBy
<1> QED BY <1>6 DEF n, new

(* An element comes on top, and no other operation is alone any more.      *)
LEMMA BeginStacks ==
    ASSUME stack \in Stacks, NEW t \in Threads, NEW e \in Op,
           stack' = [NoLongerAlone EXCEPT ![t] = Append(@, e)]
    PROVE  /\ Stacked(t, Len(stack[t]), <<e>>)
           /\ \A u \in Threads : \A k \in 1 .. Len(stack[u]) : ~stack'[u][k].alone
<1> DEFINE N == NoLongerAlone
<1>1. ASSUME NEW u \in Threads
      PROVE  /\ N[u] \in Seq(Op) /\ Len(N[u]) = Len(stack[u])
             /\ \A k \in 1 .. Len(stack[u]) : Kept(stack[u][k], N[u][k]) /\ ~N[u][k].alone
    <2> DEFINE F(k) == [stack[u][k] EXCEPT !.alone = FALSE]
               m == Len(stack[u])
    <2>1. N[u] = [k \in 1 .. m |-> F(k)] /\ m \in Nat
        BY OnStack DEF NoLongerAlone
    <2>2. ASSUME NEW k \in 1 .. m PROVE F(k) \in Op /\ Kept(stack[u][k], F(k)) /\ ~F(k).alone
        <3>1. stack[u][k] \in Op
            BY OnStack
        <3>2. F(k) \in Op /\ F(k).alone = FALSE /\ F(k).op = stack[u][k].op /\ F(k).pc = stack[u][k].pc
              /\ F(k).call = stack[u][k].call /\ F(k).chunk = stack[u][k].chunk
            BY <3>1 DEF Op
        <3> HIDE DEF F
        <3> QED BY <3>2 DEF Kept
    <2> HIDE DEF N, F, m
    <2>3. N[u] \in Seq(Op) /\ Len(N[u]) = m /\ \A k \in 1 .. m : N[u][k] = F(k)
        BY <2>1, <2>2
    <2> QED BY <2>2, <2>3 DEF m
<1>2. N \in [Threads -> Seq(Op)]
    <2>1. N = [u \in Threads |-> N[u]]
        BY DEF NoLongerAlone
    <2> HIDE DEF N
    <2> QED BY <1>1, <2>1
<1> HIDE DEF N
<1>3. stack' = [N EXCEPT ![t] = Append(N[t], e)]
    BY <1>2 DEF N
<1>4. /\ stack' \in Stacks /\ stack'[t] = Append(N[t], e)
      /\ \A u \in Threads \ {t} : stack'[u] = N[u]
    <2> DEFINE s == Append(N[t], e)
    <2>1. s \in Seq(Op)
        BY <1>1
    <2> HIDE DEF s
    <2> QED BY <1>2, <1>3, <2>1 DEF Stacks, s
<1> DEFINE new == <<e>>
           n == Len(stack[t])
<1>5. Len(new) = 1 /\ new[1] = e /\ n \in 0 .. n
    BY OnStack
<1> HIDE DEF new, n
<1>6. Len(stack'[t]) = n + 1 /\ stack'[t][n + 1] = e /\ \A k \in 1 .. n : stack'[t][k] = N[t][k]
    <2>1. N[t] \in Seq(Op) /\ Len(N[t]) = n
        BY <1>1 DEF n
    <2>2. \A q \in Seq(Op) : /\ Len(Append(q, e)) = Len(q) + 1 /\ Append(q, e)[Len(q) + 1] = e
                              /\ \A k \in 1 .. Len(q) : Append(q, e)[k] = q[k]
        OBVIOUS
    <2> QED BY <1>4, <2>1, <2>2
<1>7. \A k \in 1 .. Len(new) : stack'[t][n + k] = new[k]
    BY <1>5, <1>6
<1>8. Stacked(t, n, new)
    BY <1>1, <1>4, <1>5, <1>6, <1>7 DEF Stacked, n
<1>9. \A u \in Threads : \A k \in 1 .. Len(stack[u]) : ~stack'[u][k].alone
    BY <1>1, <1>4, <1>6 DEF n
<1> QED BY <1>8, <1>9 DEF n, new

-----------------------------------------------------------------------------
\* Where an operation of each kind may stand, and that only poll has a chunk.
Lawful(e) ==
    /\ e.op = "callback" => e.pc = "python"
    /\ e.op = "poll" => e.pc \in {"read", "loop"}
    /\ e.op = "call" => e.pc # "python"
    /\ e.op # "poll" => e.chunk = <<>>

\* f may be the next above e: operations and callbacks take turns, and an
\* operation calls back from its loop.
Follows(e, f) ==
    /\ e.op = "callback" <=> f.op # "callback"
    /\ e.op # "callback" => e.pc = "loop"

\* A stack that operations and callbacks can have made.
Proper(s) ==
    /\ \A k \in 1 .. Len(s) : Lawful(s[k])
    /\ \A k \in 1 .. Len(s) - 1 : Follows(s[k], s[k + 1])
    /\ s # <<>> => s[1].op # "callback"

(* What is kept is as proper as it was.                                    *)
LEMMA KeptProper ==
    ASSUME NEW e, NEW f, Kept(e, f)
    PROVE  /\ Lawful(e) => Lawful(f)
           /\ \A g, h : Kept(g, h) /\ Follows(e, g) => Follows(f, h)
           /\ \A g : Follows(e, g) => Follows(f, g)
BY DEF Kept, Lawful, Follows

(* Stacks stay proper if what is new is, and if it fits on what is kept.   *)
LEMMA StillProper ==
    ASSUME stack \in Stacks, \A u \in Threads : Proper(stack[u]),
           NEW t \in Threads, NEW n, NEW new, Len(new) \in Nat, Stacked(t, n, new),
           \A k \in 1 .. Len(new) : Lawful(new[k]),
           \A k \in 1 .. Len(new) - 1 : Follows(new[k], new[k + 1]),
           Len(new) > 0 /\ n > 0 => Follows(stack[t][n], new[1]),
           Len(new) > 0 /\ n = 0 => new[1].op # "callback"
    PROVE  \A u \in Threads : Proper(stack'[u])
<1>1. /\ n \in 0 .. Len(stack[t]) /\ Len(stack[t]) \in Nat /\ Len(stack'[t]) = n + Len(new)
      /\ \A k \in 1 .. n : Kept(stack[t][k], stack'[t][k])
      /\ \A k \in 1 .. Len(new) : stack'[t][n + k] = new[k]
    BY OnStack DEF Stacked
<1>2. ASSUME NEW u \in Threads \ {t} PROVE Proper(stack'[u])
    <2>1. /\ Len(stack'[u]) = Len(stack[u]) /\ Len(stack[u]) \in Nat
          /\ \A k \in 1 .. Len(stack[u]) : Kept(stack[u][k], stack'[u][k])
        BY OnStack DEF Stacked
    <2>2. stack'[u] \in Seq(Op) /\ stack[u] \in Seq(Op)
        BY DEF Stacked, Stacks
    <2>3. \A k \in 1 .. Len(stack'[u]) : Lawful(stack'[u][k])
        BY <2>1, KeptProper DEF Proper
    <2>4. ASSUME NEW k \in 1 .. Len(stack'[u]) - 1 PROVE Follows(stack'[u][k], stack'[u][k + 1])
        <3>1. /\ Follows(stack[u][k], stack[u][k + 1])
              /\ Kept(stack[u][k], stack'[u][k]) /\ Kept(stack[u][k + 1], stack'[u][k + 1])
            BY <2>1 DEF Proper
        <3> QED BY <3>1, KeptProper
    <2>5. ASSUME stack'[u] # <<>> PROVE stack'[u][1].op # "callback"
        <3>1. stack[u] # <<>> /\ Len(stack[u]) >= 1
            BY <2>1, <2>2, <2>5
        <3> QED BY <2>1, <3>1 DEF Kept, Proper
    <2> QED BY <2>3, <2>4, <2>5 DEF Proper
<1>3. Proper(stack'[t])
    <2>1. stack'[t] \in Seq(Op) /\ stack[t] \in Seq(Op)
        BY DEF Stacked, Stacks
    <2>2. ASSUME NEW k \in 1 .. Len(stack'[t]) PROVE Lawful(stack'[t][k])
        <3>1. CASE k <= n
            BY <1>1, <3>1, KeptProper DEF Proper
        <3>2. CASE k > n
            <4>1. k - n \in 1 .. Len(new) /\ k = n + (k - n)
                BY <1>1, <3>2
            <4> QED BY <1>1, <4>1
        <3> QED BY <1>1, <3>1, <3>2
    <2>3. ASSUME NEW k \in 1 .. Len(stack'[t]) - 1 PROVE Follows(stack'[t][k], stack'[t][k + 1])
        <3>1. CASE k < n
            <4>1. /\ Follows(stack[t][k], stack[t][k + 1])
                  /\ Kept(stack[t][k], stack'[t][k]) /\ Kept(stack[t][k + 1], stack'[t][k + 1])
                BY <1>1, <3>1 DEF Proper
            <4> QED BY <4>1, KeptProper
        <3>2. CASE k = n
            <4>1. Follows(stack[t][n], new[1]) /\ Kept(stack[t][n], stack'[t][n]) /\ stack'[t][n + 1] = new[1]
                <5>1. Len(new) > 0 /\ n > 0 /\ n \in 1 .. n /\ 1 \in 1 .. Len(new)
                    BY <1>1, <3>2
                <5> QED BY <1>1, <5>1
            <4> QED BY <3>2, <4>1, KeptProper
        <3>3. CASE k > n
            <4>1. k - n \in 1 .. Len(new) - 1 /\ k = n + (k - n) /\ k + 1 = n + ((k - n) + 1)
                BY <1>1, <3>3
            <4>2. stack'[t][k] = new[k - n] /\ stack'[t][k + 1] = new[(k - n) + 1]
                BY <1>1, <4>1
            <4> QED BY <4>1, <4>2
        <3> QED BY <1>1, <3>1, <3>2, <3>3
    <2>4. ASSUME stack'[t] # <<>> PROVE stack'[t][1].op # "callback"
        <3>1. CASE n = 0
            BY <1>1, <2>1, <2>4, <3>1
        <3>2. CASE n > 0
            <4>1. stack[t] # <<>> /\ Kept(stack[t][1], stack'[t][1])
                BY <1>1, <2>1, <3>2
            <4> QED BY <4>1 DEF Kept, Proper
        <3> QED BY <1>1, <3>1, <3>2
    <2> QED BY <2>2, <2>3, <2>4 DEF Proper
<1> QED BY <1>2, <1>3

-----------------------------------------------------------------------------
(* What each action does to the stacks and to the types.                   *)

\* The type invariant without the stacks, which have their own lemmas.
BufferTypes ==
    /\ region \in Seq(FrameBody) /\ pending \in Seq(WireByte) /\ line \in Seq(WireByte)
    /\ toDevice \in Seq(Nat) /\ seen \in Seq(Nat)
    /\ calls \in Nat /\ sent \in Nat

\* Every stack is one that operations and callbacks can have made.
StackTypes == stack \in Stacks /\ \A t \in Threads : Proper(stack[t])

\* What holds of all states, whoever uses the Device and in whatever way.
TypeInv == BufferTypes /\ StackTypes

(* The top of a stack, and what is below it.                               *)
LEMMA TopLaws ==
    ASSUME StackTypes, NEW t \in Threads, stack[t] # <<>>
    PROVE  /\ Top(t) = stack[t][Len(stack[t])] /\ Top(t) \in Op /\ Lawful(Top(t))
           /\ Len(stack[t]) \in Nat \ {0}
           /\ Len(stack[t]) > 1 => Follows(stack[t][Len(stack[t]) - 1], Top(t))
           /\ Len(stack[t]) = 1 => Top(t).op # "callback"
<1>1. Top(t) = stack[t][Len(stack[t])] /\ Top(t) \in Op /\ Len(stack[t]) >= 1 /\ Len(stack[t]) \in Nat
    BY OnStack DEF StackTypes
<1>2. Proper(stack[t])
    BY DEF StackTypes
<1>3. ASSUME Len(stack[t]) > 1 PROVE Follows(stack[t][Len(stack[t]) - 1], stack[t][Len(stack[t])])
    <2>1. Len(stack[t]) - 1 \in 1 .. Len(stack[t]) - 1 /\ (Len(stack[t]) - 1) + 1 = Len(stack[t])
        BY <1>1, <1>3
    <2> QED BY <1>2, <2>1 DEF Proper
<1> QED BY <1>1, <1>2, <1>3 DEF Proper

(* The operation on top gets another program counter or chunk.             *)
LEMMA ChangeTop ==
    ASSUME StackTypes, NEW t \in Threads, stack[t] # <<>>, NEW e \in Op, Lawful(e), e.op = Top(t).op,
           stack' = [stack EXCEPT ![t] = [stack[t] EXCEPT ![Len(stack[t])] = e]]
    PROVE  Stacked(t, Len(stack[t]) - 1, <<e>>) /\ StackTypes'
<1> DEFINE new == <<e>>
           n == Len(stack[t]) - 1
<1>1. Stacked(t, n, new)
    BY ChangeStacks DEF StackTypes
<1>2. Len(new) = 1 /\ new[1] = e /\ Len(new) \in Nat /\ n \in Nat
    BY TopLaws
<1>3. n > 0 => Follows(stack[t][n], e)
    BY TopLaws DEF Follows
<1>4. n = 0 => e.op # "callback"
    BY TopLaws
<1> HIDE DEF n, new
<1>5. /\ \A k \in 1 .. Len(new) : Lawful(new[k])
      /\ \A k \in 1 .. Len(new) - 1 : Follows(new[k], new[k + 1])
    BY <1>2
<1>6. \A u \in Threads : Proper(stack'[u])
    BY <1>1, <1>2, <1>3, <1>4, <1>5, StillProper DEF StackTypes
<1> QED BY <1>1, <1>6 DEF StackTypes, Stacked, n, new

(* What is on top goes, and perhaps what is below it.                      *)
LEMMA PopTop ==
    ASSUME StackTypes, NEW t \in Threads, NEW n \in 0 .. Len(stack[t]),
           stack' = [stack EXCEPT ![t] = SubSeq(stack[t], 1, n)]
    PROVE  Stacked(t, n, <<>>) /\ StackTypes'
<1> DEFINE new == <<>>
<1>1. Stacked(t, n, new)
    BY PopStacks DEF StackTypes
<1>2. Len(new) = 0 /\ Len(new) \in Nat
    OBVIOUS
<1> HIDE DEF new
<1>3. /\ \A k \in 1 .. Len(new) : Lawful(new[k])
      /\ \A k \in 1 .. Len(new) - 1 : Follows(new[k], new[k + 1])
    BY <1>2
<1>4. \A u \in Threads : Proper(stack'[u])
    BY <1>1, <1>2, <1>3, StillProper DEF StackTypes
<1> QED BY <1>1, <1>4 DEF StackTypes, Stacked, new

(* An operation begins in Python code.                                     *)
LEMMA BeginTop ==
    ASSUME StackTypes, NEW t \in Threads, InPython(t), NEW e \in Op, Lawful(e), e.op # "callback",
           stack' = [NoLongerAlone EXCEPT ![t] = Append(@, e)]
    PROVE  /\ Stacked(t, Len(stack[t]), <<e>>) /\ StackTypes'
           /\ \A u \in Threads : \A k \in 1 .. Len(stack[u]) : ~stack'[u][k].alone
<1> DEFINE new == <<e>>
           n == Len(stack[t])
<1>1. Stacked(t, n, new) /\ \A u \in Threads : \A k \in 1 .. Len(stack[u]) : ~stack'[u][k].alone
    BY BeginStacks DEF StackTypes
<1>2. Len(new) = 1 /\ new[1] = e /\ Len(new) \in Nat /\ n \in Nat
    BY OnStack DEF StackTypes
<1>3. n > 0 => Follows(stack[t][n], e)
    BY OnStack DEF Follows, InPython, StackTypes
<1> HIDE DEF n, new
<1>5. /\ \A k \in 1 .. Len(new) : Lawful(new[k])
      /\ \A k \in 1 .. Len(new) - 1 : Follows(new[k], new[k + 1])
    BY <1>2
<1>6. \A u \in Threads : Proper(stack'[u])
    BY <1>1, <1>2, <1>3, <1>5, StillProper DEF StackTypes
<1> QED BY <1>1, <1>6 DEF StackTypes, Stacked, n, new

(* A callback is entered from the loop on top, which may have taken a byte. *)
LEMMA CallbackTop ==
    ASSUME StackTypes, NEW t \in Threads, stack[t] # <<>>,
           NEW e \in Op, Lawful(e), e.op = Top(t).op, e.op # "callback", e.pc = "loop",
           NEW below, below = [stack EXCEPT ![t] = [stack[t] EXCEPT ![Len(stack[t])] = e]],
           stack' = [below EXCEPT ![t] = Append(@, Callback)]
    PROVE  Stacked(t, Len(stack[t]) - 1, <<e, Callback>>) /\ StackTypes'
<1> DEFINE n == Len(stack[t]) - 1
           new == <<e, Callback>>
           b == [stack[t] EXCEPT ![Len(stack[t])] = e]
           s == Append(b, Callback)
<1>1. stack \in Stacks /\ stack[t] \in Seq(Op) /\ n \in Nat /\ Len(stack[t]) = n + 1 /\ n \in 0 .. Len(stack[t])
    BY TopLaws, OnStack DEF StackTypes
<1>2. Callback \in Op /\ Callback.op = "callback" /\ Lawful(Callback)
    BY DEF Callback, Op, Lawful
<1>3. b \in Seq(Op) /\ Len(b) = n + 1 /\ b[n + 1] = e /\ \A k \in 1 .. n : b[k] = stack[t][k]
    BY <1>1
<1>4. below = [stack EXCEPT ![t] = b]
    OBVIOUS
<1> HIDE DEF b
<1>5. stack' = [stack EXCEPT ![t] = s]
    BY <1>1, <1>3, <1>4 DEF Stacks
<1>6. /\ s \in Seq(Op) /\ Len(s) = n + 2 /\ s[n + 2] = Callback
      /\ \A k \in 1 .. n + 1 : s[k] = b[k]
    BY <1>1, <1>2, <1>3
<1>7. Len(new) = 2 /\ new[1] = e /\ new[2] = Callback
    OBVIOUS
<1> HIDE DEF n, new, s
<1>8. /\ \A k \in 1 .. n : s[k] = stack[t][k]
      /\ \A k \in 1 .. Len(new) : s[n + k] = new[k]
      /\ Len(s) = n + Len(new) /\ Len(new) \in Nat
  <2>1. \A k \in 1 .. n : s[k] = stack[t][k]
      BY <1>1, <1>3, <1>6
  <2>2. s[n + 1] = e /\ n + 1 \in 1 .. n + 1
      BY <1>1, <1>3, <1>6
  <2>3. ASSUME NEW k \in 1 .. Len(new) PROVE s[n + k] = new[k]
      <3>1. k = 1 \/ k = 2
          BY <1>7
      <3> QED BY <1>6, <1>7, <2>2, <3>1
  <2> QED BY <1>1, <1>6, <1>7, <2>1, <2>3
<1>9. Stacked(t, n, new)
    BY <1>1, <1>5, <1>6, <1>8, StackedBy
<1>10. (n > 0 => Follows(stack[t][n], e)) /\ Follows(e, Callback)
    BY <1>1, <1>2, TopLaws DEF Follows, n
<1>11. /\ \A k \in 1 .. Len(new) : Lawful(new[k])
       /\ \A k \in 1 .. Len(new) - 1 : Follows(new[k], new[k + 1])
  <2>1. ASSUME NEW k \in 1 .. Len(new) PROVE Lawful(new[k])
      <3>1. k = 1 \/ k = 2
          BY <1>7
      <3> QED BY <1>2, <1>7, <3>1
  <2>2. ASSUME NEW k \in 1 .. Len(new) - 1 PROVE Follows(new[k], new[k + 1])
      <3>1. k = 1 /\ k + 1 = 2
          BY <1>7
      <3> QED BY <1>7, <1>10, <3>1
  <2> QED BY <2>1, <2>2
<1>12. \A u \in Threads : Proper(stack'[u])
    BY <1>7, <1>8, <1>9, <1>10, <1>11, StillProper DEF StackTypes
<1> QED BY <1>9, <1>12 DEF StackTypes, Stacked, n, new

(* The same when the loop has not changed.                                 *)
LEMMA CallbackOnTop ==
    ASSUME StackTypes, NEW t \in Threads, stack[t] # <<>>, Top(t).op # "callback", Top(t).pc = "loop",
           stack' = [stack EXCEPT ![t] = Append(@, Callback)]
    PROVE  Stacked(t, Len(stack[t]), <<Callback>>) /\ StackTypes'
<1> DEFINE n == Len(stack[t])
           new == <<Callback>>
<1>1. Callback \in Op /\ Callback.op = "callback" /\ Lawful(Callback)
    BY DEF Callback, Op, Lawful
<1>2. Stacked(t, n, new)
    BY <1>1, PushStacks DEF StackTypes
<1>3. Len(new) = 1 /\ new[1] = Callback /\ Len(new) \in Nat /\ n \in Nat \ {0}
    BY TopLaws
<1>4. Follows(stack[t][n], Callback)
    BY <1>1, TopLaws DEF Follows
<1> HIDE DEF n, new
<1>5. /\ \A k \in 1 .. Len(new) : Lawful(new[k])
      /\ \A k \in 1 .. Len(new) - 1 : Follows(new[k], new[k + 1])
    BY <1>1, <1>3
<1>6. \A u \in Threads : Proper(stack'[u])
    BY <1>2, <1>3, <1>4, <1>5, StillProper DEF StackTypes
<1> QED BY <1>2, <1>6 DEF StackTypes, Stacked, n, new

(* Another program counter on top.                                         *)
LEMMA GoToTop ==
    ASSUME StackTypes, NEW t \in Threads, stack[t] # <<>>,
           NEW pc \in {"send", "await", "loop", "read"},
           Top(t).op = "call" \/ (Top(t).op = "poll" /\ pc \in {"read", "loop"}),
           stack' = GoTo(t, pc)
    PROVE  /\ Stacked(t, Len(stack[t]) - 1, <<[Top(t) EXCEPT !.pc = pc]>>)
           /\ StackTypes'
<1> DEFINE e == [Top(t) EXCEPT !.pc = pc]
<1>1. stack' = [stack EXCEPT ![t] = [stack[t] EXCEPT ![Len(stack[t])] = e]]
    BY TopLaws DEF GoTo
<1>2. Top(t) \in Op /\ Lawful(Top(t))
    BY TopLaws
<1>3. e \in Op /\ e.op = Top(t).op /\ e.pc = pc /\ e.chunk = Top(t).chunk
    BY <1>2 DEF Op
<1>4. Lawful(e)
    BY <1>2, <1>3 DEF Lawful
<1> HIDE DEF e
<1>5. Stacked(t, Len(stack[t]) - 1, <<e>>) /\ StackTypes'
    BY <1>1, <1>3, <1>4, ChangeTop
<1> QED BY <1>5 DEF e

(* The element on top goes.                                                *)
LEMMA PoppedTop ==
    ASSUME StackTypes, NEW t \in Threads, stack[t] # <<>>, stack' = Popped(t)
    PROVE  Stacked(t, Len(stack[t]) - 1, <<>>) /\ StackTypes'
<1> DEFINE n == Len(stack[t]) - 1
<1>1. n \in 0 .. Len(stack[t])
    BY TopLaws
<1>2. stack' = [stack EXCEPT ![t] = SubSeq(stack[t], 1, n)]
    BY DEF Popped, Front
<1> HIDE DEF n
<1>3. Stacked(t, n, <<>>) /\ StackTypes'
    BY <1>1, <1>2, PopTop
<1> QED BY <1>3 DEF n

(* A call is put on the stack of a thread that runs Python code.           *)
LEMMA BeginCallStack ==
    ASSUME TypeInv, NEW t \in Threads, BeginCall(t)
    PROVE  /\ TypeInv'
           /\ LET alone == Quiet /\ \A u \in Threads : stack[u] = <<>>
              IN  Stacked(t, Len(stack[t]), <<Call(calls + 1, alone)>>)
           /\ \A u \in Threads : \A k \in 1 .. Len(stack[u]) : ~stack'[u][k].alone
<1> DEFINE alone == Quiet /\ \A u \in Threads : stack[u] = <<>>
           e == Call(calls + 1, alone)
<1>1. calls \in Nat /\ StackTypes /\ InPython(t) /\ calls' = calls + 1
    BY DEF TypeInv, BufferTypes, BeginCall, Python
<1>2. stack' = [NoLongerAlone EXCEPT ![t] = Append(@, e)]
    BY <1>1 DEF BeginCall
<1>3. <<>> \in Seq(WireByte) /\ alone \in BOOLEAN
    OBVIOUS
<1> HIDE DEF alone
<1>4. e \in Op /\ e.op = "call" /\ e.pc = "send" /\ e.chunk = <<>>
    BY <1>1, <1>3 DEF Call, Op
<1>5. Lawful(e) /\ e.op # "callback"
    BY <1>4 DEF Lawful
<1> HIDE DEF e
<1>6. /\ Stacked(t, Len(stack[t]), <<e>>) /\ StackTypes'
      /\ \A u \in Threads : \A k \in 1 .. Len(stack[u]) : ~stack'[u][k].alone
    BY <1>1, <1>2, <1>4, <1>5, BeginTop
<1>7. BufferTypes'
    BY DEF TypeInv, BufferTypes, BeginCall, readerVars, portVars, historyVars
<1> QED BY <1>6, <1>7 DEF TypeInv, e, alone

(* So is a poll.                                                           *)
LEMMA BeginPollStack ==
    ASSUME TypeInv, NEW t \in Threads, BeginPoll(t)
    PROVE  /\ TypeInv'
           /\ Stacked(t, Len(stack[t]), <<Poll(IF readFirst THEN <<>> ELSE pending)>>)
           /\ \A u \in Threads : \A k \in 1 .. Len(stack[u]) : ~stack'[u][k].alone
<1> DEFINE rest == IF readFirst THEN <<>> ELSE pending
           e == Poll(rest)
<1>1. StackTypes /\ InPython(t) /\ stack' = [NoLongerAlone EXCEPT ![t] = Append(@, e)]
    BY DEF TypeInv, BeginPoll, Python
<1>2. rest \in Seq(WireByte)
    BY DEF TypeInv, BufferTypes
<1> HIDE DEF rest
<1>3. e \in Op /\ e.op = "poll" /\ e.pc = "read"
    BY <1>2 DEF Poll, Op
<1>4. Lawful(e) /\ e.op # "callback"
    BY <1>3 DEF Lawful
<1> HIDE DEF e
<1>5. /\ Stacked(t, Len(stack[t]), <<e>>) /\ StackTypes'
      /\ \A u \in Threads : \A k \in 1 .. Len(stack[u]) : ~stack'[u][k].alone
    BY <1>1, <1>3, <1>4, BeginTop
<1>6. BufferTypes'
    BY DEF TypeInv, BufferTypes, BeginPoll, readerVars, portVars, historyVars
<1> QED BY <1>5, <1>6 DEF TypeInv, e, rest

(* The steps of a call that take no byte.                                  *)
LEMMA GoOnStack ==
    ASSUME TypeInv, NEW t \in Threads
    PROVE  /\ SendCommand(t) =>
                 /\ TypeInv' /\ stack[t] # <<>> /\ Top(t).op = "call"
                 /\ Stacked(t, Len(stack[t]) - 1, <<[Top(t) EXCEPT !.pc = "await"]>>)
           /\ EnterAwait(t) =>
                 /\ TypeInv' /\ stack[t] # <<>> /\ Top(t).op = "call"
                 /\ Stacked(t, Len(stack[t]) - 1, <<[Top(t) EXCEPT !.pc = "loop"]>>)
           /\ BeginRead(t) =>
                 /\ TypeInv' /\ stack[t] # <<>> /\ Top(t).op = "call"
                 /\ Stacked(t, Len(stack[t]) - 1, <<[Top(t) EXCEPT !.pc = "read"]>>)
           /\ AwaitRead(t) =>
                 /\ TypeInv' /\ stack[t] # <<>> /\ Top(t).op = "call"
                 /\ Stacked(t, Len(stack[t]) - 1, <<[Top(t) EXCEPT !.pc = "loop"]>>)
           /\ AwaitTimeout(t) =>
                 TypeInv' /\ stack[t] # <<>> /\ Top(t).op = "call" /\ Stacked(t, Len(stack[t]) - 1, <<>>)
<1> USE DEF TypeInv
<1>1. ASSUME SendCommand(t)
      PROVE  /\ TypeInv' /\ stack[t] # <<>> /\ Top(t).op = "call"
             /\ Stacked(t, Len(stack[t]) - 1, <<[Top(t) EXCEPT !.pc = "await"]>>)
    <2>1. stack[t] # <<>> /\ Top(t).op = "call" /\ stack' = GoTo(t, "await")
        BY <1>1 DEF SendCommand, In
    <2>2. Stacked(t, Len(stack[t]) - 1, <<[Top(t) EXCEPT !.pc = "await"]>>) /\ StackTypes'
        BY <2>1, GoToTop
    <2>3. Top(t).call \in Nat
        BY <2>1, TopLaws DEF Op
    <2>4. BufferTypes'
        BY <1>1, <2>3 DEF BufferTypes, SendCommand, readerVars, historyVars
    <2> QED BY <2>1, <2>2, <2>4
<1>2. ASSUME EnterAwait(t)
      PROVE  /\ TypeInv' /\ stack[t] # <<>> /\ Top(t).op = "call"
             /\ Stacked(t, Len(stack[t]) - 1, <<[Top(t) EXCEPT !.pc = "loop"]>>)
    <2>1. stack[t] # <<>> /\ Top(t).op = "call" /\ stack' = GoTo(t, "loop")
        BY <1>2 DEF EnterAwait, In
    <2>2. Stacked(t, Len(stack[t]) - 1, <<[Top(t) EXCEPT !.pc = "loop"]>>) /\ StackTypes'
        BY <2>1, GoToTop
    <2>3. BufferTypes'
        BY <1>2 DEF BufferTypes, EnterAwait, readerVars, historyVars, portVars
    <2> QED BY <2>1, <2>2, <2>3
<1>3. ASSUME BeginRead(t)
      PROVE  /\ TypeInv' /\ stack[t] # <<>> /\ Top(t).op = "call"
             /\ Stacked(t, Len(stack[t]) - 1, <<[Top(t) EXCEPT !.pc = "read"]>>)
    <2>1. stack[t] # <<>> /\ Top(t).op = "call" /\ stack' = GoTo(t, "read")
        BY <1>3 DEF BeginRead, In
    <2>2. Stacked(t, Len(stack[t]) - 1, <<[Top(t) EXCEPT !.pc = "read"]>>) /\ StackTypes'
        BY <2>1, GoToTop
    <2>3. BufferTypes'
        BY <1>3 DEF BufferTypes, BeginRead, readerVars, historyVars, portVars
    <2> QED BY <2>1, <2>2, <2>3
<1>4. ASSUME AwaitRead(t)
      PROVE  /\ TypeInv' /\ stack[t] # <<>> /\ Top(t).op = "call"
             /\ Stacked(t, Len(stack[t]) - 1, <<[Top(t) EXCEPT !.pc = "loop"]>>)
    <2>1. stack[t] # <<>> /\ Top(t).op = "call" /\ stack' = GoTo(t, "loop")
        BY <1>4 DEF AwaitRead, In
    <2>2. Stacked(t, Len(stack[t]) - 1, <<[Top(t) EXCEPT !.pc = "loop"]>>) /\ StackTypes'
        BY <2>1, GoToTop
    <2>3. line' \in Seq(WireByte) /\ pending' \in Seq(WireByte)
        BY <1>4 DEF BufferTypes, AwaitRead, TakeFromLine
    <2>4. BufferTypes'
        BY <1>4, <2>3 DEF BufferTypes, AwaitRead, readerVars, historyVars
    <2> QED BY <2>1, <2>2, <2>4
<1>5. ASSUME AwaitTimeout(t)
      PROVE  TypeInv' /\ stack[t] # <<>> /\ Top(t).op = "call" /\ Stacked(t, Len(stack[t]) - 1, <<>>)
    <2>1. stack[t] # <<>> /\ Top(t).op = "call" /\ stack' = Popped(t)
        BY <1>5 DEF AwaitTimeout, In
    <2>2. Stacked(t, Len(stack[t]) - 1, <<>>) /\ StackTypes'
        BY <2>1, PoppedTop
    <2>3. BufferTypes'
        BY <1>5 DEF BufferTypes, AwaitTimeout, readerVars, portVars
    <2> QED BY <2>1, <2>2, <2>3
<1> QED BY <1>1, <1>2, <1>3, <1>4, <1>5

(* A byte that an operation takes is a byte.                               *)
LEMMA PushTypes ==
    ASSUME BufferTypes, NEW s \in Seq(WireByte), s # <<>>, PushByte(Head(s))
    PROVE  /\ region' \in Seq(FrameBody) /\ seen' \in Seq(Nat) /\ Tail(s) \in Seq(WireByte)
           /\ Head(s) \in WireByte
<1>1. Head(s) \in WireByte /\ Tail(s) \in Seq(WireByte)
    OBVIOUS
<1>2. region' \in Seq(FrameBody)
    BY <1>1, PushLaws DEF BufferTypes
<1>3. seen' \in Seq(Nat)
    <2>1. CASE event' = "FrameReady"
        <3>1. region[1] \in FrameBody /\ seen' = Append(seen, region[1].nr)
            BY <1>1, <2>1, PushLaws DEF BufferTypes
        <3>2. region[1].nr \in Nat
            BY <3>1 DEF FrameBody
        <3> QED BY <3>1, <3>2 DEF BufferTypes
    <2>2. CASE event' # "FrameReady"
        BY <1>1, <2>2, PushLaws DEF BufferTypes
    <2> QED BY <2>1, <2>2
<1> QED BY <1>1, <1>2, <1>3

(* await_reply takes a byte: it goes on, returns or calls back.            *)
LEMMA AwaitByteStack ==
    ASSUME TypeInv, NEW t \in Threads, AwaitByte(t)
    PROVE  /\ TypeInv' /\ stack[t] # <<>> /\ Top(t).op = "call" /\ Top(t).pc = "loop"
           /\ \/ UNCHANGED stack
              \/ Stacked(t, Len(stack[t]) - 1, <<>>)
              \/ Stacked(t, Len(stack[t]), <<Callback>>)
<1>1. stack[t] # <<>> /\ Top(t).op = "call" /\ Top(t).pc = "loop" /\ pending # <<>> /\ StackTypes
    BY DEF AwaitByte, In, TypeInv
<1>2. BufferTypes'
    <2>1. /\ region' \in Seq(FrameBody) /\ seen' \in Seq(Nat) /\ Tail(pending) \in Seq(WireByte)
        BY <1>1, PushTypes DEF AwaitByte, TypeInv, BufferTypes
    <2> QED BY <2>1 DEF AwaitByte, TypeInv, BufferTypes, portVars
<1>3. CASE stack' = Popped(t)
    BY <1>1, <1>2, <1>3, PoppedTop DEF TypeInv
<1>4. CASE EnterCallback(t, stack)
    <2>1. stack' = [stack EXCEPT ![t] = Append(@, Callback)]
        BY <1>4 DEF EnterCallback
    <2> QED BY <1>1, <1>2, <2>1, CallbackOnTop DEF TypeInv
<1>5. CASE UNCHANGED stack
    BY <1>1, <1>2, <1>5 DEF TypeInv, StackTypes
<1> QED BY <1>3, <1>4, <1>5 DEF AwaitByte

\* What a poll that now reads has before what it reads.
Rest(t) == IF readFirst THEN pending ELSE Top(t).chunk

(* poll's read completes its chunk.                                        *)
LEMMA PollReadStack ==
    ASSUME TypeInv, NEW t \in Threads, PollRead(t)
    PROVE  /\ TypeInv' /\ stack[t] # <<>> /\ Top(t).op = "poll" /\ Top(t).pc = "read"
           /\ Rest(t) \in Seq(WireByte)
           /\ \E n \in 0 .. Len(line) :
                 /\ line' = SubSeq(line, n + 1, Len(line))
                 /\ Stacked(t, Len(stack[t]) - 1,
                       <<[Top(t) EXCEPT !.pc = "loop", !.chunk = Rest(t) \o SubSeq(line, 1, n)]>>)
<1>1. stack[t] # <<>> /\ Top(t).op = "poll" /\ Top(t).pc = "read" /\ StackTypes
    BY DEF PollRead, In, TypeInv
<1>2. Rest(t) \in Seq(WireByte)
    BY <1>1, TopLaws DEF Rest, TypeInv, BufferTypes, Op
<1>3. PICK n \in 0 .. Len(line) :
          /\ line' = SubSeq(line, n + 1, Len(line))
          /\ stack' = [GoTo(t, "loop") EXCEPT ![t][Len(stack[t])].chunk = Rest(t) \o SubSeq(line, 1, n)]
    BY DEF PollRead, TakeFromLine, Rest
<1> DEFINE c == Rest(t) \o SubSeq(line, 1, n)
           e == [Top(t) EXCEPT !.pc = "loop", !.chunk = c]
<1>4. c \in Seq(WireByte) /\ line' \in Seq(WireByte)
    BY <1>2, <1>3 DEF TypeInv, BufferTypes
<1> HIDE DEF c
<1>5. Top(t) \in Op /\ Lawful(Top(t)) /\ Top(t) = stack[t][Len(stack[t])] /\ Len(stack[t]) \in Nat \ {0}
    BY <1>1, TopLaws
<1>6. e \in Op /\ e.op = "poll" /\ e.pc = "loop"
    BY <1>1, <1>4, <1>5 DEF Op
<1>7. Lawful(e)
    BY <1>6 DEF Lawful
<1>8. stack' = [stack EXCEPT ![t] = [stack[t] EXCEPT ![Len(stack[t])] = e]]
    <2>1. stack' = [GoTo(t, "loop") EXCEPT ![t][Len(stack[t])].chunk = c]
        BY <1>3 DEF c
    <2>2. GoTo(t, "loop") = [stack EXCEPT ![t] = [stack[t] EXCEPT ![Len(stack[t])] = [Top(t) EXCEPT !.pc = "loop"]]]
        BY <1>5 DEF GoTo
    <2> DEFINE f == [Top(t) EXCEPT !.pc = "loop"]
               s == [stack[t] EXCEPT ![Len(stack[t])] = f]
    <2>3. f \in Op
        BY <1>5 DEF Op
    <2>4. e = [f EXCEPT !.chunk = c]
        BY <1>5 DEF Op
    <2> HIDE DEF e, f
    <2>5. stack[t] \in Seq(Op) /\ Len(stack[t]) \in 1 .. Len(stack[t]) /\ stack \in Stacks
        BY <1>1, <1>5, OnStack DEF StackTypes
    <2>6. s[Len(stack[t])] = f /\ [s EXCEPT ![Len(stack[t])] = e] = [stack[t] EXCEPT ![Len(stack[t])] = e]
        BY <2>5
    <2>7. GoTo(t, "loop") = [stack EXCEPT ![t] = s]
        BY <2>2 DEF f
    <2> HIDE DEF s
    <2>8. stack' = [stack EXCEPT ![t] = [s EXCEPT ![Len(stack[t])] = e]]
        BY <2>1, <2>4, <2>5, <2>6, <2>7 DEF Stacks
    <2> QED BY <2>6, <2>8
<1> HIDE DEF e
<1>9. Stacked(t, Len(stack[t]) - 1, <<e>>) /\ StackTypes'
    BY <1>1, <1>6, <1>7, <1>8, ChangeTop
<1>10. BufferTypes'
    <2>1. pending' \in Seq(WireByte)
        BY DEF PollRead
    <2> QED BY <1>4, <2>1 DEF PollRead, TypeInv, BufferTypes, readerVars, historyVars
<1> QED BY <1>1, <1>2, <1>3, <1>9, <1>10 DEF TypeInv, c, e

(* poll takes a byte: it goes on or calls back.                            *)
LEMMA PollByteStack ==
    ASSUME TypeInv, NEW t \in Threads, PollByte(t)
    PROVE  LET e == [Top(t) EXCEPT !.chunk = Tail(@)]
           IN  /\ TypeInv' /\ stack[t] # <<>> /\ Top(t).op = "poll" /\ Top(t).pc = "loop"
               /\ Top(t).chunk \in Seq(WireByte) /\ Top(t).chunk # <<>>
               /\ \/ Stacked(t, Len(stack[t]) - 1, <<e>>) /\ gil' = gil
                  \/ Stacked(t, Len(stack[t]) - 1, <<e, Callback>>) /\ event' = "FrameReady"
<1> DEFINE e == [Top(t) EXCEPT !.chunk = Tail(@)]
<1>1. stack[t] # <<>> /\ Top(t).op = "poll" /\ Top(t).pc = "loop" /\ StackTypes /\ Top(t).chunk # <<>>
    BY DEF PollByte, In, TypeInv
<1>2. Top(t) \in Op /\ Lawful(Top(t)) /\ Top(t) = stack[t][Len(stack[t])] /\ Len(stack[t]) \in Nat \ {0}
    BY <1>1, TopLaws
<1>3. Top(t).chunk \in Seq(WireByte) /\ Tail(Top(t).chunk) \in Seq(WireByte)
    <2>1. Top(t).chunk \in Seq(WireByte)
        BY <1>2 DEF Op
    <2> QED BY <1>1, <2>1
<1>4. e \in Op /\ e.op = "poll" /\ e.pc = "loop"
    BY <1>1, <1>2, <1>3 DEF Op
<1>5. Lawful(e)
    BY <1>4 DEF Lawful
<1>6. BufferTypes'
    <2>1. region' \in Seq(FrameBody) /\ seen' \in Seq(Nat)
        BY <1>1, <1>3, PushTypes DEF PollByte, TypeInv
    <2> QED BY <2>1 DEF PollByte, TypeInv, BufferTypes, portVars
<1> DEFINE rest == [stack EXCEPT ![t][Len(stack[t])].chunk = Tail(@)]
<1>7. rest = [stack EXCEPT ![t] = [stack[t] EXCEPT ![Len(stack[t])] = e]]
    BY <1>2
<1>8. \/ stack' = rest /\ gil' = gil
      \/ stack' = [rest EXCEPT ![t] = Append(@, Callback)] /\ event' = "FrameReady"
    BY DEF PollByte, EnterCallback, Completed
<1> HIDE DEF e, rest
<1>9. ASSUME stack' = rest PROVE Stacked(t, Len(stack[t]) - 1, <<e>>) /\ StackTypes'
    BY <1>1, <1>4, <1>5, <1>7, <1>9, ChangeTop
<1>10. ASSUME stack' = [rest EXCEPT ![t] = Append(@, Callback)]
       PROVE  Stacked(t, Len(stack[t]) - 1, <<e, Callback>>) /\ StackTypes'
    BY <1>1, <1>4, <1>5, <1>7, <1>10, CallbackTop
<1>11. /\ \/ Stacked(t, Len(stack[t]) - 1, <<e>>) /\ gil' = gil
          \/ Stacked(t, Len(stack[t]) - 1, <<e, Callback>>) /\ event' = "FrameReady"
       /\ StackTypes'
    BY <1>8, <1>9, <1>10
<1> QED BY <1>1, <1>3, <1>6, <1>11 DEF TypeInv, e

(* A process that is gone has nothing on its stacks.                       *)
LEMMA EmptiedStacks ==
    ASSUME stack' = [u \in Threads |-> <<>>]
    PROVE  StackTypes' /\ \A u \in Threads : stack'[u] = <<>> /\ Len(stack'[u]) = 0
<1>1. <<>> \in Seq(Op) /\ Len(<<>>) = 0
    OBVIOUS
<1>2. Proper(<<>>)
    BY <1>1 DEF Proper
<1> QED BY <1>1, <1>2 DEF StackTypes, Stacks

(* A poll or a callback ends, or the port raises.                          *)
LEMMA ReturnStack ==
    ASSUME TypeInv, NEW t \in Threads
    PROVE  /\ PollReturns(t) \/ CallbackReturns(t) =>
                 TypeInv' /\ stack[t] # <<>> /\ Stacked(t, Len(stack[t]) - 1, <<>>)
           /\ PortRaises(t) =>
                 /\ TypeInv' /\ stack[t] # <<>> /\ UNCHANGED discarded
                 /\ \/ Stacked(t, Len(stack[t]) - 1, <<>>)
                    \/ Top(t).op = "call" /\ stack' = [u \in Threads |-> <<>>]
<1>1. ASSUME PollReturns(t) \/ CallbackReturns(t)
      PROVE  TypeInv' /\ stack[t] # <<>> /\ Stacked(t, Len(stack[t]) - 1, <<>>)
    <2>1. stack[t] # <<>> /\ stack' = Popped(t)
        BY <1>1 DEF PollReturns, CallbackReturns, In
    <2>2. Stacked(t, Len(stack[t]) - 1, <<>>) /\ StackTypes'
        BY <2>1, PoppedTop DEF TypeInv
    <2>3. BufferTypes'
        BY <1>1 DEF TypeInv, BufferTypes, PollReturns, CallbackReturns, readerVars, historyVars, portVars
    <2> QED BY <2>1, <2>2, <2>3 DEF TypeInv
<1>2. ASSUME PortRaises(t)
      PROVE  /\ TypeInv' /\ stack[t] # <<>> /\ UNCHANGED discarded
             /\ \/ Stacked(t, Len(stack[t]) - 1, <<>>)
                \/ Top(t).op = "call" /\ stack' = [u \in Threads |-> <<>>]
    <2>1. BufferTypes'
        BY <1>2 DEF TypeInv, BufferTypes, PortRaises, readerVars, portVars
    <2>2. CASE Top(t).op = "call"
        <3>1. stack' = [u \in Threads |-> <<>>] /\ stack[t] # <<>> /\ UNCHANGED discarded
            BY <1>2, <2>2 DEF PortRaises, In, Raise
        <3> QED BY <2>1, <2>2, <3>1, EmptiedStacks DEF TypeInv
    <2>3. CASE Top(t).op # "call"
        <3>1. stack' = Popped(t) /\ stack[t] # <<>> /\ UNCHANGED discarded
            BY <1>2, <2>3 DEF PortRaises, In, Raise
        <3> QED BY <2>1, <3>1, PoppedTop DEF TypeInv
    <2> QED BY <2>2, <2>3
<1> QED BY <1>1, <1>2

(* A callback raises through the operation below it.                       *)
LEMMA CallbackRaisesStack ==
    ASSUME TypeInv, NEW t \in Threads, CallbackRaises(t)
    PROVE  LET n == Len(stack[t]) - 2
           IN  /\ TypeInv' /\ n \in Nat
               /\ \/ /\ stack[t][n + 1].op = "call" /\ stack' = [u \in Threads |-> <<>>]
                     /\ UNCHANGED discarded
                  \/ /\ stack[t][n + 1].op = "poll" /\ Stacked(t, n, <<>>)
                     /\ discarded' = discarded \cup InTransit(stack[t][n + 1].chunk)
<1> DEFINE n == Len(stack[t]) - 2
<1>1. BufferTypes' /\ StackTypes
    BY DEF TypeInv, BufferTypes, CallbackRaises, readerVars, portVars
<1>2. Len(stack[t]) \in Nat /\ n \in Nat
    <2>1. stack[t] # <<>> /\ Top(t).op = "callback"
        BY DEF CallbackRaises, In
    <2>2. Len(stack[t]) \in Nat /\ Len(stack[t]) # 0 /\ Len(stack[t]) # 1
        BY <1>1, <2>1, TopLaws
    <2> HIDE DEF n
    <2>3. \A m \in Nat : m # 0 /\ m # 1 => m - 2 \in Nat
        OBVIOUS
    <2>4. Len(stack[t]) - 2 \in Nat
        BY <2>2, <2>3
    <2> QED BY <2>2, <2>4 DEF n
<1>3. Last(Front(stack[t])) = stack[t][n + 1] /\ Front(Front(stack[t])) = SubSeq(stack[t], 1, n)
    <2>1. stack[t] \in Seq(Op)
        BY <1>1, OnStack DEF StackTypes
    <2> QED BY <1>2, <2>1 DEF Front, Last
<1>4. n \in 0 .. Len(stack[t])
    BY <1>2
<1> HIDE DEF n
<1> DEFINE operation == stack[t][n + 1]
<1>5. /\ Raise(t, operation)
      /\ \/ operation.op = "call"
         \/ operation.op = "poll" /\ stack' = [stack EXCEPT ![t] = SubSeq(stack[t], 1, n)]
    BY <1>3 DEF CallbackRaises
<1>6. CASE operation.op = "call"
    <2>1. stack' = [u \in Threads |-> <<>>] /\ UNCHANGED discarded
        BY <1>5, <1>6 DEF Raise
    <2> QED BY <1>1, <1>2, <1>6, <2>1, EmptiedStacks DEF TypeInv, n
<1>7. CASE operation.op # "call"
    <2>1. /\ operation.op = "poll" /\ stack' = [stack EXCEPT ![t] = SubSeq(stack[t], 1, n)]
          /\ discarded' = discarded \cup InTransit(operation.chunk)
        BY <1>5, <1>7 DEF Raise, InTransit
    <2>2. Stacked(t, n, <<>>) /\ StackTypes'
        BY <1>1, <1>4, <2>1, PopTop
    <2> QED BY <1>1, <1>2, <2>1, <2>2 DEF TypeInv, n
<1> QED BY <1>6, <1>7

(* The device transmits a frame.                                           *)
LEMMA TransmitTypes ==
    ASSUME TypeInv, DeviceReplies \/ DevicePushes
    PROVE  /\ TypeInv' /\ UNCHANGED stack /\ sent' = sent + 1
           /\ \E b \in FrameBody :
                 /\ b.nr = sent + 1 /\ line' = line \o <<b, Delimiter>>
                 /\ DeviceReplies => b.call = Head(toDevice)
                 /\ DevicePushes => ~IsReply(b)
<1>1. PICK type \in {"Reply", "Stream"}, call \in Nat :
          /\ Transmit(type, call)
          /\ DeviceReplies => call = Head(toDevice)
          /\ DevicePushes => type = "Stream"
    <2>1. CASE DeviceReplies
        <3>1. Head(toDevice) \in Nat /\ ~DevicePushes
            BY <2>1 DEF DeviceReplies, DevicePushes, TypeInv, BufferTypes
        <3> QED BY <2>1, <3>1 DEF DeviceReplies
    <2>2. CASE DevicePushes /\ ~DeviceReplies
        BY <2>2 DEF DevicePushes, NoCall
    <2> QED BY <2>1, <2>2
<1> DEFINE b == [type |-> type, nr |-> sent + 1, call |-> call]
<1>2. b \in FrameBody /\ b.nr = sent + 1 /\ b.call = call /\ b.type = type /\ sent' = sent + 1 /\ sent' \in Nat
    BY <1>1 DEF FrameBody, Transmit, TypeInv, BufferTypes
<1>3. line' = line \o <<b, Delimiter>>
    BY <1>1, <1>2 DEF Transmit
<1> HIDE DEF b
<1>4. line' \in Seq(WireByte)
    <2>1. <<b, Delimiter>> \in Seq(WireByte)
        BY <1>2 DEF WireByte
    <2> QED BY <1>3, <2>1 DEF TypeInv, BufferTypes
<1>5. toDevice' \in Seq(Nat) /\ UNCHANGED stack
    <2>1. CASE DeviceReplies
        BY <2>1 DEF DeviceReplies, TypeInv, BufferTypes
    <2>2. CASE DevicePushes
        BY <2>2 DEF DevicePushes, TypeInv, BufferTypes
    <2> QED BY <2>1, <2>2
<1>6. BufferTypes'
    BY <1>2, <1>4, <1>5 DEF DeviceReplies, DevicePushes, TypeInv, BufferTypes, readerVars, historyVars
<1>7. StackTypes'
    BY <1>5 DEF TypeInv, StackTypes
<1> QED BY <1>1, <1>2, <1>3, <1>5, <1>6, <1>7 DEF TypeInv, IsReply

(* Some other code registers a callback.                                   *)
LEMMA RegisterTypes ==
    ASSUME TypeInv, NEW t \in Threads, Register(t)
    PROVE  TypeInv' /\ UNCHANGED stack
BY DEF TypeInv, BufferTypes, StackTypes, Register, readerVars, portVars, historyVars

(* Spec keeps the types, and the stacks proper: an operation stands on a   *)
(* callback, a callback on the loop of an operation.                       *)
LEMMA TypeInvInductive == Spec => []TypeInv
<1>1. Init => TypeInv
    <2>1. ASSUME Init PROVE BufferTypes
        BY <2>1 DEF Init, Reader!Init, BufferTypes
    <2>2. ASSUME Init PROVE StackTypes
        <3>1. <<>> \in Seq(Op) /\ Len(<<>>) = 0
            OBVIOUS
        <3>2. Proper(<<>>)
            BY <3>1 DEF Proper
        <3> QED BY <2>2, <3>1, <3>2 DEF Init, StackTypes, Stacks
    <2> QED BY <2>1, <2>2 DEF TypeInv
<1>2. TypeInv /\ [Next]_vars => TypeInv'
    <2> SUFFICES ASSUME TypeInv, [Next]_vars PROVE TypeInv'
        OBVIOUS
    <2>1. ASSUME NEW t \in Threads, BeginCall(t) PROVE TypeInv'
        BY <2>1, BeginCallStack
    <2>2. ASSUME NEW t \in Threads, BeginPoll(t) PROVE TypeInv'
        BY <2>2, BeginPollStack
    <2>3. ASSUME NEW t \in Threads, Register(t) PROVE TypeInv'
        BY <2>3, RegisterTypes
    <2>4. ASSUME NEW t \in Threads, Continue(t) PROVE TypeInv'
        BY <2>4, GoOnStack, AwaitByteStack, PollReadStack, PollByteStack, ReturnStack DEF Continue
    <2>5. ASSUME NEW t \in Threads, CallbackRaises(t) PROVE TypeInv'
        BY <2>5, CallbackRaisesStack
    <2>6. ASSUME NEW t \in Threads, PortRaises(t) PROVE TypeInv'
        BY <2>6, ReturnStack
    <2>7. CASE DeviceReplies \/ DevicePushes
        BY <2>7, TransmitTypes
    <2>8. CASE UNCHANGED vars
        BY <2>8 DEF vars, readerVars, portVars, historyVars, TypeInv, BufferTypes, StackTypes
    <2> QED BY <2>1, <2>2, <2>3, <2>4, <2>5, <2>6, <2>7, <2>8 DEF Next
<1> QED BY <1>1, <1>2, PTL DEF Spec

-----------------------------------------------------------------------------
(* The frames that a sequence of bytes carries.                            *)
LEMMA InTransitLaws ==
    ASSUME NEW s
    PROVE  \A m : m \in InTransit(s) <=> \E k \in 1 .. Len(s) : IsBody(s[k]) /\ s[k].nr = m
BY DEF InTransit, IsBody

\* No frame is carried twice.
Distinct(s) ==
    \A j, k \in 1 .. Len(s) : IsBody(s[j]) /\ IsBody(s[k]) /\ s[j].nr = s[k].nr => j = k

(* What a sequence is that is put together.                                *)
LEMMA ConcatLaws ==
    ASSUME NEW s \in Seq(WireByte), NEW r \in Seq(WireByte)
    PROVE  /\ s \o r \in Seq(WireByte) /\ Len(s \o r) = Len(s) + Len(r)
           /\ \A k \in 1 .. Len(s) : (s \o r)[k] = s[k]
           /\ \A k \in 1 .. Len(r) : (s \o r)[Len(s) + k] = r[k]
OBVIOUS

(* A sequence that is put together carries what its parts do.              *)
LEMMA Concatenated ==
    ASSUME NEW s \in Seq(WireByte), NEW r \in Seq(WireByte)
    PROVE  /\ InTransit(s \o r) = InTransit(s) \cup InTransit(r)
           /\ Distinct(s \o r) <=>
                 Distinct(s) /\ Distinct(r) /\ InTransit(s) \cap InTransit(r) = {}
<1> DEFINE q == s \o r
           n == Len(s)
<1>1. /\ Len(q) = n + Len(r) /\ n \in Nat /\ Len(r) \in Nat
      /\ \A k \in 1 .. n : q[k] = s[k]
      /\ \A k \in 1 .. Len(r) : q[n + k] = r[k]
    BY ConcatLaws
<1> HIDE DEF q, n
<1>2. ASSUME NEW k \in 1 .. Len(q) PROVE k \in 1 .. n \/ \E j \in 1 .. Len(r) : k = n + j
    <2>1. CASE k > n
        <3>1. k - n \in 1 .. Len(r) /\ k = n + (k - n)
            BY <1>1, <2>1
        <3> QED BY <3>1
    <2> QED BY <1>1, <2>1
<1>3. \A k \in 1 .. n : k \in 1 .. Len(q)
    BY <1>1
<1>4. \A k \in 1 .. Len(r) : n + k \in 1 .. Len(q)
    BY <1>1
<1>5. InTransit(q) = InTransit(s) \cup InTransit(r)
    <2>1. ASSUME NEW m \in InTransit(q) PROVE m \in InTransit(s) \cup InTransit(r)
        <3>1. PICK k \in 1 .. Len(q) : IsBody(q[k]) /\ q[k].nr = m
            BY InTransitLaws
        <3>2. CASE k \in 1 .. n
            BY <1>1, <3>1, <3>2, InTransitLaws DEF n
        <3>3. ASSUME NEW j \in 1 .. Len(r), k = n + j PROVE m \in InTransit(r)
            BY <1>1, <3>1, <3>3, InTransitLaws
        <3> QED BY <1>2, <3>2, <3>3
    <2>2. ASSUME NEW m \in InTransit(s) PROVE m \in InTransit(q)
        <3>1. PICK k \in 1 .. n : IsBody(s[k]) /\ s[k].nr = m
            BY InTransitLaws DEF n
        <3> QED BY <1>1, <1>3, <3>1, InTransitLaws
    <2>3. ASSUME NEW m \in InTransit(r) PROVE m \in InTransit(q)
        <3>1. PICK k \in 1 .. Len(r) : IsBody(r[k]) /\ r[k].nr = m
            BY InTransitLaws
        <3> QED BY <1>1, <1>4, <3>1, InTransitLaws
    <2> QED BY <2>1, <2>2, <2>3
<1>6. ASSUME Distinct(q) PROVE Distinct(s) /\ Distinct(r) /\ InTransit(s) \cap InTransit(r) = {}
    <2>1. Distinct(s)
        BY <1>1, <1>3, <1>6 DEF Distinct, n
    <2>2. Distinct(r)
        <3>1. ASSUME NEW j \in 1 .. Len(r), NEW k \in 1 .. Len(r),
                     IsBody(r[j]), IsBody(r[k]), r[j].nr = r[k].nr
              PROVE  j = k
            <4>1. q[n + j] = r[j] /\ q[n + k] = r[k] /\ n + j \in 1 .. Len(q) /\ n + k \in 1 .. Len(q)
                BY <1>1, <1>4
            <4>2. n + j = n + k
                BY <1>6, <3>1, <4>1 DEF Distinct
            <4> QED BY <1>1, <4>2
        <3> QED BY <3>1 DEF Distinct
    <2>3. ASSUME NEW m, m \in InTransit(s), m \in InTransit(r) PROVE FALSE
        <3>1. PICK j \in 1 .. n : IsBody(s[j]) /\ s[j].nr = m
            BY <2>3, InTransitLaws DEF n
        <3>2. PICK k \in 1 .. Len(r) : IsBody(r[k]) /\ r[k].nr = m
            BY <2>3, InTransitLaws
        <3>3. q[j] = s[j] /\ q[n + k] = r[k] /\ j \in 1 .. Len(q) /\ n + k \in 1 .. Len(q)
            BY <1>1, <1>3, <1>4
        <3>4. j = n + k
            BY <1>6, <3>1, <3>2, <3>3 DEF Distinct
        <3> QED BY <1>1, <3>4
    <2> QED BY <2>1, <2>2, <2>3
<1>7. ASSUME Distinct(s), Distinct(r), InTransit(s) \cap InTransit(r) = {} PROVE Distinct(q)
    <2>1. SUFFICES ASSUME NEW j \in 1 .. Len(q), NEW k \in 1 .. Len(q),
                          IsBody(q[j]), IsBody(q[k]), q[j].nr = q[k].nr
                   PROVE  j = k
        BY DEF Distinct
    <2>2. CASE j \in 1 .. n /\ k \in 1 .. n
        BY <1>1, <1>7, <2>1, <2>2 DEF Distinct, n
    <2>3. ASSUME NEW x \in 1 .. Len(r), NEW y \in 1 .. Len(r), j = n + x, k = n + y PROVE j = k
        <3>1. q[n + x] = r[x] /\ q[n + y] = r[y]
            BY <1>1
        <3>2. x = y
            BY <1>7, <2>1, <2>3, <3>1 DEF Distinct
        <3> QED BY <2>3, <3>2
    <2>4. ASSUME NEW i \in 1 .. n, NEW y \in 1 .. Len(r),
                 IsBody(q[i]), IsBody(q[n + y]), q[i].nr = q[n + y].nr
          PROVE  FALSE
        <3>1. q[i] = s[i] /\ q[n + y] = r[y]
            BY <1>1
        <3>2. q[i].nr \in InTransit(s) /\ q[i].nr \in InTransit(r)
            BY <2>4, <3>1, InTransitLaws DEF n
        <3> QED BY <1>7, <3>2
    <2>5. CASE j \in 1 .. n
        BY <1>2, <2>1, <2>2, <2>4, <2>5
    <2>6. CASE k \in 1 .. n
        BY <1>2, <2>1, <2>2, <2>4, <2>6
    <2> QED BY <1>2, <2>3, <2>5, <2>6
<1> QED BY <1>5, <1>6, <1>7 DEF q

(* A single byte carries its frame, or nothing.                            *)
LEMMA SingleByte ==
    ASSUME NEW b \in WireByte
    PROVE  /\ <<b>> \in Seq(WireByte) /\ Distinct(<<b>>)
           /\ IsBody(b) => InTransit(<<b>>) = {b.nr}
           /\ ~IsBody(b) => InTransit(<<b>>) = {}
           /\ <<>> \in Seq(WireByte) /\ Distinct(<<>>) /\ InTransit(<<>>) = {}
<1> DEFINE s == <<b>>
<1>1. s \in Seq(WireByte) /\ Len(s) = 1 /\ s[1] = b
    OBVIOUS
<1>2. \A m : m \in InTransit(s) <=> \E k \in 1 .. Len(s) : IsBody(s[k]) /\ s[k].nr = m
    BY InTransitLaws
<1> HIDE DEF s
<1>3. \A m : m \in InTransit(s) <=> IsBody(b) /\ b.nr = m
    BY <1>1, <1>2
<1>4. Distinct(s)
    BY <1>1 DEF Distinct
<1>5. <<>> \in Seq(WireByte) /\ Len(<<>>) = 0
    OBVIOUS
<1>6. Distinct(<<>>) /\ InTransit(<<>>) = {}
    BY <1>5, InTransitLaws DEF Distinct
<1> QED BY <1>1, <1>3, <1>4, <1>5, <1>6 DEF s

(* The first byte comes off; a prefix comes off.                           *)
LEMMA ComesOff ==
    ASSUME NEW s \in Seq(WireByte)
    PROVE  /\ s # <<>> => /\ Head(s) \in WireByte /\ Tail(s) \in Seq(WireByte)
                          /\ s = <<Head(s)>> \o Tail(s)
           /\ \A n \in 0 .. Len(s) :
                 /\ SubSeq(s, 1, n) \in Seq(WireByte) /\ SubSeq(s, n + 1, Len(s)) \in Seq(WireByte)
                 /\ s = SubSeq(s, 1, n) \o SubSeq(s, n + 1, Len(s))
<1>1. ASSUME s # <<>>
      PROVE  Head(s) \in WireByte /\ Tail(s) \in Seq(WireByte) /\ s = <<Head(s)>> \o Tail(s)
    <2>1. Head(s) \in WireByte /\ Tail(s) \in Seq(WireByte) /\ Len(s) \in Nat \ {0} /\ Head(s) = s[1]
          /\ Len(Tail(s)) = Len(s) - 1 /\ \A k \in 1 .. Len(s) - 1 : Tail(s)[k] = s[k + 1]
        BY <1>1
    <2> DEFINE h == <<Head(s)>>
               q == Tail(s)
               r == h \o q
    <2>2. h \in Seq(WireByte) /\ Len(h) = 1 /\ h[1] = s[1]
        BY <2>1
    <2> HIDE DEF h, q
    <2>3. /\ r \in Seq(WireByte) /\ Len(r) = 1 + Len(q) /\ r[1] = s[1] /\ Len(q) = Len(s) - 1
          /\ \A k \in 1 .. Len(q) : r[1 + k] = q[k]
        <3>1. q \in Seq(WireByte) /\ Len(q) = Len(s) - 1
            BY <2>1 DEF q
        <3>2. /\ r \in Seq(WireByte) /\ Len(r) = Len(h) + Len(q) /\ \A k \in 1 .. Len(h) : r[k] = h[k]
              /\ \A k \in 1 .. Len(q) : r[Len(h) + k] = q[k]
            BY <2>2, <3>1, ConcatLaws
        <3> QED BY <2>2, <3>1, <3>2
    <2> HIDE DEF r
    <2>4. ASSUME NEW k \in 1 .. Len(s) PROVE r[k] = s[k]
        <3>1. CASE k = 1
            BY <2>3, <3>1
        <3>2. CASE k # 1
            <4>1. k - 1 \in 1 .. Len(q) /\ k = 1 + (k - 1) /\ k = (k - 1) + 1
                BY <2>1, <3>2 DEF q
            <4> QED BY <2>1, <2>3, <4>1 DEF q
        <3> QED BY <3>1, <3>2
    <2>5. r = s
        BY <2>3, <2>4
    <2> QED BY <2>1, <2>5 DEF r, h, q
<1>2. ASSUME NEW n \in 0 .. Len(s)
      PROVE  /\ SubSeq(s, 1, n) \in Seq(WireByte) /\ SubSeq(s, n + 1, Len(s)) \in Seq(WireByte)
             /\ s = SubSeq(s, 1, n) \o SubSeq(s, n + 1, Len(s))
    <2> DEFINE p == SubSeq(s, 1, n)
               q == SubSeq(s, n + 1, Len(s))
               r == p \o q
    <2>1. /\ p \in Seq(WireByte) /\ q \in Seq(WireByte) /\ Len(p) = n /\ Len(q) = Len(s) - n
          /\ \A k \in 1 .. n : p[k] = s[k]
          /\ \A k \in 1 .. Len(s) - n : q[k] = s[n + k]
        OBVIOUS
    <2> HIDE DEF p, q
    <2>2. /\ r \in Seq(WireByte) /\ Len(r) = Len(s) /\ \A k \in 1 .. Len(p) : r[k] = p[k]
          /\ \A k \in 1 .. Len(q) : r[Len(p) + k] = q[k]
        BY <2>1
    <2> HIDE DEF r
    <2>3. ASSUME NEW k \in 1 .. Len(s) PROVE r[k] = s[k]
        <3>1. CASE k <= n
            BY <2>1, <2>2, <3>1
        <3>2. CASE k > n
            <4> DEFINE m == k - n
            <4>1. m \in 1 .. Len(q) /\ m \in 1 .. Len(s) - n /\ k = n + m
                BY <2>1, <3>2
            <4> HIDE DEF m
            <4>2. r[Len(p) + m] = q[m] /\ q[m] = s[n + m]
                BY <2>1, <2>2, <4>1
            <4> QED BY <2>1, <4>1, <4>2
        <3> QED BY <3>1, <3>2
    <2>4. r = s
        BY <2>2, <2>3
    <2> QED BY <2>1, <2>4 DEF r, p, q
<1> QED BY <1>1, <1>2

-----------------------------------------------------------------------------
(* Threads.                                                                *)
OneThread == ~overlapped => \A t, u \in Threads : stack[t] # <<>> /\ stack[u] # <<>> => t = u

(* A step of one thread leaves the other threads where they are.           *)
LEMMA OtherStacks ==
    ASSUME stack \in Stacks, NEW t \in Threads, NEW n, NEW new, Stacked(t, n, new),
           NEW u \in Threads \ {t}
    PROVE  stack[u] = <<>> <=> stack'[u] = <<>>
<1>1. stack[u] \in Seq(Op) /\ stack'[u] \in Seq(Op) /\ Len(stack'[u]) = Len(stack[u])
    BY DEF Stacked, Stacks
<1>2. \A s \in Seq(Op) : s = <<>> <=> Len(s) = 0
    OBVIOUS
<1> QED BY <1>1, <1>2

(* How a step uses the Device, and what the build decided for good.        *)
LEMMA Usage ==
    ASSUME Next
    PROVE  /\ UNCHANGED readFirst
           /\ \/ UNCHANGED usageVars
              \/ \E t \in Threads : (BeginCall(t) \/ BeginPoll(t)) /\ Disturb(t)
<1>1. CASE \E t \in Threads : BeginCall(t) \/ BeginPoll(t)
    BY <1>1 DEF BeginCall, BeginPoll
<1>2. CASE \E t \in Threads : Register(t)
    BY <1>2 DEF Register
<1>3. ASSUME NEW t \in Threads, Continue(t)
      PROVE  UNCHANGED readFirst /\ UNCHANGED usageVars
    <2>1. CASE SendCommand(t) \/ EnterAwait(t) \/ BeginRead(t) \/ AwaitRead(t) \/ AwaitTimeout(t)
        BY <2>1 DEF SendCommand, EnterAwait, BeginRead, AwaitRead, AwaitTimeout
    <2>2. CASE AwaitByte(t)
        BY <2>2 DEF AwaitByte
    <2>3. CASE PollRead(t) \/ PollByte(t) \/ PollReturns(t) \/ CallbackReturns(t)
        BY <2>3 DEF PollRead, PollByte, PollReturns, CallbackReturns
    <2> QED BY <1>3, <2>1, <2>2, <2>3 DEF Continue
<1>4. CASE \E t \in Threads : CallbackRaises(t) \/ PortRaises(t)
    BY <1>4 DEF CallbackRaises, PortRaises
<1>5. CASE DeviceReplies \/ DevicePushes
    BY <1>5 DEF DeviceReplies, DevicePushes
<1> QED BY <1>1, <1>2, <1>3, <1>4, <1>5 DEF Next

(* The steps of a thread, as what they leave on the stacks.                *)
LEMMA StackSteps ==
    ASSUME TypeInv, Next
    PROVE  \/ UNCHANGED stack
           \/ stack' = [u \in Threads |-> <<>>]
           \/ \E t \in Threads : \E n, new :
                 /\ Stacked(t, n, new)
                 /\ \/ BeginCall(t) \/ BeginPoll(t)
                    \/ stack[t] # <<>> /\ UNCHANGED usageVars
<1>1. ASSUME NEW t \in Threads, BeginCall(t) \/ BeginPoll(t) PROVE \E n, new : Stacked(t, n, new)
    BY <1>1, BeginCallStack, BeginPollStack
<1>2. ASSUME NEW t \in Threads, Register(t) PROVE UNCHANGED stack
    BY <1>2 DEF Register
<1>3. ASSUME NEW t \in Threads, Continue(t)
      PROVE  /\ UNCHANGED stack \/ \E n, new : Stacked(t, n, new)
             /\ stack[t] # <<>> /\ UNCHANGED usageVars
    <2>1. CASE SendCommand(t) \/ EnterAwait(t) \/ BeginRead(t) \/ AwaitRead(t) \/ AwaitTimeout(t)
        <3>1. (\E n, new : Stacked(t, n, new)) /\ stack[t] # <<>>
            BY <2>1, GoOnStack
        <3> QED BY <2>1, <3>1 DEF SendCommand, EnterAwait, BeginRead, AwaitRead, AwaitTimeout
    <2>2. CASE AwaitByte(t)
        BY <2>2, AwaitByteStack DEF AwaitByte
    <2>3. CASE PollRead(t)
        BY <2>3, PollReadStack DEF PollRead
    <2>4. CASE PollByte(t)
        BY <2>4, PollByteStack DEF PollByte
    <2>5. CASE PollReturns(t) \/ CallbackReturns(t)
        <3>1. (\E n, new : Stacked(t, n, new)) /\ stack[t] # <<>>
            BY <2>5, ReturnStack
        <3> QED BY <2>5, <3>1 DEF PollReturns, CallbackReturns
    <2> QED BY <1>3, <2>1, <2>2, <2>3, <2>4, <2>5 DEF Continue
<1>4. ASSUME NEW t \in Threads, CallbackRaises(t)
      PROVE  /\ stack' = [u \in Threads |-> <<>>] \/ \E n, new : Stacked(t, n, new)
             /\ stack[t] # <<>> /\ UNCHANGED usageVars
    BY <1>4, CallbackRaisesStack DEF CallbackRaises, In
<1>5. ASSUME NEW t \in Threads, PortRaises(t)
      PROVE  /\ stack' = [u \in Threads |-> <<>>] \/ \E n, new : Stacked(t, n, new)
             /\ stack[t] # <<>> /\ UNCHANGED usageVars
    BY <1>5, ReturnStack DEF PortRaises
<1>6. ASSUME DeviceReplies \/ DevicePushes PROVE UNCHANGED stack
    BY <1>6, TransmitTypes
<1> QED BY <1>1, <1>2, <1>3, <1>4, <1>5, <1>6 DEF Next

(* Unless it is said that threads overlapped, one thread at a time has     *)
(* anything on its stack.                                                  *)
LEMMA OneThreadStep ==
    ASSUME TypeInv, OneThread, [Next]_vars
    PROVE  OneThread'
<1>1. SUFFICES ASSUME ~overlapped', NEW a \in Threads, NEW b \in Threads,
                      stack'[a] # <<>>, stack'[b] # <<>>
               PROVE  a = b
    BY DEF OneThread
<1>2. CASE UNCHANGED <<stack, overlapped>>
    BY <1>1, <1>2 DEF OneThread
<1>3. CASE Next
    <2>1. ~overlapped
        BY <1>1, <1>3, Usage DEF usageVars, Disturb
    <2>2. CASE UNCHANGED stack
        BY <1>1, <2>1, <2>2 DEF OneThread
    <2>3. CASE stack' = [u \in Threads |-> <<>>]
        BY <1>1, <2>3
    <2>4. ASSUME NEW t \in Threads, NEW n, NEW new, Stacked(t, n, new),
                 BeginCall(t) \/ BeginPoll(t) \/ stack[t] # <<>>
          PROVE  a = b
        <3>1. \A u \in Threads \ {t} : stack[u] = <<>>
            <4>1. CASE BeginCall(t) \/ BeginPoll(t)
                <5>1. Disturb(t)
                    BY <4>1 DEF BeginCall, BeginPoll
                <5> QED BY <1>1, <5>1 DEF Disturb, OthersActive
            <4>2. CASE stack[t] # <<>>
                BY <2>1, <4>2 DEF OneThread
            <4> QED BY <2>4, <4>1, <4>2
        <3>2. \A u \in Threads \ {t} : stack'[u] = <<>>
            BY <2>4, <3>1, OtherStacks DEF TypeInv, StackTypes
        <3> QED BY <1>1, <3>2
    <2> QED BY <1>3, <2>2, <2>3, <2>4, StackSteps
<1> QED BY <1>2, <1>3 DEF vars, usageVars

-----------------------------------------------------------------------------
(* A command that is alone.                                                *)
RepliesOf(m, s) == \A k \in 1 .. Len(s) : IsReply(s[k]) => s[k].call = m

\* Nothing that could answer another call than m is under way.
OnlyCall(m, d, r, p, l) ==
    /\ \A k \in 1 .. Len(d) : d[k] = m
    /\ RepliesOf(m, r) /\ RepliesOf(m, p) /\ RepliesOf(m, l)

\* A command that is alone is at the bottom of the only stack in use, and
\* nothing on its way answers another command.
Alone ==
    \A t \in Threads : \A k \in 1 .. Len(stack[t]) : stack[t][k].alone =>
        /\ k = 1 /\ Len(stack[t]) <= 2 /\ stack[t][k].op = "call"
        /\ \A u \in Threads \ {t} : stack[u] = <<>>
        /\ OnlyCall(stack[t][k].call, toDevice, region, pending, line)

\* The call at the bottom of t's stack is alone, and its number is m.
Lone(t, m) == stack[t] # <<>> /\ stack[t][1].alone /\ stack[t][1].call = m

(* Parts of a sequence have no replies that the whole has not.             *)
LEMMA RepliesLaws ==
    ASSUME NEW m, NEW s \in Seq(WireByte), RepliesOf(m, s)
    PROVE  /\ s # <<>> => RepliesOf(m, Tail(s)) /\ (IsReply(Head(s)) => Head(s).call = m)
           /\ \A n \in 0 .. Len(s) : RepliesOf(m, SubSeq(s, 1, n)) /\ RepliesOf(m, SubSeq(s, n + 1, Len(s)))
           /\ \A r \in Seq(WireByte) : RepliesOf(m, r) => RepliesOf(m, s \o r)
           /\ RepliesOf(m, <<>>)
<1>1. ASSUME s # <<>> PROVE RepliesOf(m, Tail(s)) /\ (IsReply(Head(s)) => Head(s).call = m)
    <2>1. /\ Len(s) \in Nat \ {0} /\ Head(s) = s[1] /\ Len(Tail(s)) = Len(s) - 1
          /\ \A k \in 1 .. Len(s) - 1 : Tail(s)[k] = s[k + 1]
        BY <1>1
    <2> QED BY <2>1 DEF RepliesOf
<1>2. ASSUME NEW n \in 0 .. Len(s)
      PROVE  RepliesOf(m, SubSeq(s, 1, n)) /\ RepliesOf(m, SubSeq(s, n + 1, Len(s)))
    <2> DEFINE p == SubSeq(s, 1, n)
               q == SubSeq(s, n + 1, Len(s))
    <2>1. /\ Len(p) = n /\ Len(q) = Len(s) - n /\ Len(s) \in Nat
          /\ \A k \in 1 .. n : p[k] = s[k]
          /\ \A k \in 1 .. Len(s) - n : q[k] = s[n + k]
        OBVIOUS
    <2> HIDE DEF p, q
    <2>2. RepliesOf(m, p)
        BY <2>1 DEF RepliesOf
    <2>3. RepliesOf(m, q)
        <3>1. \A k \in 1 .. Len(s) - n : n + k \in 1 .. Len(s)
            BY <2>1
        <3> QED BY <2>1, <3>1 DEF RepliesOf
    <2> QED BY <2>2, <2>3 DEF p, q
<1>3. ASSUME NEW r \in Seq(WireByte), RepliesOf(m, r) PROVE RepliesOf(m, s \o r)
    <2> DEFINE q == s \o r
    <2>1. /\ Len(q) = Len(s) + Len(r) /\ Len(s) \in Nat /\ Len(r) \in Nat
          /\ \A k \in 1 .. Len(s) : q[k] = s[k]
          /\ \A k \in 1 .. Len(r) : q[Len(s) + k] = r[k]
        BY ConcatLaws
    <2> HIDE DEF q
    <2>2. ASSUME NEW k \in 1 .. Len(q), IsReply(q[k]) PROVE q[k].call = m
        <3>1. CASE k <= Len(s)
            BY <2>1, <2>2, <3>1 DEF RepliesOf
        <3>2. CASE k > Len(s)
            <4>1. k - Len(s) \in 1 .. Len(r) /\ k = Len(s) + (k - Len(s))
                BY <2>1, <3>2
            <4>2. q[k] = r[k - Len(s)]
                BY <2>1, <4>1
            <4> QED BY <1>3, <2>2, <4>1, <4>2 DEF RepliesOf
        <3> QED BY <2>1, <3>1, <3>2
    <2> QED BY <2>2 DEF RepliesOf, q
<1>4. RepliesOf(m, <<>>)
    BY DEF RepliesOf
<1> QED BY <1>1, <1>2, <1>3, <1>4

(* A call that is alone is the only operation there is.                    *)
LEMMA LoneLaws ==
    ASSUME TypeInv, Alone, NEW t \in Threads, NEW k \in 1 .. Len(stack[t]), stack[t][k].alone
    PROVE  /\ Lone(t, stack[t][k].call) /\ stack[t][1].op = "call" /\ k = 1
           /\ \/ Len(stack[t]) = 1 /\ Top(t) = stack[t][1]
              \/ Len(stack[t]) = 2 /\ Top(t).op = "callback"
           /\ OnlyCall(stack[t][k].call, toDevice, region, pending, line)
           /\ \A u \in Threads : stack[u] # <<>> => u = t
<1>1. /\ k = 1 /\ Len(stack[t]) <= 2 /\ stack[t][1].op = "call"
      /\ \A u \in Threads \ {t} : stack[u] = <<>>
      /\ OnlyCall(stack[t][k].call, toDevice, region, pending, line)
    BY DEF Alone
<1>2. stack[t] # <<>> /\ StackTypes
    BY OnStack DEF TypeInv, StackTypes
<1>3. Len(stack[t]) = 1 \/ Len(stack[t]) = 2
    <2>1. Len(stack[t]) \in Nat \ {0} /\ Len(stack[t]) <= 2
        BY <1>1, <1>2, TopLaws
    <2>2. \A m \in Nat \ {0} : m <= 2 => m = 1 \/ m = 2
        OBVIOUS
    <2> QED BY <2>1, <2>2
<1>4. CASE Len(stack[t]) = 1
    BY <1>1, <1>2, <1>4, TopLaws DEF Lone
<1>5. CASE Len(stack[t]) = 2
    <2>1. Follows(stack[t][1], Top(t))
        <3>1. Len(stack[t]) > 1 /\ Len(stack[t]) - 1 = 1
            BY <1>5
        <3>2. Follows(stack[t][Len(stack[t]) - 1], Top(t))
            BY <1>2, <3>1, TopLaws
        <3> QED BY <3>1, <3>2
    <2> QED BY <1>1, <1>2, <1>5, <2>1 DEF Follows, Lone
<1> QED BY <1>3, <1>4, <1>5

(* A call that is still alone after a step was alone before.               *)
LEMMA AloneStep ==
    ASSUME TypeInv, Alone, NEW t \in Threads, stack[t] # <<>>, NEW n, NEW new, Len(new) \in Nat,
           Stacked(t, n, new),
           \A k \in 1 .. Len(new) : new[k].alone =>
               /\ n + k \in 1 .. Len(stack[t]) /\ stack[t][n + k].alone
               /\ new[k].call = stack[t][n + k].call /\ new[k].op = stack[t][n + k].op,
           \/ n + Len(new) <= Len(stack[t])
           \/ n + Len(new) = Len(stack[t]) + 1 /\ Top(t).op # "callback",
           \A m : Lone(t, m) /\ OnlyCall(m, toDevice, region, pending, line) =>
               OnlyCall(m, toDevice', region', pending', line')
    PROVE  Alone'
<1>1. /\ n \in 0 .. Len(stack[t]) /\ Len(stack[t]) \in Nat /\ Len(stack'[t]) = n + Len(new)
      /\ \A k \in 1 .. n : Kept(stack[t][k], stack'[t][k])
      /\ \A k \in 1 .. Len(new) : stack'[t][n + k] = new[k]
      /\ stack \in Stacks
    BY OnStack DEF Stacked, TypeInv, StackTypes
<1>2. ASSUME NEW u \in Threads \ {t}, NEW k \in 1 .. Len(stack'[u]), stack'[u][k].alone PROVE FALSE
    <2>1. k \in 1 .. Len(stack[u]) /\ stack[u][k].alone
        BY <1>2 DEF Stacked, Kept
    <2> QED BY <2>1, LoneLaws
<1>3. ASSUME NEW k \in 1 .. Len(stack'[t]), stack'[t][k].alone
      PROVE  /\ k \in 1 .. Len(stack[t]) /\ stack[t][k].alone
             /\ stack'[t][k].call = stack[t][k].call /\ stack'[t][k].op = stack[t][k].op
    <2>1. CASE k <= n
        <3>1. k \in 1 .. n /\ k \in 1 .. Len(stack[t])
            BY <1>1, <2>1
        <3> QED BY <1>1, <1>3, <3>1 DEF Kept
    <2>2. CASE k > n
        <3>1. k - n \in 1 .. Len(new) /\ k = n + (k - n)
            <4>1. n \in Nat /\ k \in 1 .. n + Len(new)
                BY <1>1
            <4> QED BY <2>2, <4>1
        <3>2. stack'[t][k] = new[k - n]
            BY <1>1, <3>1
        <3> QED BY <1>3, <3>1, <3>2
    <2> QED BY <1>1, <2>1, <2>2
<1>4. ASSUME NEW k \in 1 .. Len(stack'[t]), stack'[t][k].alone
      PROVE  /\ k = 1 /\ Len(stack'[t]) <= 2 /\ stack'[t][k].op = "call"
             /\ \A u \in Threads \ {t} : stack'[u] = <<>>
             /\ OnlyCall(stack'[t][k].call, toDevice', region', pending', line')
    <2>1. /\ k \in 1 .. Len(stack[t]) /\ stack[t][k].alone
          /\ stack'[t][k].call = stack[t][k].call /\ stack'[t][k].op = stack[t][k].op
        BY <1>3, <1>4
    <2>2. /\ k = 1 /\ stack[t][k].op = "call" /\ Lone(t, stack[t][k].call)
          /\ Len(stack[t]) = 1 \/ (Len(stack[t]) = 2 /\ Top(t).op = "callback")
          /\ OnlyCall(stack[t][k].call, toDevice, region, pending, line)
          /\ \A u \in Threads \ {t} : stack[u] = <<>>
        BY <2>1, LoneLaws
    <2>3. Len(stack'[t]) <= 2
        <3>1. n + Len(new) <= 2
            <4>1. CASE Len(stack[t]) = 1
                <5>1. n + Len(new) <= 1 \/ n + Len(new) = 2
                    BY <4>1
                <5> QED BY <1>1, <5>1
            <4>2. CASE Len(stack[t]) = 2 /\ Top(t).op = "callback"
                BY <4>2
            <4> QED BY <2>2, <4>1, <4>2
        <3> QED BY <1>1, <3>1
    <2>4. \A u \in Threads \ {t} : stack'[u] = <<>>
        BY <1>1, <2>2, OtherStacks
    <2> QED BY <2>1, <2>2, <2>3, <2>4
<1> QED BY <1>2, <1>4 DEF Alone

(* The steps of a call that take no byte.                                  *)
LEMMA AloneGoesOn ==
    ASSUME TypeInv, Alone, NEW t \in Threads, stack[t] # <<>>,
           NEW pc, Stacked(t, Len(stack[t]) - 1, <<[Top(t) EXCEPT !.pc = pc]>>),
           \A m : Lone(t, m) /\ OnlyCall(m, toDevice, region, pending, line) =>
               OnlyCall(m, toDevice', region', pending', line')
    PROVE  Alone'
<1> DEFINE e == [Top(t) EXCEPT !.pc = pc]
           new == <<e>>
           n == Len(stack[t]) - 1
<1>1. Top(t) = stack[t][n + 1] /\ n \in Nat /\ n + 1 = Len(stack[t])
    BY TopLaws DEF TypeInv
<1>2. e.alone = Top(t).alone /\ e.call = Top(t).call /\ e.op = Top(t).op
    BY TopLaws DEF TypeInv, Op
<1>3. Stacked(t, n, new) /\ Len(new) = 1 /\ new[1] = e /\ Len(new) \in Nat
    OBVIOUS
<1> HIDE DEF n, new, e
<1>4. \A k \in 1 .. Len(new) : new[k].alone =>
               /\ n + k \in 1 .. Len(stack[t]) /\ stack[t][n + k].alone
               /\ new[k].call = stack[t][n + k].call /\ new[k].op = stack[t][n + k].op
    BY <1>1, <1>2, <1>3
<1>5. n + Len(new) <= Len(stack[t])
    BY <1>1, <1>3
<1> QED BY <1>3, <1>4, <1>5, AloneStep

(* An operation ends, or gives way to nothing.                             *)
LEMMA AloneReturns ==
    ASSUME TypeInv, Alone, NEW t \in Threads, stack[t] # <<>>, NEW n, Stacked(t, n, <<>>),
           \A m : Lone(t, m) /\ OnlyCall(m, toDevice, region, pending, line) =>
               OnlyCall(m, toDevice', region', pending', line')
    PROVE  Alone'
<1> DEFINE new == <<>>
<1>1. Len(new) = 0 /\ Len(new) \in Nat /\ Stacked(t, n, new)
    OBVIOUS
<1>2. n \in 0 .. Len(stack[t]) /\ Len(stack[t]) \in Nat
    BY OnStack DEF Stacked, TypeInv, StackTypes
<1> HIDE DEF new
<1>3. n + Len(new) <= Len(stack[t])
    BY <1>1, <1>2
<1> QED BY <1>1, <1>3, AloneStep

(* The bytes move: from the line to pending_, and into the reader.         *)
LEMMA AwaitByteReplies ==
    ASSUME TypeInv, NEW t \in Threads, AwaitByte(t), NEW m,
           OnlyCall(m, toDevice, region, pending, line)
    PROVE  OnlyCall(m, toDevice', region', pending', line')
<1>1. pending # <<>> /\ PushByte(Head(pending)) /\ pending' = Tail(pending) /\ UNCHANGED <<toDevice, line>>
    BY DEF AwaitByte, portVars
<1>2. pending \in Seq(WireByte) /\ region \in Seq(FrameBody) /\ region \in Seq(WireByte)
    BY DEF TypeInv, BufferTypes, WireByte
<1>3. RepliesOf(m, pending) /\ RepliesOf(m, region)
    BY DEF OnlyCall
<1>4. RepliesOf(m, Tail(pending)) /\ (IsReply(Head(pending)) => Head(pending).call = m)
    BY <1>1, <1>2, <1>3, RepliesLaws
<1>5. Head(pending) \in WireByte
    BY <1>1, <1>2, ComesOff
<1> DEFINE b == Head(pending)
<1> HIDE DEF b
<1>6. \/ region' = Append(region, b) \/ region' = region \/ region' = <<>>
    BY <1>1, <1>2, <1>5, PushLaws DEF b
<1>7. RepliesOf(m, Append(region, b))
    <2> DEFINE r == Append(region, b)
    <2>1. /\ Len(r) = Len(region) + 1 /\ Len(region) \in Nat /\ r[Len(region) + 1] = b
          /\ \A k \in 1 .. Len(region) : r[k] = region[k]
        BY <1>2
    <2> HIDE DEF r
    <2>2. ASSUME NEW k \in 1 .. Len(r), IsReply(r[k]) PROVE r[k].call = m
        <3>1. CASE k = Len(region) + 1
            BY <1>4, <2>1, <2>2, <3>1 DEF b
        <3>2. CASE k # Len(region) + 1
            <4>1. k \in 1 .. Len(region)
                BY <2>1, <3>2
            <4> QED BY <1>3, <2>1, <2>2, <4>1 DEF RepliesOf
        <3> QED BY <3>1, <3>2
    <2> QED BY <2>2 DEF RepliesOf, r
<1>8. RepliesOf(m, region')
    BY <1>3, <1>6, <1>7, <1>2, RepliesLaws
<1> QED BY <1>1, <1>4, <1>8 DEF OnlyCall

(* A read moves bytes of the line to pending_, a time-out empties that.    *)
LEMMA AwaitReplies ==
    ASSUME TypeInv, NEW t \in Threads, AwaitRead(t) \/ AwaitTimeout(t), NEW m,
           OnlyCall(m, toDevice, region, pending, line)
    PROVE  OnlyCall(m, toDevice', region', pending', line')
<1>1. line \in Seq(WireByte) /\ RepliesOf(m, line)
    BY DEF TypeInv, BufferTypes, OnlyCall
<1>2. CASE AwaitRead(t)
    <2>1. PICK n \in 1 .. Len(line) : line' = SubSeq(line, n + 1, Len(line)) /\ pending' = SubSeq(line, 1, n)
        BY <1>2 DEF AwaitRead, TakeFromLine
    <2>2. n \in 0 .. Len(line)
        OBVIOUS
    <2>3. RepliesOf(m, line') /\ RepliesOf(m, pending')
        BY <1>1, <2>1, <2>2, RepliesLaws
    <2> QED BY <1>2, <2>3 DEF AwaitRead, OnlyCall, readerVars
<1>3. CASE AwaitTimeout(t)
    <2>1. RepliesOf(m, pending')
        BY <1>1, <1>3, RepliesLaws DEF AwaitTimeout
    <2> QED BY <1>3, <2>1 DEF AwaitTimeout, OnlyCall, readerVars, portVars
<1> QED BY <1>2, <1>3

(* A command that begins is alone on a quiet link, or not alone.           *)
LEMMA AloneBegins ==
    ASSUME TypeInv, NEW t \in Threads, BeginCall(t) \/ BeginPoll(t)
    PROVE  Alone'
<1>1. CASE BeginPoll(t)
    <2> DEFINE e == Poll(IF readFirst THEN <<>> ELSE pending)
               new == <<e>>
               n == Len(stack[t])
    <2>1. Stacked(t, n, new) /\ \A u \in Threads : \A k \in 1 .. Len(stack[u]) : ~stack'[u][k].alone
        BY <1>1, BeginPollStack
    <2>2. Len(new) = 1 /\ new[1] = e /\ e.alone = FALSE /\ n \in Nat
        BY OnStack DEF Poll, TypeInv, StackTypes
    <2>3. Len(stack'[t]) = n + 1 /\ stack'[t][n + 1] = e
        <3> HIDE DEF e, new, n
        <3> QED BY <2>1, <2>2 DEF Stacked
    <2> HIDE DEF e, new
    <2>4. \A k \in 1 .. Len(stack'[t]) : ~stack'[t][k].alone
        BY <2>1, <2>2, <2>3
    <2>5. \A u \in Threads \ {t} : Len(stack'[u]) = Len(stack[u])
        BY <2>1 DEF Stacked
    <2> QED BY <2>1, <2>4, <2>5 DEF Alone
<1>2. CASE BeginCall(t)
    <2> DEFINE alone == Quiet /\ \A u \in Threads : stack[u] = <<>>
               e == Call(calls + 1, alone)
               new == <<e>>
               n == Len(stack[t])
    <2>1. Stacked(t, n, new) /\ \A u \in Threads : \A k \in 1 .. Len(stack[u]) : ~stack'[u][k].alone
        BY <1>2, BeginCallStack
    <2>2. Len(new) = 1 /\ new[1] = e /\ e.alone = alone /\ e.op = "call" /\ n \in Nat
        BY OnStack DEF Call, TypeInv, StackTypes
    <2>3. Len(stack'[t]) = n + 1 /\ stack'[t][n + 1] = e
        <3> HIDE DEF e, new, n
        <3> QED BY <2>1, <2>2 DEF Stacked
    <2>4. UNCHANGED <<toDevice, region, pending, line>>
        BY <1>2 DEF BeginCall, readerVars, portVars
    <2> HIDE DEF e, new
    <2>5. CASE ~alone
        <3>1. \A k \in 1 .. Len(stack'[t]) : ~stack'[t][k].alone
            <4>1. \A k \in 1 .. n : ~stack'[t][k].alone
                BY <2>1
            <4>2. ~stack'[t][n + 1].alone
                BY <2>2, <2>3, <2>5
            <4> HIDE DEF n
            <4> QED BY <2>2, <2>3, <4>1, <4>2
        <3>2. \A u \in Threads \ {t} : Len(stack'[u]) = Len(stack[u])
            BY <2>1 DEF Stacked
        <3> QED BY <2>1, <3>1, <3>2 DEF Alone
    <2>6. CASE alone
        <3>1. toDevice = <<>> /\ \A s \in {region, pending, line} : \A k \in 1 .. Len(s) : ~IsReply(s[k])
            BY <2>6 DEF Quiet
        <3>2. \A m : OnlyCall(m, toDevice', region', pending', line')
            BY <2>4, <3>1 DEF OnlyCall, RepliesOf
        <3>3. n = 0 /\ \A u \in Threads \ {t} : stack'[u] = <<>>
            <4>1. \A u \in Threads : stack[u] = <<>>
                BY <2>6
            <4> HIDE DEF alone, n
            <4>2. n = 0
                BY <4>1 DEF n
            <4> QED BY <2>1, <4>1, <4>2, OtherStacks DEF TypeInv, StackTypes
        <3>4. \A k \in 1 .. Len(stack'[t]) : k = 1 /\ stack'[t][k].op = "call" /\ Len(stack'[t]) <= 2
            <4> HIDE DEF alone, n
            <4> QED BY <2>2, <2>3, <3>3
        <3>5. \A u \in Threads \ {t} : Len(stack'[u]) = 0
            BY <3>3
        <3> HIDE DEF alone, n
        <3> QED BY <3>2, <3>3, <3>4, <3>5 DEF Alone
    <2> QED BY <2>5, <2>6
<1> QED BY <1>1, <1>2

(* The device's answer is for the call that is alone.                      *)
LEMMA TransmitReplies ==
    ASSUME TypeInv, DeviceReplies \/ DevicePushes, NEW m,
           OnlyCall(m, toDevice, region, pending, line)
    PROVE  OnlyCall(m, toDevice', region', pending', line')
<1>1. PICK b \in FrameBody :
          /\ line' = line \o <<b, Delimiter>>
          /\ DeviceReplies => b.call = Head(toDevice)
          /\ DevicePushes => ~IsReply(b)
    BY TransmitTypes
<1>2. UNCHANGED <<region, pending>>
    BY DEF DeviceReplies, DevicePushes, readerVars
<1>4. /\ \A k \in 1 .. Len(toDevice') : toDevice'[k] = m
      /\ IsReply(b) => b.call = m
    <2>1. CASE DeviceReplies
        <3>1. toDevice # <<>> /\ toDevice' = Tail(toDevice) /\ toDevice \in Seq(Nat)
            BY <2>1 DEF DeviceReplies, TypeInv, BufferTypes
        <3>2. /\ Head(toDevice) = toDevice[1] /\ Len(toDevice) \in Nat \ {0}
              /\ Len(toDevice') = Len(toDevice) - 1
              /\ \A k \in 1 .. Len(toDevice) - 1 : toDevice'[k] = toDevice[k + 1]
            BY <3>1
        <3> QED BY <1>1, <2>1, <3>2 DEF OnlyCall
    <2>2. CASE DevicePushes
        BY <1>1, <2>2 DEF DevicePushes, OnlyCall
    <2> QED BY <2>1, <2>2
<1>5. RepliesOf(m, line')
    <2> DEFINE q == <<b, Delimiter>>
    <2>1. q \in Seq(WireByte) /\ Len(q) = 2 /\ q[1] = b /\ q[2] = Delimiter
        BY DEF WireByte
    <2> HIDE DEF q
    <2>2. RepliesOf(m, q)
        <3>1. ~IsReply(Delimiter)
            BY DEF IsReply
        <3>2. \A k \in 1 .. 2 : k = 1 \/ k = 2
            OBVIOUS
        <3> QED BY <1>4, <2>1, <3>1, <3>2 DEF RepliesOf
    <2>3. line \in Seq(WireByte) /\ RepliesOf(m, line)
        BY DEF TypeInv, BufferTypes, OnlyCall
    <2> QED BY <1>1, <2>1, <2>2, <2>3, RepliesLaws DEF q
<1> QED BY <1>2, <1>4, <1>5 DEF OnlyCall

(* Every step keeps what holds of a call that is alone.                    *)
LEMMA AloneInductive ==
    ASSUME TypeInv, Alone, [Next]_vars
    PROVE  Alone'
<1>1. ASSUME UNCHANGED stack,
             \A m : OnlyCall(m, toDevice, region, pending, line) =>
                 OnlyCall(m, toDevice', region', pending', line')
      PROVE  Alone'
    BY <1>1 DEF Alone
<1>2. ASSUME stack' = [u \in Threads |-> <<>>] PROVE Alone'
    BY <1>2, EmptiedStacks DEF Alone
<1>3. ASSUME NEW t \in Threads, BeginCall(t) \/ BeginPoll(t) PROVE Alone'
    BY <1>3, AloneBegins
<1>4. ASSUME NEW t \in Threads, Register(t) PROVE Alone'
    <2>1. UNCHANGED <<stack, toDevice, region, pending, line>>
        BY <1>4 DEF Register, readerVars, portVars
    <2> QED BY <1>1, <2>1
<1>5. ASSUME NEW t \in Threads, SendCommand(t) PROVE Alone'
    <2>1. stack[t] # <<>> /\ Top(t).op = "call" /\ Stacked(t, Len(stack[t]) - 1, <<[Top(t) EXCEPT !.pc = "await"]>>)
        BY <1>5, GoOnStack
    <2>2. toDevice' = Append(toDevice, Top(t).call) /\ UNCHANGED <<region, pending, line>>
        BY <1>5 DEF SendCommand, readerVars
    <2>3. ASSUME NEW m, Lone(t, m), OnlyCall(m, toDevice, region, pending, line)
          PROVE  OnlyCall(m, toDevice', region', pending', line')
        <3>1. 1 \in 1 .. Len(stack[t])
            BY <2>1, TopLaws DEF TypeInv
        <3>2. Top(t) = stack[t][1] /\ Top(t).call = m
            BY <2>1, <2>3, <3>1, LoneLaws DEF Lone
        <3>3. toDevice \in Seq(Nat)
            BY DEF TypeInv, BufferTypes
        <3>4. /\ Len(toDevice') = Len(toDevice) + 1 /\ Len(toDevice) \in Nat
              /\ toDevice'[Len(toDevice) + 1] = m
              /\ \A k \in 1 .. Len(toDevice) : toDevice'[k] = toDevice[k]
            BY <2>2, <3>2, <3>3
        <3>5. \A k \in 1 .. Len(toDevice') : toDevice'[k] = m
            <4>1. \A k \in 1 .. Len(toDevice) : toDevice[k] = m
                BY <2>3 DEF OnlyCall
            <4> QED BY <3>4, <4>1
        <3> QED BY <2>2, <2>3, <3>5 DEF OnlyCall
    <2> QED BY <2>1, <2>3, AloneGoesOn
<1>6. ASSUME NEW t \in Threads, EnterAwait(t) \/ BeginRead(t) PROVE Alone'
    <2>1. /\ stack[t] # <<>>
          /\ \E pc \in {"loop", "read"} : Stacked(t, Len(stack[t]) - 1, <<[Top(t) EXCEPT !.pc = pc]>>)
        BY <1>6, GoOnStack
    <2>2. UNCHANGED <<toDevice, region, pending, line>>
        BY <1>6 DEF EnterAwait, BeginRead, readerVars, portVars
    <2> QED BY <2>1, <2>2, AloneGoesOn
<1>7. ASSUME NEW t \in Threads, AwaitRead(t) PROVE Alone'
    <2>1. stack[t] # <<>> /\ Stacked(t, Len(stack[t]) - 1, <<[Top(t) EXCEPT !.pc = "loop"]>>)
        BY <1>7, GoOnStack
    <2> QED BY <1>7, <2>1, AwaitReplies, AloneGoesOn
<1>8. ASSUME NEW t \in Threads, AwaitTimeout(t) PROVE Alone'
    <2>1. stack[t] # <<>> /\ Stacked(t, Len(stack[t]) - 1, <<>>)
        BY <1>8, GoOnStack
    <2> QED BY <1>8, <2>1, AwaitReplies, AloneReturns
<1>9. ASSUME NEW t \in Threads, AwaitByte(t) PROVE Alone'
    <2>1. \A m : OnlyCall(m, toDevice, region, pending, line) =>
                 OnlyCall(m, toDevice', region', pending', line')
        BY <1>9, AwaitByteReplies
    <2>2. /\ stack[t] # <<>> /\ Top(t).op = "call"
          /\ \/ UNCHANGED stack
             \/ Stacked(t, Len(stack[t]) - 1, <<>>)
             \/ Stacked(t, Len(stack[t]), <<Callback>>)
        BY <1>9, AwaitByteStack
    <2>3. CASE Stacked(t, Len(stack[t]), <<Callback>>)
        <3> DEFINE new == <<Callback>>
                   n == Len(stack[t])
        <3>1. Len(new) = 1 /\ new[1] = Callback /\ Callback.alone = FALSE /\ Stacked(t, n, new)
              /\ Len(new) \in Nat /\ n + Len(new) = Len(stack[t]) + 1 /\ Top(t).op # "callback"
            BY <2>2, <2>3, OnStack DEF Callback, TypeInv, StackTypes
        <3> HIDE DEF new, n
        <3>2. \A k \in 1 .. Len(new) : ~new[k].alone
            BY <3>1
        <3> QED BY <2>1, <2>2, <3>1, <3>2, AloneStep
    <2> QED BY <1>1, <2>1, <2>2, <2>3, AloneReturns
<1>10. ASSUME NEW t \in Threads, stack[t] # <<>>, Top(t).op = "poll" PROVE \A m : ~Lone(t, m)
    <2>1. SUFFICES ASSUME NEW m, Lone(t, m) PROVE FALSE
        OBVIOUS
    <2>2. 1 \in 1 .. Len(stack[t]) /\ stack[t][1].alone
        BY <1>10, <2>1, TopLaws DEF TypeInv, Lone
    <2>3. stack[t][1].op = "call" /\ (Top(t) = stack[t][1] \/ Top(t).op = "callback")
        BY <2>2, LoneLaws
    <2> QED BY <1>10, <2>3
<1>11. ASSUME NEW t \in Threads, stack[t] # <<>>, Top(t).op = "poll"
       PROVE  /\ Top(t).alone = FALSE /\ Len(stack[t]) - 1 \in Nat
              /\ \A chunk : [Top(t) EXCEPT !.chunk = chunk].alone = FALSE
              /\ \A pc, chunk : [Top(t) EXCEPT !.pc = pc, !.chunk = chunk].alone = FALSE
    <2>1. Top(t) = stack[t][Len(stack[t])] /\ Len(stack[t]) \in 1 .. Len(stack[t]) /\ Top(t) \in Op
        BY <1>11, TopLaws DEF TypeInv
    <2>2. ~Top(t).alone
        BY <1>10, <1>11, <2>1, LoneLaws
    <2> QED BY <2>1, <2>2 DEF Op
<1>12. ASSUME NEW t \in Threads, PollRead(t) PROVE Alone'
    <2>1. stack[t] # <<>> /\ Top(t).op = "poll"
        BY <1>12, PollReadStack
    <2>2. PICK e : e.alone = FALSE /\ Stacked(t, Len(stack[t]) - 1, <<e>>)
        BY <1>11, <1>12, <2>1, PollReadStack
    <2> DEFINE new == <<e>>
               n == Len(stack[t]) - 1
    <2>3. Len(new) = 1 /\ new[1].alone = FALSE /\ Len(new) \in Nat /\ n + Len(new) = Len(stack[t])
        BY <1>11, <2>1, <2>2
    <2>4. Stacked(t, n, new) /\ n + Len(new) <= Len(stack[t])
        BY <1>11, <2>1, <2>2, <2>3
    <2> HIDE DEF new, n
    <2>5. \A k \in 1 .. Len(new) : ~new[k].alone
        BY <2>3
    <2> QED BY <1>10, <2>1, <2>3, <2>4, <2>5, AloneStep
<1>13. ASSUME NEW t \in Threads, PollByte(t) PROVE Alone'
    <2>1. stack[t] # <<>> /\ Top(t).op = "poll"
        BY <1>13, PollByteStack
    <2>2. PICK e : /\ e.alone = FALSE
                   /\ \/ Stacked(t, Len(stack[t]) - 1, <<e>>)
                      \/ Stacked(t, Len(stack[t]) - 1, <<e, Callback>>)
        BY <1>11, <1>13, <2>1, PollByteStack
    <2> DEFINE n == Len(stack[t]) - 1
    <2>3. n \in Nat /\ n + 1 = Len(stack[t]) /\ n + 2 = Len(stack[t]) + 1
        BY <1>11, <2>1
    <2>4. CASE Stacked(t, n, <<e>>)
        <3> DEFINE new == <<e>>
        <3>0. Len(new) = 1 /\ new[1] = e /\ Len(new) \in Nat
            OBVIOUS
        <3>1. Len(new) = 1 /\ new[1].alone = FALSE /\ Len(new) \in Nat /\ Stacked(t, n, new)
            BY <2>2, <2>4, <3>0
        <3> HIDE DEF new, n
        <3>2. (\A k \in 1 .. Len(new) : ~new[k].alone) /\ n + Len(new) <= Len(stack[t])
            BY <2>3, <3>1
        <3> QED BY <1>10, <2>1, <3>1, <3>2, AloneStep
    <2>5. CASE Stacked(t, n, <<e, Callback>>)
        <3> DEFINE new == <<e, Callback>>
        <3>0. Len(new) = 2 /\ new[1] = e /\ new[2] = Callback /\ Callback.alone = FALSE /\ Len(new) \in Nat
            BY DEF Callback
        <3>1. /\ Len(new) = 2 /\ new[1].alone = FALSE /\ new[2].alone = FALSE
              /\ Len(new) \in Nat /\ Stacked(t, n, new)
            <4>1. Stacked(t, n, new)
                BY <2>5
            <4> HIDE DEF new
            <4> QED BY <2>2, <3>0, <4>1
        <3> HIDE DEF new, n
        <3>2. ASSUME NEW k \in 1 .. Len(new) PROVE ~new[k].alone
            <4>1. k = 1 \/ k = 2
                BY <3>1
            <4> QED BY <3>1, <4>1
        <3>3. n + Len(new) = Len(stack[t]) + 1 /\ Top(t).op # "callback"
            BY <2>1, <2>3, <3>1
        <3> QED BY <1>10, <2>1, <3>1, <3>2, <3>3, AloneStep
    <2> QED BY <2>2, <2>4, <2>5
<1>14. ASSUME NEW t \in Threads, PollReturns(t) \/ CallbackReturns(t) PROVE Alone'
    <2>1. stack[t] # <<>> /\ Stacked(t, Len(stack[t]) - 1, <<>>)
        BY <1>14, ReturnStack
    <2>2. UNCHANGED <<toDevice, region, pending, line>>
        BY <1>14 DEF PollReturns, CallbackReturns, readerVars, portVars
    <2> QED BY <2>1, <2>2, AloneReturns
<1>15. ASSUME NEW t \in Threads, CallbackRaises(t) PROVE Alone'
    <2>1. /\ stack[t] # <<>> /\ UNCHANGED <<toDevice, region, pending, line>>
        BY <1>15 DEF CallbackRaises, In, readerVars, portVars
    <2>2. CASE \E n : Stacked(t, n, <<>>)
        BY <2>1, <2>2, AloneReturns
    <2> QED BY <1>2, <1>15, <2>2, CallbackRaisesStack
<1>16. ASSUME NEW t \in Threads, PortRaises(t) PROVE Alone'
    <2>1. stack[t] # <<>> /\ UNCHANGED <<toDevice, region, pending, line>>
        BY <1>16, ReturnStack DEF PortRaises, readerVars, portVars
    <2>2. CASE Stacked(t, Len(stack[t]) - 1, <<>>)
        BY <2>1, <2>2, AloneReturns
    <2> QED BY <1>2, <1>16, <2>2, ReturnStack
<1>17. CASE DeviceReplies \/ DevicePushes
    <2>1. UNCHANGED stack
        BY <1>17, TransmitTypes
    <2> QED BY <1>1, <1>17, <2>1, TransmitReplies
<1>18. CASE UNCHANGED vars
    BY <1>1, <1>18 DEF vars, readerVars, portVars
<1>19. ASSUME NEW t \in Threads, Continue(t) PROVE Alone'
    BY <1>19, <1>5, <1>6, <1>7, <1>8, <1>9, <1>12, <1>13, <1>14 DEF Continue
<1> QED BY <1>3, <1>4, <1>15, <1>16, <1>17, <1>18, <1>19 DEF Next

(* A command that begins on a quiet link and is alone until it ends        *)
(* returns its own reply or a TransportError.                              *)
THEOREM LoneCallsMatch == Spec => []LoneCallMatches
<1>1. Init => Alone /\ LoneCallMatches
    <2>1. ASSUME Init PROVE \A t \in Threads : stack[t] = <<>> /\ Len(stack[t]) = 0
        BY <2>1 DEF Init
    <2>2. Init => answered = {}
        BY DEF Init
    <2> QED BY <2>1, <2>2 DEF Alone, LoneCallMatches
<1>2. TypeInv /\ Alone /\ LoneCallMatches /\ [Next]_vars => LoneCallMatches'
    <2> SUFFICES ASSUME TypeInv, Alone, LoneCallMatches, [Next]_vars PROVE LoneCallMatches'
        OBVIOUS
    <2>1. ASSUME UNCHANGED answered PROVE LoneCallMatches'
        BY <2>1 DEF LoneCallMatches
    <2>2. ASSUME NEW t \in Threads, AwaitTimeout(t) PROVE LoneCallMatches'
        <3>1. answered' = answered \cup {[call |-> Top(t).call, alone |-> Top(t).alone,
                                          status |-> "TransportError", by |-> NoCall, nr |-> 0]}
            BY <2>2 DEF AwaitTimeout, Answer, NoFrame, NoCall
        <3> QED BY <3>1 DEF LoneCallMatches
    <2>3. ASSUME NEW t \in Threads, AwaitByte(t) PROVE LoneCallMatches'
        <3>1. CASE UNCHANGED answered
            BY <2>1, <3>1
        <3>2. CASE Completed("Reply") /\ Answer(t, "Ok", frame')
            <4>1. answered' = answered \cup {[call |-> Top(t).call, alone |-> Top(t).alone,
                                              status |-> "Ok", by |-> frame'.call,
                                              nr |-> frame'.nr]}
                BY <3>2 DEF Answer
            <4>2. ASSUME Top(t).alone PROVE frame'.call = Top(t).call
                <5>1. stack[t] # <<>> /\ pending # <<>> /\ PushByte(Head(pending))
                    BY <2>3 DEF AwaitByte, In
                <5>2. Head(pending) \in WireByte /\ region \in Seq(FrameBody)
                    BY <5>1, ComesOff DEF TypeInv, BufferTypes
                <5>3. Len(region) = 1 /\ frame' = region[1] /\ frame'.type = "Reply"
                    BY <3>2, <5>1, <5>2, PushLaws DEF Completed
                <5>4. region[1] \in FrameBody
                    <6>1. 1 \in 1 .. Len(region)
                        BY <5>3
                    <6> QED BY <5>2, <6>1
                <5>5. IsReply(region[1])
                    BY <5>3, <5>4, PyDeviceAssumption DEF IsReply
                <5>6. Top(t) = stack[t][Len(stack[t])] /\ Len(stack[t]) \in 1 .. Len(stack[t])
                    BY <5>1, TopLaws DEF TypeInv
                <5>7. OnlyCall(Top(t).call, toDevice, region, pending, line)
                    BY <4>2, <5>6, LoneLaws
                <5> QED BY <5>3, <5>5, <5>7 DEF OnlyCall, RepliesOf
            <4> QED BY <4>1, <4>2 DEF LoneCallMatches
        <3> QED BY <2>3, <3>1, <3>2 DEF AwaitByte
    <2>4. ASSUME NEW t \in Threads, Continue(t) PROVE LoneCallMatches'
        <3>1. CASE SendCommand(t) \/ EnterAwait(t) \/ BeginRead(t) \/ AwaitRead(t) \/ PollRead(t)
            BY <2>1, <3>1 DEF SendCommand, EnterAwait, BeginRead, AwaitRead, PollRead, historyVars
        <3>2. CASE PollByte(t) \/ PollReturns(t) \/ CallbackReturns(t)
            BY <2>1, <3>2 DEF PollByte, PollReturns, CallbackReturns, historyVars
        <3> QED BY <2>2, <2>3, <2>4, <3>1, <3>2 DEF Continue
    <2>5. ASSUME NEW t \in Threads, BeginCall(t) \/ BeginPoll(t) \/ Register(t) PROVE LoneCallMatches'
        BY <2>1, <2>5 DEF BeginCall, BeginPoll, Register, historyVars
    <2>6. ASSUME NEW t \in Threads, CallbackRaises(t) \/ PortRaises(t) PROVE LoneCallMatches'
        BY <2>1, <2>6 DEF CallbackRaises, PortRaises
    <2>7. CASE DeviceReplies \/ DevicePushes
        BY <2>1, <2>7 DEF DeviceReplies, DevicePushes, historyVars
    <2>8. CASE UNCHANGED vars
        BY <2>1, <2>8 DEF vars, historyVars
    <2> QED BY <2>4, <2>5, <2>6, <2>7, <2>8 DEF Next
<1>3. TypeInv /\ Alone /\ [Next]_vars => Alone'
    BY AloneInductive
<1> QED BY <1>1, <1>2, <1>3, TypeInvInductive, PTL DEF Spec

-----------------------------------------------------------------------------
(* Where bytes are held: the shared buffers, and the chunks of polls.      *)
Region == <<None, 0>>
\* No thread has one of these three names.
Pending == <<None, 1>>
Line == <<None, 2>>
Holders == {Region, Pending, Line} \cup Threads \X Nat

\* What a poll has yet to push; before its read its chunk is a copy.
Live(stacks, t, k) ==
    IF k \in 1 .. Len(stacks[t]) /\ stacks[t][k].pc = "loop" THEN stacks[t][k].chunk ELSE <<>>

\* What every holder has, of these buffers and stacks.
HeldIn(r, p, l, stacks) ==
    [h \in Holders |->
        IF h = Region THEN r ELSE IF h = Pending THEN p ELSE IF h = Line THEN l
        ELSE Live(stacks, h[1], h[2])]

\* What every holder has now.
Held == HeldIn(region, pending, line, stack)

\* Every frame is in one place, and is seen once.
Once ==
    /\ \A h \in Holders : Distinct(Held[h]) /\ InTransit(Held[h]) \subseteq (1 .. sent) \ ToSet(seen)
    /\ \A h, g \in Holders : h # g => InTransit(Held[h]) \cap InTransit(Held[g]) = {}
    /\ ToSet(seen) \subseteq 1 .. sent
    /\ \A m, n \in 1 .. Len(seen) : seen[m] = seen[n] => m = n

(* The holders are different, and what they hold are bytes.                *)
LEMMA HeldInLaws ==
    ASSUME NEW r \in Seq(WireByte), NEW p \in Seq(WireByte), NEW l \in Seq(WireByte), NEW st \in Stacks
    PROVE  LET H == HeldIn(r, p, l, st)
           IN  /\ Region \in Holders /\ Pending \in Holders /\ Line \in Holders
               /\ Region # Pending /\ Region # Line /\ Pending # Line
               /\ \A t \in Threads, k \in Nat : /\ <<t, k>> \in Holders /\ H[<<t, k>>] = Live(st, t, k)
                                                /\ <<t, k>> \notin {Region, Pending, Line}
               /\ \A h \in Holders \ {Region, Pending, Line} : \E t \in Threads, k \in Nat : h = <<t, k>>
               /\ H[Region] = r /\ H[Pending] = p /\ H[Line] = l
               /\ \A h \in Holders : H[h] \in Seq(WireByte)
<1> DEFINE H == HeldIn(r, p, l, st)
<1>1. Region # Pending /\ Region # Line /\ Pending # Line
    BY DEF Region, Pending, Line
<1>2. \A t \in Threads, k \in Nat : <<t, k>> \notin {Region, Pending, Line} /\ <<t, k>>[1] = t /\ <<t, k>>[2] = k
    BY PyDeviceAssumption DEF Region, Pending, Line
<1>3. Region \in Holders /\ Pending \in Holders /\ Line \in Holders /\ \A t \in Threads, k \in Nat : <<t, k>> \in Holders
    BY DEF Holders
<1>4. \A h \in Holders \ {Region, Pending, Line} : \E t \in Threads, k \in Nat : h = <<t, k>>
    BY DEF Holders
<1>5. H[Region] = r /\ H[Pending] = p /\ H[Line] = l
    BY <1>1, <1>3 DEF HeldIn
<1>6. ASSUME NEW t \in Threads, NEW k \in Nat PROVE H[<<t, k>>] = Live(st, t, k)
    <2> DEFINE h == <<t, k>>
    <2>1. h \in Holders /\ h \notin {Region, Pending, Line} /\ h[1] = t /\ h[2] = k
        BY <1>2, <1>3
    <2> HIDE DEF h
    <2>2. H[h] = Live(st, h[1], h[2])
        BY <2>1 DEF HeldIn
    <2> QED BY <2>1, <2>2 DEF h
<1>7. ASSUME NEW t \in Threads, NEW k \in Nat PROVE Live(st, t, k) \in Seq(WireByte)
    <2>1. k \in 1 .. Len(st[t]) => st[t][k] \in Op
        <3>1. st[t] \in Seq(Op)
            BY DEF Stacks
        <3> QED BY <3>1
    <2> QED BY <2>1 DEF Live, Op
<1> HIDE DEF H
<1>8. ASSUME NEW h \in Holders PROVE H[h] \in Seq(WireByte)
    <2>1. CASE h \in {Region, Pending, Line}
        BY <1>5, <2>1
    <2>2. CASE h \notin {Region, Pending, Line}
        <3>1. PICK t \in Threads, k \in Nat : h = <<t, k>>
            BY <1>4, <2>2
        <3>2. H[<<t, k>>] = Live(st, t, k) /\ Live(st, t, k) \in Seq(WireByte)
            BY <1>6, <1>7
        <3> QED BY <3>1, <3>2
    <2> QED BY <2>1, <2>2
<1> QED BY <1>1, <1>2, <1>3, <1>4, <1>5, <1>6, <1>8 DEF H

(* They are so before and after a step.                                    *)
LEMMA HeldLaws ==
    /\ Region \in Holders /\ Pending \in Holders /\ Line \in Holders
    /\ Region # Pending /\ Region # Line /\ Pending # Line
    /\ \A t \in Threads, k \in Nat : <<t, k>> \in Holders /\ <<t, k>> \notin {Region, Pending, Line}
    /\ \A h \in Holders \ {Region, Pending, Line} : \E t \in Threads, k \in Nat : h = <<t, k>>
    /\ TypeInv =>
          /\ \A t \in Threads, k \in Nat : Held[<<t, k>>] = Live(stack, t, k)
          /\ Held[Region] = region /\ Held[Pending] = pending /\ Held[Line] = line
          /\ \A h \in Holders : Held[h] \in Seq(WireByte)
    /\ TypeInv' =>
          /\ \A t \in Threads, k \in Nat : Held'[<<t, k>>] = Live(stack', t, k)
          /\ Held'[Region] = region' /\ Held'[Pending] = pending' /\ Held'[Line] = line'
          /\ \A h \in Holders : Held'[h] \in Seq(WireByte)
<1>1. <<>> \in Seq(WireByte) /\ [t \in Threads |-> <<>>] \in Stacks
    BY DEF Stacks
<1>2. TypeInv => region \in Seq(WireByte) /\ pending \in Seq(WireByte) /\ line \in Seq(WireByte) /\ stack \in Stacks
    BY DEF TypeInv, BufferTypes, StackTypes, WireByte
<1>3. TypeInv' => region' \in Seq(WireByte) /\ pending' \in Seq(WireByte) /\ line' \in Seq(WireByte) /\ stack' \in Stacks
    BY DEF TypeInv, BufferTypes, StackTypes, WireByte
<1> DEFINE none == <<>>
           idle == [t \in Threads |-> <<>>]
<1> HIDE DEF none, idle
<1>4. none \in Seq(WireByte) /\ idle \in Stacks
    BY <1>1 DEF none, idle
<1>5. /\ Region \in Holders /\ Pending \in Holders /\ Line \in Holders
      /\ Region # Pending /\ Region # Line /\ Pending # Line
      /\ \A t \in Threads, k \in Nat : <<t, k>> \in Holders /\ <<t, k>> \notin {Region, Pending, Line}
      /\ \A h \in Holders \ {Region, Pending, Line} : \E t \in Threads, k \in Nat : h = <<t, k>>
    BY <1>4, HeldInLaws
<1>6. ASSUME TypeInv
      PROVE  /\ \A t \in Threads, k \in Nat : Held[<<t, k>>] = Live(stack, t, k)
             /\ Held[Region] = region /\ Held[Pending] = pending /\ Held[Line] = line
             /\ \A h \in Holders : Held[h] \in Seq(WireByte)
    BY <1>2, <1>6, HeldInLaws DEF Held
<1>7. ASSUME TypeInv'
      PROVE  /\ \A t \in Threads, k \in Nat : Held'[<<t, k>>] = Live(stack', t, k)
             /\ Held'[Region] = region' /\ Held'[Pending] = pending' /\ Held'[Line] = line'
             /\ \A h \in Holders : Held'[h] \in Seq(WireByte)
    BY <1>3, <1>7, HeldInLaws DEF Held
<1> QED BY <1>5, <1>6, <1>7

(* Chunks when n elements of a stack stay, and those of new come on top.   *)
LEMMA LiveMoves ==
    ASSUME TypeInv, NEW t \in Threads, NEW n, NEW new, Len(new) \in Nat, Stacked(t, n, new), NEW u \in Threads,
           NEW k \in Nat
    PROVE  /\ u # t \/ k <= n => Live(stack', u, k) = Live(stack, u, k)
           /\ u = t /\ k > n + Len(new) => Live(stack', u, k) = <<>>
           /\ \A j \in 1 .. Len(new) : u = t /\ k = n + j =>
                 Live(stack', u, k) = IF new[j].pc = "loop" THEN new[j].chunk ELSE <<>>
<1>1. /\ n \in 0 .. Len(stack[t]) /\ Len(stack[t]) \in Nat /\ Len(stack'[t]) = n + Len(new)
      /\ \A j \in 1 .. n : Kept(stack[t][j], stack'[t][j])
      /\ \A j \in 1 .. Len(new) : stack'[t][n + j] = new[j]
      /\ \A v \in Threads \ {t} : /\ Len(stack'[v]) = Len(stack[v])
                                  /\ \A j \in 1 .. Len(stack[v]) : Kept(stack[v][j], stack'[v][j])
    BY OnStack DEF Stacked, TypeInv, StackTypes
<1>2. CASE u # t
    BY <1>1, <1>2 DEF Live, Kept
<1>3. CASE u = t /\ k <= n
    <2>1. CASE k = 0
        <3>1. k \notin 1 .. Len(stack[u]) /\ k \notin 1 .. Len(stack'[u])
            BY <2>1
        <3> QED BY <1>1, <1>3, <3>1 DEF Live
    <2>2. CASE k # 0
        <3>1. k \in 1 .. n /\ k \in 1 .. Len(stack[t]) /\ k \in 1 .. Len(stack'[t])
            BY <1>1, <1>3, <2>2
        <3> QED BY <1>1, <1>3, <3>1 DEF Live, Kept
    <2> QED BY <2>1, <2>2
<1>4. CASE u = t /\ k > n + Len(new)
    <2>1. k \notin 1 .. Len(stack'[t])
        BY <1>1, <1>4
    <2> QED BY <1>1, <1>4, <2>1 DEF Live
<1>5. ASSUME NEW j \in 1 .. Len(new), u = t, k = n + j
      PROVE  Live(stack', u, k) = IF new[j].pc = "loop" THEN new[j].chunk ELSE <<>>
    <2>1. k \in 1 .. Len(stack'[t]) /\ stack'[t][k] = new[j]
        BY <1>1, <1>5
    <2> QED BY <1>5, <2>1 DEF Live
<1>6. \A j \in 1 .. Len(new) : u = t /\ k = n + j => ~(u # t \/ k <= n) /\ ~(k > n + Len(new))
    BY <1>1
<1>7. k > n + Len(new) => ~(k <= n)
    BY <1>1
<1> QED BY <1>1, <1>2, <1>3, <1>4, <1>5, <1>6, <1>7

(* Frames stay in one place each when bytes move within a group of holders. *)
LEMMA OnceMoved ==
    ASSUME Once, seen \in Seq(Nat), NEW G \in SUBSET Holders,
           \A h \in Holders \ G : Held'[h] = Held[h] \/ Held'[h] = <<>>,
           \A h \in G : Distinct(Held'[h]),
           \A h, g \in G : h # g => InTransit(Held'[h]) \cap InTransit(Held'[g]) = {},
           \A h \in G : \A m \in InTransit(Held'[h]) : \E g \in G : m \in InTransit(Held[g]),
           UNCHANGED sent,
           \/ UNCHANGED seen
           \/ \E g \in G : \E m \in InTransit(Held[g]) :
                 seen' = Append(seen, m) /\ \A h \in G : m \notin InTransit(Held'[h])
    PROVE  Once'
<1>1. Distinct(<<>>) /\ InTransit(<<>>) = {}
    <2>1. Len(<<>>) = 0
        OBVIOUS
    <2> QED BY <2>1, InTransitLaws DEF Distinct
<1>2. \A h \in Holders : Distinct(Held'[h])
    BY <1>1 DEF Once
<1>3. \A h \in Holders \ G : InTransit(Held'[h]) \subseteq InTransit(Held[h])
    BY <1>1
<1>4. ASSUME NEW h \in Holders, NEW g \in Holders, h # g, NEW m \in InTransit(Held'[h]), m \in InTransit(Held'[g])
      PROVE  FALSE
    <2>1. CASE h \in G /\ g \in G
        BY <1>4, <2>1
    <2>2. CASE h \notin G /\ g \notin G
        BY <1>3, <1>4, <2>2 DEF Once
    <2>3. CASE h \in G /\ g \notin G
        BY <1>3, <1>4, <2>3 DEF Once
    <2>4. CASE h \notin G /\ g \in G
        BY <1>3, <1>4, <2>4 DEF Once
    <2> QED BY <2>1, <2>2, <2>3, <2>4
<1>5. \A h \in Holders : \A m \in InTransit(Held'[h]) : \E g \in Holders : m \in InTransit(Held[g])
    BY <1>3
<1>6. \A h \in Holders : InTransit(Held'[h]) \subseteq 1 .. sent
    BY <1>5 DEF Once
<1>7. CASE UNCHANGED seen
    <2>1. \A h \in Holders : InTransit(Held'[h]) \cap ToSet(seen) = {}
        BY <1>5 DEF Once
    <2> QED BY <1>2, <1>4, <1>6, <1>7, <2>1 DEF Once
<1>8. ASSUME NEW g \in G, NEW m \in InTransit(Held[g]), seen' = Append(seen, m),
             \A h \in G : m \notin InTransit(Held'[h])
      PROVE  Once'
    <2>1. m \in 1 .. sent /\ m \notin ToSet(seen)
        BY <1>8 DEF Once
    <2>2. /\ Len(seen') = Len(seen) + 1 /\ Len(seen) \in Nat /\ seen'[Len(seen) + 1] = m
          /\ \A k \in 1 .. Len(seen) : seen'[k] = seen[k]
        BY <1>8
    <2>3. \A k : k \in 1 .. Len(seen') <=> k \in 1 .. Len(seen) \/ k = Len(seen) + 1
        BY <2>2
    <2>4. ToSet(seen') = ToSet(seen) \cup {m}
        <3>1. {seen'[k] : k \in 1 .. Len(seen)} = {seen[k] : k \in 1 .. Len(seen)}
            BY <2>2
        <3>2. {seen'[k] : k \in 1 .. Len(seen')} = {seen'[k] : k \in 1 .. Len(seen)} \cup {m}
            BY <2>2, <2>3
        <3>3. DOMAIN seen = 1 .. Len(seen) /\ DOMAIN seen' = 1 .. Len(seen')
            BY <1>8
        <3> QED BY <3>1, <3>2, <3>3 DEF ToSet
    <2>5. \A h \in Holders : m \notin InTransit(Held'[h])
        <3>1. \A h \in Holders \ G : m \notin InTransit(Held[h])
            BY <1>8 DEF Once
        <3> QED BY <1>3, <1>8, <3>1
    <2>6. \A h \in Holders : InTransit(Held'[h]) \cap ToSet(seen') = {}
        BY <1>5, <2>4, <2>5 DEF Once
    <2>7. ASSUME NEW i \in 1 .. Len(seen'), NEW j \in 1 .. Len(seen'), seen'[i] = seen'[j] PROVE i = j
        <3>1. \A k \in 1 .. Len(seen) : seen[k] # m
            BY <2>1 DEF ToSet
        <3> QED BY <2>2, <2>3, <2>7, <3>1 DEF Once
    <2>8. ToSet(seen') \subseteq 1 .. sent
        BY <2>1, <2>4 DEF Once
    <2> QED BY <1>2, <1>4, <1>6, <2>6, <2>7, <2>8 DEF Once
<1> QED BY <1>7, <1>8

(* A byte goes from a holder to the reader.                                *)
LEMMA OncePushed ==
    ASSUME TypeInv, TypeInv', Once, NEW x \in Holders \ {Region},
           Held[x] # <<>>, PushByte(Head(Held[x])), Held'[x] = Tail(Held[x]),
           \A h \in Holders \ {x, Region} : Held'[h] = Held[h] \/ Held'[h] = <<>>,
           UNCHANGED sent
    PROVE  Once'
<1> DEFINE b == Head(Held[x])
           q == Tail(Held[x])
           G == {Region, x}
<1>1. /\ Held[x] \in Seq(WireByte) /\ Region \in Holders /\ Held[Region] = region /\ Held'[Region] = region'
      /\ region \in Seq(FrameBody) /\ region \in Seq(WireByte) /\ seen \in Seq(Nat)
    BY HeldLaws DEF TypeInv, BufferTypes, WireByte
<1>2. b \in WireByte /\ q \in Seq(WireByte) /\ Held[x] = <<b>> \o q
    BY <1>1, ComesOff
<1>3. PushByte(b) /\ Held'[x] = q /\ G \in SUBSET Holders
    BY <1>1
<1> HIDE DEF b, q
<1> DEFINE one == <<b>>
<1>0. /\ one \in Seq(WireByte) /\ Distinct(one) /\ Held[x] = one \o q
      /\ \A s \in Seq(FrameBody) : Append(s, b) = s \o one
    <2>1. one \in Seq(WireByte) /\ Distinct(one) /\ Held[x] = one \o q
        BY <1>2, SingleByte
    <2>2. \A s \in Seq(FrameBody) : Append(s, b) = s \o one
        BY <1>2
    <2> QED BY <2>1, <2>2
<1> HIDE DEF one
<1>4. /\ InTransit(Held[x]) = InTransit(one) \cup InTransit(q)
      /\ Distinct(q) /\ InTransit(one) \cap InTransit(q) = {}
    <2>1. Distinct(Held[x])
        BY DEF Once
    <2>2. Distinct(one \o q) /\ InTransit(Held[x]) = InTransit(one \o q)
        BY <1>0, <2>1
    <2> QED BY <1>0, <1>2, <2>2, Concatenated
<1>5. Distinct(region) /\ InTransit(region) \cap InTransit(Held[x]) = {}
    BY <1>1 DEF Once
<1>6. SUFFICES /\ Distinct(region') /\ InTransit(region') \cap InTransit(q) = {}
               /\ InTransit(region') \subseteq InTransit(region) \cup InTransit(one)
               /\ \/ UNCHANGED seen
                  \/ \E m \in InTransit(region) :
                        seen' = Append(seen, m) /\ m \notin InTransit(region') /\ m \notin InTransit(q)
    <2>1. ASSUME /\ Distinct(region') /\ InTransit(region') \cap InTransit(q) = {}
                 /\ InTransit(region') \subseteq InTransit(region) \cup InTransit(one)
                 /\ \/ UNCHANGED seen
                    \/ \E m \in InTransit(region) :
                          seen' = Append(seen, m) /\ m \notin InTransit(region') /\ m \notin InTransit(q)
          PROVE  Once'
        <3>1. \A h \in G : Distinct(Held'[h])
            BY <1>1, <1>3, <1>4, <2>1
        <3>2. \A h, g \in G : h # g => InTransit(Held'[h]) \cap InTransit(Held'[g]) = {}
            BY <1>1, <1>3, <2>1
        <3>3. \A h \in G : \A m \in InTransit(Held'[h]) : \E g \in G : m \in InTransit(Held[g])
            BY <1>1, <1>3, <1>4, <2>1
        <3>4. \/ UNCHANGED seen
              \/ \E g \in G : \E m \in InTransit(Held[g]) :
                    seen' = Append(seen, m) /\ \A h \in G : m \notin InTransit(Held'[h])
            BY <1>1, <1>3, <2>1
        <3>5. \A h \in Holders \ G : Held'[h] = Held[h] \/ Held'[h] = <<>>
            OBVIOUS
        <3> HIDE DEF G
        <3> QED BY <1>1, <1>3, <3>1, <3>2, <3>3, <3>4, <3>5, OnceMoved
    <2> QED BY <2>1
<1>7. CASE IsBody(b)
    <2>1. UNCHANGED seen /\ (region' = Append(region, b) \/ region' = region)
        BY <1>1, <1>2, <1>3, <1>7, PushLaws
    <2>2. CASE region' = region
        BY <1>4, <1>5, <2>1, <2>2
    <2>3. CASE region' = Append(region, b)
        <3>1. region' = region \o one
            BY <1>0, <1>1, <2>3
        <3>2. /\ InTransit(region') = InTransit(region) \cup InTransit(one)
              /\ Distinct(region')
            BY <1>0, <1>1, <1>4, <1>5, <3>1, Concatenated
        <3> QED BY <1>4, <1>5, <2>1, <3>2
    <2> QED BY <2>1, <2>2, <2>3
<1>8. CASE ~IsBody(b)
    <2>1. region' = <<>> /\ Distinct(region') /\ InTransit(region') = {}
        BY <1>1, <1>2, <1>3, <1>8, PushLaws, SingleByte
    <2>2. UNCHANGED seen \/ (Len(region) = 1 /\ seen' = Append(seen, region[1].nr))
        BY <1>1, <1>2, <1>3, PushLaws
    <2>3. ASSUME Len(region) = 1 PROVE region[1].nr \in InTransit(region)
        <3>1. 1 \in 1 .. Len(region)
            BY <2>3
        <3>2. region[1] \in FrameBody
            BY <1>1, <3>1
        <3>3. IsBody(region[1])
            BY <3>2, PyDeviceAssumption DEF IsBody
        <3> QED BY <3>1, <3>3, InTransitLaws
    <2> QED BY <1>4, <1>5, <2>1, <2>2, <2>3
<1> QED BY <1>7, <1>8

(* Nothing moves, though something may be dropped.                         *)
LEMMA OnceStill ==
    ASSUME TypeInv, Once, \A h \in Holders : Held'[h] = Held[h] \/ Held'[h] = <<>>,
           UNCHANGED <<seen, sent>>
    PROVE  Once'
<1>1. seen \in Seq(Nat)
    BY DEF TypeInv, BufferTypes
<1> DEFINE G == {}
<1>2. G \in SUBSET Holders /\ \A h : h \notin G
    OBVIOUS
<1> HIDE DEF G
<1> QED BY <1>1, <1>2, OnceMoved

\* No element of new has a chunk to push, but for the one at position x.
OneChunk(n, new, x) ==
    \A j \in 1 .. Len(new) : n + j # x /\ new[j].pc = "loop" => new[j].chunk = <<>>

(* On the stacks, all but one chunk stay what they were or are dropped.    *)
LEMMA HeldStill ==
    ASSUME TypeInv, TypeInv', NEW t \in Threads, NEW n, NEW new, Len(new) \in Nat, Stacked(t, n, new),
           NEW x, OneChunk(n, new, x),
           NEW u \in Threads, NEW k \in Nat, u # t \/ k # x
    PROVE  LET h == <<u, k>> IN Held'[h] = Held[h] \/ Held'[h] = <<>>
<1>1. n \in Nat
    BY OnStack DEF Stacked, TypeInv, StackTypes
<1>2. (u # t \/ k <= n) \/ (u = t /\ k > n + Len(new)) \/ \E j \in 1 .. Len(new) : u = t /\ k = n + j
    <2>1. CASE k > n /\ k <= n + Len(new)
        <3>1. k - n \in 1 .. Len(new) /\ k = n + (k - n)
            BY <1>1, <2>1
        <3> QED BY <3>1
    <2> QED BY <1>1, <2>1
<1>3. Live(stack', u, k) = Live(stack, u, k) \/ Live(stack', u, k) = <<>>
    BY <1>2, LiveMoves DEF OneChunk
<1>4. Held[<<u, k>>] = Live(stack, u, k)
    BY HeldLaws
<1>5. Held'[<<u, k>>] = Live(stack', u, k)
    BY HeldLaws
<1> QED BY <1>3, <1>4, <1>5

(* A step that pushes and moves no byte, though it may drop some.          *)
LEMMA OnceStackStep ==
    ASSUME TypeInv, TypeInv', Once, NEW t \in Threads, NEW n, NEW new, Len(new) \in Nat, Stacked(t, n, new),
           \A j \in 1 .. Len(new) : new[j].pc = "loop" => new[j].chunk = <<>>,
           UNCHANGED <<region, line, seen, sent>>, pending' = pending \/ pending' = <<>>
    PROVE  Once'
<1>1. ASSUME NEW h \in Holders PROVE Held'[h] = Held[h] \/ Held'[h] = <<>>
    <2>1. CASE h \in {Region, Pending, Line}
        BY <2>1, HeldLaws
    <2>2. CASE h \notin {Region, Pending, Line}
        <3>1. PICK u \in Threads, k \in Nat : h = <<u, k>>
            BY <2>2, HeldLaws
        <3>2. k # -1 /\ OneChunk(n, new, -1)
            BY DEF OneChunk
        <3> QED BY <3>1, <3>2, HeldStill
    <2> QED BY <2>1, <2>2
<1> QED BY <1>1, OnceStill

(* So does the end of the process.                                         *)
LEMMA OnceEmptied ==
    ASSUME TypeInv, TypeInv', Once, stack' = [u \in Threads |-> <<>>], UNCHANGED <<region, pending, line, seen, sent>>
    PROVE  Once'
<1>1. ASSUME NEW h \in Holders PROVE Held'[h] = Held[h] \/ Held'[h] = <<>>
    <2>1. CASE h \in {Region, Pending, Line}
        BY <2>1, HeldLaws
    <2>2. CASE h \notin {Region, Pending, Line}
        <3>1. PICK u \in Threads, k \in Nat : h = <<u, k>>
            BY <2>2, HeldLaws
        <3>2. Len(stack'[u]) = 0
            BY EmptiedStacks
        <3>3. Live(stack', u, k) = <<>>
            BY <3>2 DEF Live
        <3> QED BY <3>1, <3>3, HeldLaws
    <2> QED BY <2>1, <2>2
<1> QED BY <1>1, OnceStill

(* A read takes the first bytes of the line, and poll's read pending_ too. *)
LEMMA OnceTaken ==
    ASSUME TypeInv, TypeInv', Once, NEW x \in Holders \ {Line},
           NEW rest, \/ rest = <<>>
                     \/ rest = pending /\ x # Pending /\ pending' = <<>>,
           NEW n \in 0 .. Len(line), line' = SubSeq(line, n + 1, Len(line)),
           Held'[x] = rest \o SubSeq(line, 1, n),
           \A h \in Holders \ {x, Line} : Held'[h] = Held[h] \/ Held'[h] = <<>>,
           UNCHANGED <<seen, sent>>
    PROVE  Once'
<1> DEFINE p == SubSeq(line, 1, n)
           q == SubSeq(line, n + 1, Len(line))
           G == {x, Pending, Line}
<1>1. /\ pending \in Seq(WireByte) /\ line \in Seq(WireByte) /\ seen \in Seq(Nat)
      /\ Pending \in Holders /\ Line \in Holders /\ Pending # Line /\ Held[Line] = line /\ Held[Pending] = pending
      /\ Held'[Line] = line' /\ Held'[Pending] = pending'
    BY HeldLaws DEF TypeInv, BufferTypes
<1>2. p \in Seq(WireByte) /\ q \in Seq(WireByte) /\ line = p \o q
    BY <1>1, ComesOff
<1>3. Held'[x] = rest \o p /\ line' = q /\ G \in SUBSET Holders
    BY <1>1
<1> HIDE DEF p, q
<1>4. /\ InTransit(line) = InTransit(p) \cup InTransit(q) /\ Distinct(p) /\ Distinct(q)
      /\ InTransit(p) \cap InTransit(q) = {}
    <2>1. Distinct(line)
        BY <1>1 DEF Once
    <2> QED BY <1>2, <2>1, Concatenated
<1>5. Distinct(pending) /\ InTransit(pending) \cap InTransit(line) = {}
    BY <1>1 DEF Once
<1>6. Distinct(<<>>) /\ InTransit(<<>>) = {} /\ <<>> \in Seq(WireByte)
    <2>1. Len(<<>>) = 0 /\ <<>> \in Seq(WireByte)
        OBVIOUS
    <2> QED BY <2>1, InTransitLaws DEF Distinct
<1>7. rest \in Seq(WireByte) /\ Distinct(rest) /\ InTransit(rest) \subseteq InTransit(pending)
    BY <1>1, <1>5, <1>6
<1>8. Distinct(rest \o p) /\ InTransit(rest \o p) = InTransit(rest) \cup InTransit(p)
    BY <1>2, <1>4, <1>5, <1>7, Concatenated
<1>9. x # Pending => \/ Held'[Pending] = <<>>
                     \/ rest = <<>> /\ Held'[Pending] = pending
    BY <1>1
<1>10. \A h \in G : Distinct(Held'[h])
    BY <1>1, <1>3, <1>4, <1>5, <1>6, <1>8, <1>9
<1>11. \A h \in G : \A m \in InTransit(Held'[h]) : \E g \in G : m \in InTransit(Held[g])
    BY <1>1, <1>3, <1>4, <1>6, <1>7, <1>8, <1>9
<1>12. \A h, g \in G : h # g => InTransit(Held'[h]) \cap InTransit(Held'[g]) = {}
    <2>1. InTransit(Held'[x]) \cap InTransit(Held'[Line]) = {}
        BY <1>1, <1>3, <1>4, <1>5, <1>7, <1>8
    <2>2. ASSUME x # Pending
          PROVE  /\ InTransit(Held'[x]) \cap InTransit(Held'[Pending]) = {}
                 /\ InTransit(Held'[Line]) \cap InTransit(Held'[Pending]) = {}
        BY <1>1, <1>3, <1>4, <1>5, <1>6, <1>8, <1>9, <2>2
    <2> QED BY <2>1, <2>2
<1>13. \A h \in Holders \ G : Held'[h] = Held[h] \/ Held'[h] = <<>>
    OBVIOUS
<1> HIDE DEF G
<1> QED BY <1>1, <1>3, <1>10, <1>11, <1>12, <1>13, OnceMoved

(* A frame that is sent has a new number.                                  *)
LEMMA OnceSent ==
    ASSUME TypeInv, Once, DeviceReplies \/ DevicePushes
    PROVE  Once'
<1>1. TypeInv' /\ UNCHANGED stack /\ sent' = sent + 1 /\ sent \in Nat
    BY TransmitTypes DEF TypeInv, BufferTypes
<1>2. PICK b \in FrameBody : b.nr = sent + 1 /\ line' = line \o <<b, Delimiter>>
    BY TransmitTypes
<1> DEFINE two == <<b, Delimiter>>
<1>3. two \in Seq(WireByte) /\ Len(two) = 2 /\ two[1] = b /\ two[2] = Delimiter
    BY DEF WireByte
<1>4. IsBody(b) /\ ~IsBody(Delimiter)
    BY PyDeviceAssumption DEF IsBody
<1> HIDE DEF two
<1>5. Distinct(two) /\ InTransit(two) = {sent + 1}
    <2>1. \A k \in 1 .. Len(two) : IsBody(two[k]) => k = 1
        BY <1>3, <1>4
    <2>2. Distinct(two)
        BY <2>1 DEF Distinct
    <2>3. 1 \in 1 .. Len(two) /\ IsBody(two[1]) /\ two[1].nr = sent + 1
        BY <1>2, <1>3, <1>4
    <2> QED BY <2>1, <2>2, <2>3, InTransitLaws
<1>6. line \in Seq(WireByte) /\ Line \in Holders /\ Held[Line] = line /\ Held'[Line] = line \o two
    BY <1>1, <1>2, HeldLaws DEF TypeInv, BufferTypes, two
<1>7. UNCHANGED <<region, pending, seen>>
    BY DEF DeviceReplies, DevicePushes, readerVars, historyVars
<1>8. ASSUME NEW h \in Holders \ {Line} PROVE Held'[h] = Held[h]
    <2>1. CASE h \in {Region, Pending}
        BY <1>1, <1>7, <2>1, HeldLaws
    <2>2. CASE h \notin {Region, Pending}
        <3>1. PICK t \in Threads, k \in Nat : h = <<t, k>>
            BY <2>2, HeldLaws
        <3>2. Held[<<t, k>>] = Live(stack, t, k) /\ Held'[<<t, k>>] = Live(stack', t, k)
            BY <1>1, HeldLaws
        <3> QED BY <1>1, <3>1, <3>2
    <2> QED BY <2>1, <2>2
<1>9. InTransit(line) \subseteq 1 .. sent /\ Distinct(line)
    BY <1>6 DEF Once
<1>10. sent + 1 \notin 1 .. sent /\ 1 .. sent' = (1 .. sent) \cup {sent + 1}
    BY <1>1
<1>11. Distinct(line \o two) /\ InTransit(line \o two) = InTransit(line) \cup {sent + 1}
    <2>1. InTransit(line) \cap InTransit(two) = {}
        BY <1>5, <1>9, <1>10
    <2> QED BY <1>3, <1>5, <1>6, <1>9, <2>1, Concatenated
<1>12. \A h \in Holders : sent + 1 \notin InTransit(Held[h])
    BY <1>10 DEF Once
<1>13. sent + 1 \notin ToSet(seen)
    BY <1>10 DEF Once
<1>14. \A h \in Holders : Distinct(Held'[h]) /\ InTransit(Held'[h]) \subseteq (1 .. sent') \ ToSet(seen')
    <2>1. Distinct(Held'[Line]) /\ InTransit(Held'[Line]) \subseteq (1 .. sent') \ ToSet(seen')
        BY <1>6, <1>7, <1>10, <1>11, <1>13 DEF Once
    <2>2. ASSUME NEW h \in Holders \ {Line}
          PROVE  Distinct(Held'[h]) /\ InTransit(Held'[h]) \subseteq (1 .. sent') \ ToSet(seen')
        BY <1>7, <1>8, <1>10 DEF Once
    <2> QED BY <2>1, <2>2
<1>15. ASSUME NEW h \in Holders, NEW g \in Holders, h # g PROVE InTransit(Held'[h]) \cap InTransit(Held'[g]) = {}
    <2>1. \A f \in Holders : InTransit(Held'[f]) = InTransit(Held[f]) \/ (f = Line /\ InTransit(Held'[f]) = InTransit(Held[f]) \cup {sent + 1})
        BY <1>6, <1>8, <1>11
    <2>2. InTransit(Held[h]) \cap InTransit(Held[g]) = {}
        BY <1>15 DEF Once
    <2>3. sent + 1 \notin InTransit(Held[h]) /\ sent + 1 \notin InTransit(Held[g])
        BY <1>12
    <2> QED BY <1>15, <2>1, <2>2, <2>3
<1>16. ToSet(seen') \subseteq 1 .. sent' /\ \A m, n \in 1 .. Len(seen') : seen'[m] = seen'[n] => m = n
    BY <1>7, <1>10 DEF Once
<1> QED BY <1>14, <1>15, <1>16 DEF Once

-----------------------------------------------------------------------------
(* The copy of pending_ that a poll begins with.                           *)
ReadPoll(e) == e.op = "poll" /\ e.pc = "read"

\* If poll reads first it has copied nothing; if it copies pending_ first,
\* the copy is still true while threads take turns.
Copies ==
    \A t \in Threads : \A k \in 1 .. Len(stack[t]) : ReadPoll(stack[t][k]) =>
        IF readFirst THEN stack[t][k].chunk = <<>>
        ELSE ~overlapped => stack[t][k].chunk = pending

(* An operation that waits for the port is the top of its stack.           *)
LEMMA ReadOnTop ==
    ASSUME TypeInv, NEW t \in Threads, NEW k \in 1 .. Len(stack[t]), stack[t][k].pc # "loop",
           stack[t][k].op # "callback"
    PROVE  k = Len(stack[t])
<1>1. Len(stack[t]) \in Nat /\ Proper(stack[t])
    BY OnStack DEF TypeInv, StackTypes
<1>2. SUFFICES ASSUME k # Len(stack[t]) PROVE FALSE
    OBVIOUS
<1>3. k \in 1 .. Len(stack[t]) - 1
    BY <1>1, <1>2
<1>4. Follows(stack[t][k], stack[t][k + 1])
    BY <1>1, <1>3 DEF Proper
<1> QED BY <1>4 DEF Follows

(* While one thread at a time uses the Device, pending_ does not change    *)
(* under a poll that has copied it.                                        *)
LEMMA CopiesKept ==
    ASSUME TypeInv, Copies, OneThread, NEW t \in Threads, NEW n, NEW new, Len(new) \in Nat,
           Stacked(t, n, new), stack[t] # <<>>, UNCHANGED <<readFirst, overlapped>>,
           \A j \in 1 .. Len(new) : ~ReadPoll(new[j]),
           UNCHANGED pending \/ n < Len(stack[t]) \/ Top(t).op # "poll"
    PROVE  Copies'
<1>1. /\ n \in 0 .. Len(stack[t]) /\ Len(stack[t]) \in Nat /\ Len(stack'[t]) = n + Len(new)
      /\ \A k \in 1 .. n : Kept(stack[t][k], stack'[t][k])
      /\ \A k \in 1 .. Len(new) : stack'[t][n + k] = new[k]
      /\ \A u \in Threads \ {t} : /\ Len(stack'[u]) = Len(stack[u])
                                  /\ \A k \in 1 .. Len(stack[u]) : Kept(stack[u][k], stack'[u][k])
    BY OnStack DEF Stacked, TypeInv, StackTypes
<1>2. SUFFICES ASSUME NEW u \in Threads, NEW k \in 1 .. Len(stack'[u]), ReadPoll(stack'[u][k])
               PROVE  IF readFirst THEN stack'[u][k].chunk = <<>>
                      ELSE ~overlapped => stack'[u][k].chunk = pending'
    BY DEF Copies
<1>3. (u = t => k <= n) /\ k \in 1 .. Len(stack[u]) /\ Kept(stack[u][k], stack'[u][k])
    <2>1. CASE u # t
        BY <1>1, <1>2, <2>1
    <2>2. CASE u = t /\ k <= n
        <3>1. k \in 1 .. n /\ k \in 1 .. Len(stack[t])
            BY <1>1, <1>2, <2>2
        <3> QED BY <1>1, <2>2, <3>1
    <2>3. CASE u = t /\ k > n
        <3>1. k - n \in 1 .. Len(new) /\ k = n + (k - n)
            <4>1. n \in Nat /\ k \in 1 .. n + Len(new)
                BY <1>1, <1>2, <2>3
            <4> QED BY <2>3, <4>1
        <3> QED BY <1>1, <1>2, <2>3, <3>1
    <2>4. k <= n \/ k > n
        BY <1>1
    <2> QED BY <2>1, <2>2, <2>3, <2>4
<1>4. ReadPoll(stack[u][k]) /\ stack'[u][k].chunk = stack[u][k].chunk
    BY <1>2, <1>3 DEF Kept, ReadPoll
<1>5. IF readFirst THEN stack[u][k].chunk = <<>> ELSE ~overlapped => stack[u][k].chunk = pending
    BY <1>3, <1>4 DEF Copies
<1>6. ASSUME ~overlapped PROVE UNCHANGED pending
    <2>1. SUFFICES ASSUME n < Len(stack[t]) \/ Top(t).op # "poll" PROVE FALSE
        OBVIOUS
    <2>2. stack[u] # <<>>
        BY <1>3
    <2>3. u = t
        BY <1>6, <2>2 DEF OneThread
    <2>4. k = Len(stack[u])
        BY <1>3, <1>4, ReadOnTop DEF ReadPoll
    <2>5. Top(t).op = "poll"
        BY <1>4, <2>2, <2>3, <2>4, TopLaws DEF ReadPoll, TypeInv
    <2>6. k <= n
        BY <1>3, <2>3
    <2> QED BY <1>1, <2>1, <2>3, <2>4, <2>5, <2>6
<1> QED BY <1>4, <1>5, <1>6

(* A poll that begins copies pending_.                                     *)
LEMMA CopiesBegin ==
    ASSUME TypeInv, Copies, NEW t \in Threads, BeginCall(t) \/ BeginPoll(t)
    PROVE  Copies'
<1>1. UNCHANGED <<readFirst, pending>> /\ (overlapped => overlapped')
    BY DEF BeginCall, BeginPoll, Disturb
<1>2. PICK e : /\ Stacked(t, Len(stack[t]), <<e>>)
               /\ ReadPoll(e) => e.chunk = IF readFirst THEN <<>> ELSE pending
    <2>1. CASE BeginCall(t)
        <3>1. \A m, alone : ~ReadPoll(Call(m, alone))
            BY DEF ReadPoll, Call
        <3> QED BY <2>1, <3>1, BeginCallStack
    <2>2. CASE BeginPoll(t)
        <3>1. \A rest : Poll(rest).chunk = rest
            BY DEF Poll
        <3> QED BY <2>2, <3>1, BeginPollStack
    <2> QED BY <2>1, <2>2
<1> DEFINE new == <<e>>
           n == Len(stack[t])
<1>3. Stacked(t, n, new) /\ Len(new) = 1 /\ new[1] = e /\ n \in Nat
    BY <1>2, OnStack DEF TypeInv, StackTypes
<1>4. n = Len(stack[t])
    OBVIOUS
<1> HIDE DEF new, n
<1>5. SUFFICES ASSUME NEW u \in Threads, NEW k \in 1 .. Len(stack'[u]), ReadPoll(stack'[u][k])
               PROVE  IF readFirst THEN stack'[u][k].chunk = <<>>
                      ELSE ~overlapped' => stack'[u][k].chunk = pending
    BY <1>1 DEF Copies
<1>6. CASE u = t /\ k = n + 1
    <2>1. stack'[t][n + 1] = e
        BY <1>3 DEF Stacked
    <2> QED BY <1>2, <1>5, <1>6, <2>1
<1>7. CASE ~(u = t /\ k = n + 1)
    <2>1. k \in 1 .. Len(stack[u]) /\ Kept(stack[u][k], stack'[u][k])
        <3>1. CASE u # t
            BY <1>5, <1>3, <3>1 DEF Stacked
        <3>2. CASE u = t
            <4>1. k \in 1 .. n + 1
                BY <1>3, <1>5, <3>2 DEF Stacked
            <4>2. k \in 1 .. n
                BY <1>3, <1>7, <3>2, <4>1
            <4> QED BY <1>3, <1>4, <3>2, <4>2 DEF Stacked
        <3> QED BY <3>1, <3>2
    <2> QED BY <1>1, <1>5, <2>1 DEF Kept, ReadPoll, Copies
<1> QED BY <1>6, <1>7

-----------------------------------------------------------------------------
(* poll's read takes what is pending, not a stale copy of it.              *)
LEMMA RestIsPending ==
    ASSUME TypeInv, Copies, readFirst \/ ~overlapped, NEW t \in Threads, PollRead(t)
    PROVE  Rest(t) = pending
<1>1. stack[t] # <<>> /\ ReadPoll(Top(t))
    BY PollReadStack DEF ReadPoll
<1>2. Top(t) = stack[t][Len(stack[t])] /\ Len(stack[t]) \in 1 .. Len(stack[t])
    BY <1>1, TopLaws DEF TypeInv
<1> QED BY <1>1, <1>2 DEF Copies, Rest

(* The steps that push a byte.                                             *)
LEMMA OnceByte ==
    ASSUME TypeInv, TypeInv', Once, NEW t \in Threads, AwaitByte(t) \/ PollByte(t)
    PROVE  Once'
<1>1. CASE AwaitByte(t)
    <2>1. /\ pending # <<>> /\ PushByte(Head(pending)) /\ pending' = Tail(pending)
          /\ UNCHANGED <<line, sent>>
        BY <1>1 DEF AwaitByte, portVars
    <2>2. ASSUME NEW u \in Threads, NEW k \in Nat
          PROVE  LET h == <<u, k>> IN Held'[h] = Held[h] \/ Held'[h] = <<>>
        <3>1. CASE UNCHANGED stack
            BY <3>1, HeldLaws
        <3>2. CASE Stacked(t, Len(stack[t]) - 1, <<>>)
            <4> DEFINE new == <<>>
            <4>1. Len(new) \in Nat /\ OneChunk(Len(stack[t]) - 1, new, -1)
                BY DEF OneChunk
            <4>2. Stacked(t, Len(stack[t]) - 1, new) /\ k # -1
                BY <3>2
            <4> HIDE DEF new
            <4> QED BY <4>1, <4>2, HeldStill
        <3>3. CASE Stacked(t, Len(stack[t]), <<Callback>>)
            <4> DEFINE new == <<Callback>>
            <4>1. Len(new) = 1 /\ new[1].pc = "python"
                BY DEF Callback
            <4>2. Stacked(t, Len(stack[t]), new) /\ k # -1
                BY <3>3
            <4> HIDE DEF new
            <4>3. Len(new) \in Nat /\ OneChunk(Len(stack[t]), new, -1)
                BY <4>1 DEF OneChunk
            <4> QED BY <4>2, <4>3, HeldStill
        <3> QED BY <1>1, <3>1, <3>2, <3>3, AwaitByteStack
    <2>3. ASSUME NEW h \in Holders \ {Pending, Region} PROVE Held'[h] = Held[h] \/ Held'[h] = <<>>
        <3>1. CASE h = Line
            BY <2>1, <3>1, HeldLaws
        <3>2. CASE h # Line
            <4>1. PICK u \in Threads, k \in Nat : h = <<u, k>>
                BY <3>2, HeldLaws
            <4> QED BY <2>2, <4>1
        <3> QED BY <3>1, <3>2
    <2>4. /\ Pending \in Holders \ {Region} /\ Held[Pending] = pending /\ Held'[Pending] = Tail(Held[Pending])
        BY <2>1, HeldLaws
    <2> QED BY <2>1, <2>3, <2>4, OncePushed
<1>2. CASE PollByte(t)
    <2> DEFINE m == Len(stack[t])
               n == m - 1
               e == [Top(t) EXCEPT !.chunk = Tail(@)]
               x == <<t, m>>
    <2>1. /\ stack[t] # <<>> /\ Top(t).pc = "loop" /\ Top(t).chunk # <<>>
          /\ Stacked(t, n, <<e>>) \/ Stacked(t, n, <<e, Callback>>)
        BY <1>2, PollByteStack
    <2>2. m \in Nat \ {0} /\ n \in Nat /\ n + 1 = m /\ Top(t) = stack[t][m] /\ Top(t) \in Op
        BY <2>1, TopLaws DEF TypeInv
    <2>3. e.pc = "loop" /\ e.chunk = Tail(Top(t).chunk)
        BY <2>1, <2>2 DEF Op
    <2>4. PushByte(Head(Top(t).chunk)) /\ UNCHANGED <<pending, line, sent>>
        BY <1>2 DEF PollByte, portVars
    <2> HIDE DEF e, n, m
    <2>5. PICK new : /\ Stacked(t, n, new) /\ Len(new) \in Nat \ {0} /\ new[1] = e
                     /\ \A j \in 1 .. Len(new) : j # 1 => new[j].pc # "loop"
        <3>1. CASE Stacked(t, n, <<e>>)
            <4> DEFINE new == <<e>>
            <4>1. Len(new) = 1 /\ new[1] = e /\ Stacked(t, n, new)
                BY <3>1
            <4> HIDE DEF new
            <4> QED BY <4>1
        <3>2. CASE Stacked(t, n, <<e, Callback>>)
            <4> DEFINE new == <<e, Callback>>
            <4>1. Len(new) = 2 /\ new[1] = e /\ new[2] = Callback /\ Stacked(t, n, new)
                BY <3>2
            <4>2. Callback.pc = "python"
                BY DEF Callback
            <4> HIDE DEF new
            <4>3. \A j \in 1 .. Len(new) : j = 1 \/ j = 2
                BY <4>1
            <4> QED BY <4>1, <4>2, <4>3
        <3> QED BY <2>1, <3>1, <3>2
    <2>6. /\ x \in Holders \ {Region} /\ Held[x] = Top(t).chunk /\ Held'[x] = Tail(Held[x])
        <3>1. m \in 1 .. Len(stack[t]) /\ stack[t][m] = Top(t)
            BY <2>2 DEF m
        <3>2. Live(stack, t, m) = Top(t).chunk
            BY <2>1, <3>1 DEF Live
        <3>3. Live(stack', t, m) = Tail(Top(t).chunk)
            <4>1. 1 \in 1 .. Len(new) /\ m = n + 1
                BY <2>2, <2>5
            <4> QED BY <2>2, <2>3, <2>5, <4>1, LiveMoves
        <3> QED BY <2>2, <3>2, <3>3, HeldLaws
    <2>7. ASSUME NEW h \in Holders \ {x, Region} PROVE Held'[h] = Held[h] \/ Held'[h] = <<>>
        <3>1. CASE h \in {Pending, Line}
            BY <2>4, <3>1, HeldLaws
        <3>2. CASE h \notin {Pending, Line}
            <4>1. PICK u \in Threads, k \in Nat : h = <<u, k>>
                BY <3>2, HeldLaws
            <4>2. u # t \/ k # m
                BY <2>7, <4>1
            <4>3. OneChunk(n, new, m)
                BY <2>2, <2>5 DEF OneChunk
            <4> QED BY <2>5, <4>1, <4>2, <4>3, HeldStill
        <3> QED BY <3>1, <3>2
    <2> QED BY <2>1, <2>4, <2>6, <2>7, OncePushed
<1> QED BY <1>1, <1>2

(* The steps that read.                                                    *)
LEMMA OnceRead ==
    ASSUME TypeInv, TypeInv', Once, Copies, readFirst \/ ~overlapped, NEW t \in Threads,
           AwaitRead(t) \/ PollRead(t)
    PROVE  Once'
<1> DEFINE m == Len(stack[t])
           n == m - 1
<1>1. stack[t] # <<>> /\ UNCHANGED <<region, seen, sent>>
    BY DEF AwaitRead, PollRead, In, readerVars, historyVars
<1>2. m \in Nat \ {0} /\ n \in Nat /\ n + 1 = m /\ Top(t) = stack[t][m] /\ Top(t) \in Op /\ Lawful(Top(t))
    BY <1>1, TopLaws DEF TypeInv
<1>3. ASSUME NEW e, Stacked(t, n, <<e>>), NEW u \in Threads, NEW k \in Nat, u # t \/ k # m
      PROVE  LET h == <<u, k>> IN Held'[h] = Held[h] \/ Held'[h] = <<>>
    <2> DEFINE new == <<e>>
    <2>1. Len(new) = 1 /\ Stacked(t, n, new)
        BY <1>3
    <2> HIDE DEF new, m, n
    <2>2. OneChunk(n, new, m)
        BY <1>2, <2>1 DEF OneChunk
    <2> QED BY <1>3, <2>1, <2>2, HeldStill
<1>4. ASSUME NEW e, Stacked(t, n, <<e>>)
      PROVE  LET h == <<t, m>> IN Held'[h] = IF e.pc = "loop" THEN e.chunk ELSE <<>>
    <2> DEFINE new == <<e>>
    <2>1. Len(new) = 1 /\ new[1] = e /\ Stacked(t, n, new)
        BY <1>4
    <2> HIDE DEF new, m, n
    <2>2. 1 \in 1 .. Len(new) /\ m = n + 1 /\ Len(new) \in Nat
        BY <1>2, <2>1
    <2>3. Live(stack', t, m) = IF e.pc = "loop" THEN e.chunk ELSE <<>>
        BY <1>2, <2>1, <2>2, LiveMoves
    <2> QED BY <1>2, <2>3, HeldLaws
<1>5. CASE AwaitRead(t)
    <2> DEFINE e == [Top(t) EXCEPT !.pc = "loop"]
    <2>1. PICK i \in 1 .. Len(line) : line' = SubSeq(line, i + 1, Len(line)) /\ pending' = SubSeq(line, 1, i)
        BY <1>5 DEF AwaitRead, TakeFromLine
    <2>2. Top(t).op = "call" /\ Stacked(t, n, <<e>>)
        BY <1>5, GoOnStack
    <2>3. e.chunk = <<>>
        BY <1>2, <2>2 DEF Op, Lawful
    <2> HIDE DEF e, m, n
    <2>4. ASSUME NEW h \in Holders \ {Pending, Line} PROVE Held'[h] = Held[h] \/ Held'[h] = <<>>
        <3>1. CASE h = Region
            BY <1>1, <3>1, HeldLaws
        <3>2. CASE h # Region
            <4>1. PICK u \in Threads, k \in Nat : h = <<u, k>>
                BY <3>2, HeldLaws
            <4>2. CASE u # t \/ k # m
                BY <1>3, <2>2, <4>1, <4>2
            <4>3. CASE u = t /\ k = m
                BY <1>4, <2>2, <2>3, <4>1, <4>3
            <4> QED BY <4>2, <4>3
        <3> QED BY <3>1, <3>2
    <2> DEFINE rest == <<>>
    <2>5. rest \o SubSeq(line, 1, i) = SubSeq(line, 1, i)
        <3>1. SubSeq(line, 1, i) \in Seq(WireByte)
            BY DEF TypeInv, BufferTypes
        <3> QED BY <3>1
    <2>6. rest = <<>>
        OBVIOUS
    <2> HIDE DEF rest
    <2>7. Pending \in Holders \ {Line} /\ Held'[Pending] = rest \o SubSeq(line, 1, i)
        BY <2>1, <2>5, HeldLaws
    <2>8. i \in 0 .. Len(line)
        BY <2>1
    <2> QED BY <1>1, <2>1, <2>4, <2>6, <2>7, <2>8, OnceTaken
<1>6. CASE PollRead(t)
    <2>1. PICK i \in 0 .. Len(line) :
              /\ line' = SubSeq(line, i + 1, Len(line))
              /\ Stacked(t, n, <<[Top(t) EXCEPT !.pc = "loop", !.chunk = Rest(t) \o SubSeq(line, 1, i)]>>)
        BY <1>6, PollReadStack
    <2> DEFINE e == [Top(t) EXCEPT !.pc = "loop", !.chunk = Rest(t) \o SubSeq(line, 1, i)]
               x == <<t, m>>
    <2>2. e.pc = "loop" /\ e.chunk = pending \o SubSeq(line, 1, i)
        BY <1>2, <1>6, RestIsPending DEF Op
    <2>3. Stacked(t, n, <<e>>)
        BY <2>1
    <2> HIDE DEF e, m, n
    <2>4. x \in Holders \ {Line} /\ x # Pending /\ x # Region /\ Held'[x] = pending \o SubSeq(line, 1, i)
        BY <1>2, <1>4, <2>2, <2>3, HeldLaws
    <2>5. pending' = <<>>
        BY <1>6 DEF PollRead
    <2>6. ASSUME NEW h \in Holders \ {x, Line} PROVE Held'[h] = Held[h] \/ Held'[h] = <<>>
        <3>1. CASE h \in {Region, Pending}
            BY <1>1, <2>5, <3>1, HeldLaws
        <3>2. CASE h \notin {Region, Pending}
            <4>1. PICK u \in Threads, k \in Nat : h = <<u, k>>
                BY <3>2, HeldLaws
            <4>2. u # t \/ k # m
                BY <2>6, <4>1
            <4> QED BY <1>3, <2>3, <4>1, <4>2
        <3> QED BY <3>1, <3>2
    <2> HIDE DEF x
    <2> QED BY <1>1, <2>1, <2>4, <2>5, <2>6, OnceTaken
<1> QED BY <1>5, <1>6

(* Nothing of what comes new on a stack is a poll that has yet to read.    *)
LEMMA NewOnTop ==
    ASSUME TypeInv, NEW t \in Threads, stack[t] # <<>>
    PROVE  /\ \A pc : Top(t).op = "call" => ~ReadPoll([Top(t) EXCEPT !.pc = pc])
           /\ \A pc : Top(t).op = "call" => [Top(t) EXCEPT !.pc = pc].chunk = <<>>
           /\ \A chunk : ~ReadPoll([Top(t) EXCEPT !.pc = "loop", !.chunk = chunk])
           /\ \A chunk : Top(t).pc = "loop" => ~ReadPoll([Top(t) EXCEPT !.chunk = chunk])
           /\ ~ReadPoll(Callback) /\ Callback.pc # "loop"
<1>1. Top(t) \in Op /\ Lawful(Top(t))
    BY TopLaws DEF TypeInv
<1> QED BY <1>1 DEF Op, ReadPoll, Callback, Lawful

(* A step that leaves the stacks alone, as one of t's.                     *)
LEMMA StackedSame ==
    ASSUME stack \in Stacks, UNCHANGED stack, NEW t \in Threads
    PROVE  Stacked(t, Len(stack[t]), <<>>)
<1>1. Len(<<>>) = 0 /\ Len(stack[t]) \in Nat
    BY OnStack
<1>2. \A e : Kept(e, e)
    BY DEF Kept
<1> DEFINE new == <<>>
<1>3. Len(new) = 0
    OBVIOUS
<1> HIDE DEF new
<1>4. Stacked(t, Len(stack[t]), new)
    BY <1>1, <1>2, <1>3 DEF Stacked
<1> QED BY <1>4 DEF new

(* The forms in which CopiesKept is used.                                  *)
LEMMA CopiesForms ==
    ASSUME TypeInv, Copies, OneThread, NEW t \in Threads, stack[t] # <<>>,
           UNCHANGED <<readFirst, overlapped>>
    PROVE  /\ \A n : Stacked(t, n, <<>>) /\ (UNCHANGED pending \/ n < Len(stack[t]) \/ Top(t).op # "poll")
                 => Copies'
           /\ \A e : Stacked(t, Len(stack[t]) - 1, <<e>>) /\ ~ReadPoll(e) => Copies'
           /\ \A e : Stacked(t, Len(stack[t]) - 1, <<e, Callback>>) /\ ~ReadPoll(e) => Copies'
           /\ Stacked(t, Len(stack[t]), <<Callback>>) /\ Top(t).op # "poll" => Copies'
<1>1. ASSUME NEW n, Stacked(t, n, <<>>), UNCHANGED pending \/ n < Len(stack[t]) \/ Top(t).op # "poll" PROVE Copies'
    <2> DEFINE new == <<>>
    <2>1. Len(new) = 0 /\ Stacked(t, n, new)
        BY <1>1
    <2> HIDE DEF new
    <2>2. Len(new) \in Nat /\ \A j \in 1 .. Len(new) : ~ReadPoll(new[j])
        BY <2>1
    <2> QED BY <1>1, <2>1, <2>2, CopiesKept
<1>2. Len(stack[t]) - 1 < Len(stack[t])
    BY TopLaws DEF TypeInv
<1>3. ASSUME NEW e, Stacked(t, Len(stack[t]) - 1, <<e>>), ~ReadPoll(e) PROVE Copies'
    <2> DEFINE new == <<e>>
    <2>1. Len(new) = 1 /\ new[1] = e /\ Stacked(t, Len(stack[t]) - 1, new)
        BY <1>3
    <2> HIDE DEF new
    <2>2. Len(new) \in Nat /\ \A j \in 1 .. Len(new) : ~ReadPoll(new[j])
        BY <1>3, <2>1
    <2> QED BY <1>2, <2>1, <2>2, CopiesKept
<1>4. ASSUME NEW e, Stacked(t, Len(stack[t]) - 1, <<e, Callback>>), ~ReadPoll(e) PROVE Copies'
    <2> DEFINE new == <<e, Callback>>
    <2>1. Len(new) = 2 /\ new[1] = e /\ new[2] = Callback /\ Stacked(t, Len(stack[t]) - 1, new)
        BY <1>4
    <2> HIDE DEF new
    <2>2. Len(new) \in Nat /\ \A j \in 1 .. Len(new) : j = 1 \/ j = 2
        BY <2>1
    <2>3. \A j \in 1 .. Len(new) : ~ReadPoll(new[j])
        BY <1>4, <2>1, <2>2, NewOnTop
    <2> QED BY <1>2, <2>1, <2>2, <2>3, CopiesKept
<1>5. ASSUME Stacked(t, Len(stack[t]), <<Callback>>), Top(t).op # "poll" PROVE Copies'
    <2> DEFINE new == <<Callback>>
    <2>1. Len(new) = 1 /\ new[1] = Callback /\ Stacked(t, Len(stack[t]), new)
        BY <1>5
    <2> HIDE DEF new
    <2>2. ~ReadPoll(Callback)
        BY DEF ReadPoll, Callback
    <2>3. Len(new) \in Nat /\ \A j \in 1 .. Len(new) : ~ReadPoll(new[j])
        BY <2>1, <2>2
    <2> QED BY <1>5, <2>1, <2>3, CopiesKept
<1> QED BY <1>1, <1>3, <1>4, <1>5

(* Every step keeps the copies true.                                       *)
LEMMA CopiesInductive ==
    ASSUME TypeInv, Copies, OneThread, [Next]_vars
    PROVE  Copies'
<1>1. ASSUME UNCHANGED <<stack, pending, readFirst, overlapped>> PROVE Copies'
    BY <1>1 DEF Copies
<1>2. ASSUME stack' = [u \in Threads |-> <<>>] PROVE Copies'
    BY <1>2, EmptiedStacks DEF Copies
<1>3. ASSUME NEW t \in Threads, BeginCall(t) \/ BeginPoll(t) PROVE Copies'
    BY <1>3, CopiesBegin
<1>4. ASSUME NEW t \in Threads, Register(t) PROVE Copies'
    BY <1>1, <1>4 DEF Register, usageVars
<1>5. ASSUME NEW t \in Threads, SendCommand(t) \/ EnterAwait(t) \/ BeginRead(t) \/ AwaitRead(t) \/ AwaitTimeout(t)
      PROVE  Copies'
    <2>1. UNCHANGED <<readFirst, overlapped>>
        BY <1>5 DEF SendCommand, EnterAwait, BeginRead, AwaitRead, AwaitTimeout, usageVars
    <2>2. /\ stack[t] # <<>> /\ Top(t).op = "call"
          /\ \/ Stacked(t, Len(stack[t]) - 1, <<>>)
             \/ \E pc : Stacked(t, Len(stack[t]) - 1, <<[Top(t) EXCEPT !.pc = pc]>>)
        BY <1>5, GoOnStack
    <2>3. Top(t).op # "poll"
        BY <2>2
    <2> QED BY <2>1, <2>2, <2>3, NewOnTop, CopiesForms
<1>6. ASSUME NEW t \in Threads, AwaitByte(t) PROVE Copies'
    <2>1. UNCHANGED <<readFirst, overlapped>>
        BY <1>6 DEF AwaitByte, usageVars
    <2>2. /\ stack[t] # <<>> /\ Top(t).op = "call"
          /\ \/ UNCHANGED stack
             \/ Stacked(t, Len(stack[t]) - 1, <<>>)
             \/ Stacked(t, Len(stack[t]), <<Callback>>)
        BY <1>6, AwaitByteStack
    <2>3. Top(t).op # "poll" /\ stack \in Stacks
        BY <2>2 DEF TypeInv, StackTypes
    <2> QED BY <2>1, <2>2, <2>3, StackedSame, CopiesForms
<1>7. ASSUME NEW t \in Threads, PollRead(t) PROVE Copies'
    <2>1. UNCHANGED <<readFirst, overlapped>>
        BY <1>7 DEF PollRead, usageVars
    <2>2. /\ stack[t] # <<>>
          /\ \E chunk : Stacked(t, Len(stack[t]) - 1, <<[Top(t) EXCEPT !.pc = "loop", !.chunk = chunk]>>)
        BY <1>7, PollReadStack
    <2> QED BY <2>1, <2>2, NewOnTop, CopiesForms
<1>8. ASSUME NEW t \in Threads, PollByte(t) PROVE Copies'
    <2>1. UNCHANGED <<readFirst, overlapped>>
        BY <1>8 DEF PollByte, usageVars
    <2>2. PICK chunk : /\ stack[t] # <<>> /\ Top(t).pc = "loop"
                       /\ LET e == [Top(t) EXCEPT !.chunk = chunk]
                          IN  \/ Stacked(t, Len(stack[t]) - 1, <<e>>)
                              \/ Stacked(t, Len(stack[t]) - 1, <<e, Callback>>)
        <3>1. Top(t).chunk = Top(t).chunk
            OBVIOUS
        <3> QED BY <1>8, PollByteStack
    <2> DEFINE e == [Top(t) EXCEPT !.chunk = chunk]
    <2>3. ~ReadPoll(e)
        BY <2>2, NewOnTop
    <2>4. Stacked(t, Len(stack[t]) - 1, <<e>>) \/ Stacked(t, Len(stack[t]) - 1, <<e, Callback>>)
        BY <2>2
    <2> HIDE DEF e
    <2> QED BY <2>1, <2>2, <2>3, <2>4, CopiesForms
<1>9. ASSUME NEW t \in Threads, PollReturns(t) \/ CallbackReturns(t) PROVE Copies'
    <2>1. UNCHANGED <<readFirst, overlapped, pending>>
        BY <1>9 DEF PollReturns, CallbackReturns, usageVars
    <2> QED BY <1>9, <2>1, ReturnStack, CopiesForms
<1>10. ASSUME NEW t \in Threads, CallbackRaises(t) PROVE Copies'
    <2>1. UNCHANGED <<readFirst, overlapped, pending>> /\ stack[t] # <<>>
        BY <1>10 DEF CallbackRaises, usageVars, In
    <2>2. stack' = [u \in Threads |-> <<>>] \/ \E n : Stacked(t, n, <<>>)
        BY <1>10, CallbackRaisesStack
    <2> QED BY <1>2, <2>1, <2>2, CopiesForms
<1>11. ASSUME NEW t \in Threads, PortRaises(t) PROVE Copies'
    <2>1. UNCHANGED <<readFirst, overlapped, pending>>
        BY <1>11 DEF PortRaises, usageVars
    <2>2. stack[t] # <<>> /\ (stack' = [u \in Threads |-> <<>>] \/ \E n : Stacked(t, n, <<>>))
        BY <1>11, ReturnStack
    <2> QED BY <1>2, <2>1, <2>2, CopiesForms
<1>12. CASE DeviceReplies \/ DevicePushes
    BY <1>1, <1>12 DEF DeviceReplies, DevicePushes, usageVars
<1>13. CASE UNCHANGED vars
    BY <1>1, <1>13 DEF vars, usageVars
<1>14. ASSUME NEW t \in Threads, Continue(t) PROVE Copies'
    BY <1>5, <1>6, <1>7, <1>8, <1>9, <1>14 DEF Continue
<1> QED BY <1>3, <1>4, <1>10, <1>11, <1>12, <1>13, <1>14 DEF Next

(* The steps that push no byte and read none.                              *)
LEMMA OnceOther ==
    ASSUME TypeInv, TypeInv', Once, NEW t \in Threads,
           \/ BeginCall(t) \/ BeginPoll(t) \/ SendCommand(t) \/ EnterAwait(t) \/ BeginRead(t)
           \/ AwaitTimeout(t) \/ PollReturns(t) \/ CallbackReturns(t) \/ CallbackRaises(t) \/ PortRaises(t)
    PROVE  Once'
<1>1. UNCHANGED <<region, line, seen, sent>> /\ (pending' = pending \/ pending' = <<>>)
    <2>1. CASE BeginCall(t) \/ BeginPoll(t) \/ SendCommand(t) \/ EnterAwait(t) \/ BeginRead(t)
        BY <2>1 DEF BeginCall, BeginPoll, SendCommand, EnterAwait, BeginRead, readerVars, portVars, historyVars
    <2>2. CASE AwaitTimeout(t)
        BY <2>2 DEF AwaitTimeout, readerVars, portVars
    <2>3. CASE PollReturns(t) \/ CallbackReturns(t) \/ CallbackRaises(t) \/ PortRaises(t)
        BY <2>3 DEF PollReturns, CallbackReturns, CallbackRaises, PortRaises, readerVars, portVars, historyVars
    <2> QED BY <2>1, <2>2, <2>3
<1>2. ASSUME NEW n, Stacked(t, n, <<>>) PROVE Once'
    <2> DEFINE new == <<>>
    <2>1. Len(new) = 0 /\ Stacked(t, n, new)
        BY <1>2
    <2> HIDE DEF new
    <2>2. Len(new) \in Nat /\ \A j \in 1 .. Len(new) : new[j].pc = "loop" => new[j].chunk = <<>>
        BY <2>1
    <2> QED BY <1>1, <2>1, <2>2, OnceStackStep
<1>3. ASSUME NEW n, NEW e, Stacked(t, n, <<e>>), e.pc = "loop" => e.chunk = <<>> PROVE Once'
    <2> DEFINE new == <<e>>
    <2>1. Len(new) = 1 /\ new[1] = e /\ Stacked(t, n, new)
        BY <1>3
    <2> HIDE DEF new
    <2>2. Len(new) \in Nat /\ \A j \in 1 .. Len(new) : new[j].pc = "loop" => new[j].chunk = <<>>
        BY <1>3, <2>1
    <2> QED BY <1>1, <2>1, <2>2, OnceStackStep
<1>4. CASE BeginCall(t)
    <2>1. PICK e : Stacked(t, Len(stack[t]), <<e>>) /\ e.pc = "send"
        <3>1. \A m, alone : Call(m, alone).pc = "send"
            BY DEF Call
        <3> QED BY <1>4, <3>1, BeginCallStack
    <2> QED BY <1>3, <2>1
<1>5. CASE BeginPoll(t)
    <2>1. PICK e : Stacked(t, Len(stack[t]), <<e>>) /\ e.pc = "read"
        <3>1. \A rest : Poll(rest).pc = "read"
            BY DEF Poll
        <3> QED BY <1>5, <3>1, BeginPollStack
    <2> QED BY <1>3, <2>1
<1>6. CASE SendCommand(t) \/ EnterAwait(t) \/ BeginRead(t) \/ AwaitTimeout(t)
    <2>1. /\ stack[t] # <<>> /\ Top(t).op = "call"
          /\ \/ Stacked(t, Len(stack[t]) - 1, <<>>)
             \/ \E pc : Stacked(t, Len(stack[t]) - 1, <<[Top(t) EXCEPT !.pc = pc]>>)
        BY <1>6, GoOnStack
    <2> QED BY <1>2, <1>3, <2>1, NewOnTop
<1>7. CASE PollReturns(t) \/ CallbackReturns(t)
    BY <1>2, <1>7, ReturnStack
<1>8. ASSUME stack' = [u \in Threads |-> <<>>], UNCHANGED pending PROVE Once'
    BY <1>1, <1>8, OnceEmptied
<1>9. CASE CallbackRaises(t)
    <2>1. UNCHANGED pending
        BY <1>9 DEF CallbackRaises
    <2> QED BY <1>2, <1>8, <1>9, <2>1, CallbackRaisesStack
<1>10. CASE PortRaises(t)
    <2>1. UNCHANGED pending
        BY <1>10 DEF PortRaises
    <2> QED BY <1>2, <1>8, <1>10, <2>1, ReturnStack
<1> QED BY <1>4, <1>5, <1>6, <1>7, <1>9, <1>10

\* What poll must do first, or threads must not do, for Once to hold.
OnceInv == readFirst \/ ~overlapped => Once

(* Every step keeps every frame in one place.                              *)
LEMMA OnceInductive ==
    ASSUME TypeInv, TypeInv', Copies, OnceInv, [Next]_vars
    PROVE  OnceInv'
<1>1. CASE UNCHANGED vars
    <2>1. UNCHANGED <<readFirst, overlapped, seen, sent, Held>>
        BY <1>1 DEF vars, usageVars, historyVars, portVars, readerVars, Held
    <2> QED BY <2>1 DEF OnceInv, Once
<1>2. CASE Next
    <2>1. SUFFICES ASSUME readFirst' \/ ~overlapped' PROVE Once'
        BY DEF OnceInv
    <2>2. readFirst \/ ~overlapped
        BY <1>2, <2>1, Usage DEF usageVars, Disturb
    <2>3. Once
        BY <2>2 DEF OnceInv
    <2>4. ASSUME NEW t \in Threads, Register(t) PROVE Once'
        <3>1. UNCHANGED <<seen, sent, Held>>
            BY <2>4 DEF Register, historyVars, portVars, readerVars, Held
        <3> QED BY <2>3, <3>1 DEF Once
    <2>5. ASSUME NEW t \in Threads, Continue(t) PROVE Once'
        BY <2>2, <2>3, <2>5, OnceByte, OnceRead, OnceOther DEF Continue
    <2> QED BY <1>2, <2>3, <2>4, <2>5, OnceOther, OnceSent DEF Next
<1> QED BY <1>1, <1>2

(* No frame is handled twice, with threads, nested operations and          *)
(* exceptions, where poll reads before it copies pending_; elsewhere as    *)
(* long as one thread at a time uses the Device.                           *)
THEOREM FramesSeenOnce == Spec => []SeenOnce
<1>1. Init /\ TypeInv => OneThread /\ Copies /\ OnceInv
    <2> SUFFICES ASSUME Init, TypeInv PROVE OneThread /\ Copies /\ OnceInv
        OBVIOUS
    <2>1. \A t \in Threads : stack[t] = <<>> /\ Len(stack[t]) = 0
        BY DEF Init
    <2>2. OneThread /\ Copies
        BY <2>1 DEF OneThread, Copies
    <2>3. \A t \in Threads, k \in Nat : Live(stack, t, k) = <<>>
        BY <2>1 DEF Live
    <2>4. \A h \in Holders : Held[h] = <<>>
        <3>1. region = <<>> /\ pending = <<>> /\ line = <<>>
            BY DEF Init, Reader!Init
        <3> QED BY <2>3, <3>1, HeldLaws
    <2>5. Distinct(<<>>) /\ InTransit(<<>>) = {}
        BY SingleByte, PyDeviceAssumption DEF WireByte
    <2>6. seen = <<>> /\ ToSet(seen) = {} /\ Len(seen) = 0
        BY DEF Init, ToSet
    <2>7. Once
        BY <2>4, <2>5, <2>6 DEF Once
    <2> QED BY <2>2, <2>7 DEF OnceInv
<1>2. TypeInv /\ OneThread /\ [Next]_vars => OneThread'
    BY OneThreadStep
<1>3. TypeInv /\ OneThread /\ Copies /\ [Next]_vars => Copies'
    BY CopiesInductive
<1>4. TypeInv /\ TypeInv' /\ Copies /\ OnceInv /\ [Next]_vars => OnceInv'
    BY OnceInductive
<1>5. OnceInv => SeenOnce
    BY DEF OnceInv, Once, SeenOnce
<1> QED BY <1>1, <1>2, <1>3, <1>4, <1>5, TypeInvInductive, PTL DEF Spec

-----------------------------------------------------------------------------
(* What a step adds to the history: the frame that a byte completes, and,  *)
(* if await_reply met a Reply or an empty read, an answer.                 *)
LEMMA HistorySteps ==
    ASSUME [Next]_vars
    PROVE  /\ UNCHANGED seen \/ seen' = Append(seen, frame'.nr)
           /\ \/ UNCHANGED answered
              \/ \E t \in Threads : Answer(t, "TransportError", NoFrame)
              \/ /\ seen' = Append(seen, frame'.nr)
                 /\ \E t \in Threads : Answer(t, "Ok", frame')
<1>1. ASSUME NEW t \in Threads, AwaitTimeout(t)
      PROVE  UNCHANGED seen /\ Answer(t, "TransportError", NoFrame)
    BY <1>1 DEF AwaitTimeout
<1>2. ASSUME NEW t \in Threads, AwaitByte(t)
      PROVE  \/ UNCHANGED answered /\ (UNCHANGED seen \/ seen' = Append(seen, frame'.nr))
             \/ seen' = Append(seen, frame'.nr) /\ Answer(t, "Ok", frame')
    BY <1>2 DEF AwaitByte, PushByte, Completed
<1>3. ASSUME NEW t \in Threads, PollByte(t)
      PROVE  UNCHANGED answered /\ (UNCHANGED seen \/ seen' = Append(seen, frame'.nr))
    BY <1>3 DEF PollByte, PushByte
<1>4. ASSUME NEW t \in Threads,
             \/ SendCommand(t) \/ EnterAwait(t) \/ BeginRead(t) \/ AwaitRead(t)
             \/ PollRead(t) \/ PollReturns(t) \/ CallbackReturns(t)
      PROVE  UNCHANGED <<seen, answered>>
    BY <1>4 DEF SendCommand, EnterAwait, BeginRead, AwaitRead, PollRead, PollReturns,
                CallbackReturns, historyVars
<1>5. ASSUME NEW t \in Threads,
             BeginCall(t) \/ BeginPoll(t) \/ Register(t) \/ CallbackRaises(t) \/ PortRaises(t)
      PROVE  UNCHANGED <<seen, answered>>
    BY <1>5 DEF BeginCall, BeginPoll, Register, CallbackRaises, PortRaises, historyVars
<1>6. CASE DeviceReplies \/ DevicePushes \/ UNCHANGED vars
    BY <1>6 DEF DeviceReplies, DevicePushes, vars, historyVars
<1>7. ASSUME NEW t \in Threads, Continue(t)
      PROVE  \/ UNCHANGED <<seen, answered>> \/ AwaitTimeout(t) \/ AwaitByte(t) \/ PollByte(t)
    BY <1>4, <1>7 DEF Continue
<1> QED BY <1>1, <1>2, <1>3, <1>5, <1>6, <1>7 DEF Next

\* Every reply that a call returned is a frame that the reader completed.
AnswersSeen == \A a \in answered : a.status = "Ok" => a.nr \in ToSet(seen)

(* A number that is appended joins the elements of a sequence.             *)
LEMMA OneMoreSeen ==
    ASSUME NEW s \in Seq(Nat), NEW n \in Nat
    PROVE  /\ ToSet(s) \subseteq ToSet(Append(s, n)) /\ n \in ToSet(Append(s, n))
           /\ (\A j, k \in 1 .. Len(Append(s, n)) : Append(s, n)[j] = Append(s, n)[k] => j = k)
                 => n \notin ToSet(s)
<1> DEFINE r == Append(s, n)
<1>1. /\ Len(s) \in Nat /\ Len(r) = Len(s) + 1 /\ r[Len(s) + 1] = n
      /\ \A k \in 1 .. Len(s) : r[k] = s[k]
    OBVIOUS
<1> HIDE DEF r
<1>2. Len(s) + 1 \in 1 .. Len(r) /\ \A k \in 1 .. Len(s) : k \in 1 .. Len(r) /\ k # Len(s) + 1
    BY <1>1
<1>3. ToSet(s) \subseteq ToSet(r) /\ n \in ToSet(r)
    BY <1>1, <1>2 DEF ToSet
<1>4. ASSUME \A j, k \in 1 .. Len(r) : r[j] = r[k] => j = k PROVE n \notin ToSet(s)
    BY <1>1, <1>2, <1>4 DEF ToSet
<1> QED BY <1>3, <1>4 DEF r

(* No two calls return the same reply, where poll reads before it copies   *)
(* pending_, elsewhere as long as one thread at a time uses the Device:    *)
(* the frame a call takes is one the reader has just completed, and it     *)
(* completes none twice.                                                   *)
THEOREM RepliesUsedOnce == Spec => []ReplyUsedOnce
<1>1. Init => AnswersSeen /\ ReplyUsedOnce
    BY DEF Init, AnswersSeen, ReplyUsedOnce
<1>2. TypeInv /\ TypeInv' /\ AnswersSeen /\ ReplyUsedOnce /\ SeenOnce' /\ [Next]_vars
        => AnswersSeen' /\ ReplyUsedOnce'
    <2> SUFFICES ASSUME TypeInv, TypeInv', AnswersSeen, ReplyUsedOnce, SeenOnce', [Next]_vars
                 PROVE  AnswersSeen' /\ ReplyUsedOnce'
        OBVIOUS
    <2>1. seen \in Seq(Nat) /\ seen' \in Seq(Nat)
        BY DEF TypeInv, BufferTypes
    <2>2. readFirst' \/ ~overlapped' => readFirst \/ ~overlapped
        BY Usage DEF vars, usageVars, Disturb
    <2>3. ASSUME seen' = Append(seen, frame'.nr)
          PROVE  /\ ToSet(seen) \subseteq ToSet(seen') /\ frame'.nr \in ToSet(seen')
                 /\ readFirst' \/ ~overlapped' => frame'.nr \notin ToSet(seen)
        <3>1. frame'.nr \in Nat
            <4> DEFINE n == frame'.nr
                       T == Nat \cup {n}
            <4>1. seen \in Seq(T) /\ n \in T
                BY <2>1
            <4>2. Len(seen) + 1 \in 1 .. Len(seen') /\ seen'[Len(seen) + 1] = n
                <5> HIDE DEF T, n
                <5> QED BY <4>1, <2>3 DEF n
            <4> QED BY <2>1, <4>2
        <3> QED BY <2>1, <2>3, <3>1, OneMoreSeen DEF SeenOnce
    <2>4. ToSet(seen) \subseteq ToSet(seen')
        BY <2>3, HistorySteps
    <2>5. CASE UNCHANGED answered
        BY <2>2, <2>4, <2>5 DEF AnswersSeen, ReplyUsedOnce
    <2>6. ASSUME NEW t \in Threads, Answer(t, "TransportError", NoFrame)
          PROVE  AnswersSeen' /\ ReplyUsedOnce'
        BY <2>2, <2>4, <2>6 DEF Answer, AnswersSeen, ReplyUsedOnce
    <2>7. ASSUME seen' = Append(seen, frame'.nr), NEW t \in Threads, Answer(t, "Ok", frame')
          PROVE  AnswersSeen' /\ ReplyUsedOnce'
        <3> DEFINE new == [call |-> Top(t).call, alone |-> Top(t).alone, status |-> "Ok",
                           by |-> frame'.call, nr |-> frame'.nr]
        <3>1. answered' = answered \cup {new} /\ new.status = "Ok" /\ new.nr = frame'.nr
            BY <2>7 DEF Answer
        <3> HIDE DEF new
        <3>2. AnswersSeen'
            BY <2>3, <2>7, <3>1 DEF AnswersSeen
        <3>3. readFirst' \/ ~overlapped' =>
                 \A a \in answered : a.status = "Ok" => a.nr # new.nr
            BY <2>3, <2>7, <3>1 DEF AnswersSeen
        <3> QED BY <2>2, <3>1, <3>2, <3>3 DEF ReplyUsedOnce
    <2> QED BY <2>5, <2>6, <2>7, HistorySteps
<1> QED BY <1>1, <1>2, TypeInvInductive, FramesSeenOnce, PTL DEF Spec

-----------------------------------------------------------------------------
(* The flow of bytes from the line into the reader.                        *)
Framed(f) == \A k \in 1 .. Len(f) : IsBody(f[k]) => k < Len(f) /\ ~IsBody(f[k + 1])

\* Frames come in the order they were sent.
Ascending(f) == \A j, k \in 1 .. Len(f) : IsBody(f[j]) /\ IsBody(f[k]) /\ j < k => f[j].nr < f[k].nr

\* Numbers grow along a sequence.
Increasing(s) == \A j, k \in 1 .. Len(s) : j < k => s[j] < s[k]

\* The frames of flow f follow those that were seen, and of the n frames sent
\* all are seen, in f or among the discarded ones.
Orderly(f, s, d, n) ==
    /\ Framed(f) /\ Ascending(f) /\ Increasing(s)
    /\ \A j \in ToSet(s), k \in InTransit(f) : j < k
    /\ ToSet(s) \cup d \cup InTransit(f) = 1 .. n

(* An upper part of a flow is a flow; what was before it is smaller.       *)
LEMMA FlowParts ==
    ASSUME NEW a \in Seq(WireByte), NEW g \in Seq(WireByte), Framed(a \o g), Ascending(a \o g)
    PROVE  /\ Framed(g) /\ Ascending(g)
           /\ \A j \in InTransit(a), k \in InTransit(g) : j < k
<1> DEFINE f == a \o g
           n == Len(a)
<1>1. /\ Len(f) = n + Len(g) /\ n \in Nat /\ Len(g) \in Nat
      /\ \A k \in 1 .. n : f[k] = a[k]
      /\ \A k \in 1 .. Len(g) : f[n + k] = g[k]
    BY ConcatLaws
<1>2. Framed(f) /\ Ascending(f)
    OBVIOUS
<1> HIDE DEF f, n
<1>3. \A k \in 1 .. Len(g) : n + k \in 1 .. Len(f)
    BY <1>1
<1>4. \A k \in 1 .. n : k \in 1 .. Len(f)
    BY <1>1
<1>5. ASSUME NEW k \in 1 .. Len(g), IsBody(g[k]) PROVE k < Len(g) /\ ~IsBody(g[k + 1])
    <2>1. n + k < Len(f) /\ ~IsBody(f[(n + k) + 1])
        BY <1>1, <1>2, <1>3, <1>5 DEF Framed
    <2>2. k < Len(g)
        BY <1>1, <2>1
    <2>3. k + 1 \in 1 .. Len(g) /\ n + (k + 1) = (n + k) + 1
        BY <1>1, <2>2
    <2> QED BY <1>1, <2>1, <2>2, <2>3
<1>6. ASSUME NEW j \in 1 .. Len(g), NEW k \in 1 .. Len(g), IsBody(g[j]), IsBody(g[k]), j < k
      PROVE  g[j].nr < g[k].nr
    <2>1. f[n + j] = g[j] /\ f[n + k] = g[k] /\ n + j < n + k
        BY <1>1, <1>6
    <2> QED BY <1>2, <1>3, <1>6, <2>1 DEF Ascending
<1>7. ASSUME NEW x \in InTransit(a), NEW y \in InTransit(g) PROVE x < y
    <2>1. PICK j \in 1 .. n : IsBody(a[j]) /\ a[j].nr = x
        BY InTransitLaws DEF n
    <2>2. PICK k \in 1 .. Len(g) : IsBody(g[k]) /\ g[k].nr = y
        BY InTransitLaws
    <2>3. f[j] = a[j] /\ f[n + k] = g[k] /\ j < n + k
        BY <1>1
    <2> QED BY <1>2, <1>3, <1>4, <2>1, <2>2, <2>3 DEF Ascending
<1> QED BY <1>5, <1>6, <1>7 DEF Framed, Ascending

(* The first bytes of a flow are discarded.                                *)
LEMMA FlowDropped ==
    ASSUME NEW a \in Seq(WireByte), NEW g \in Seq(WireByte), NEW s, NEW d, NEW n, Orderly(a \o g, s, d, n)
    PROVE  Orderly(g, s, d \cup InTransit(a), n)
<1>1. InTransit(a \o g) = InTransit(a) \cup InTransit(g)
    BY Concatenated
<1>2. Framed(g) /\ Ascending(g)
    BY FlowParts DEF Orderly
<1> QED BY <1>1, <1>2 DEF Orderly

(* The first frame of a flow is seen.                                      *)
LEMMA FlowSeen ==
    ASSUME NEW b \in FrameBody, NEW g \in Seq(WireByte), NEW s \in Seq(Nat), NEW d, NEW n,
           NEW a \in Seq(WireByte), InTransit(a) = {b.nr}, Orderly(a \o g, s, d, n)
    PROVE  Orderly(g, Append(s, b.nr), d, n)
<1> DEFINE q == Append(s, b.nr)
           m == b.nr
<1>1. InTransit(a \o g) = {m} \cup InTransit(g)
    BY Concatenated
<1>2. Framed(g) /\ Ascending(g) /\ \A k \in InTransit(g) : m < k
    BY FlowParts DEF Orderly
<1>3. m \in Nat /\ \A j \in ToSet(s) : j < m
    BY <1>1 DEF Orderly, FrameBody
<1>4. /\ Len(q) = Len(s) + 1 /\ Len(s) \in Nat /\ q[Len(s) + 1] = m
      /\ \A k \in 1 .. Len(s) : q[k] = s[k]
      /\ DOMAIN q = 1 .. Len(q) /\ DOMAIN s = 1 .. Len(s)
    BY <1>3
<1> HIDE DEF q, m
<1>5. \A k : k \in 1 .. Len(q) <=> k \in 1 .. Len(s) \/ k = Len(s) + 1
    BY <1>4
<1>6. ToSet(q) = ToSet(s) \cup {m}
    BY <1>4, <1>5 DEF ToSet
<1>7. ASSUME NEW j \in 1 .. Len(q), NEW k \in 1 .. Len(q), j < k PROVE q[j] < q[k]
    <2>1. j \in 1 .. Len(s)
        BY <1>4, <1>7
    <2>2. CASE k \in 1 .. Len(s)
        BY <1>4, <1>7, <2>1, <2>2 DEF Orderly, Increasing
    <2>3. CASE k = Len(s) + 1
        <3>1. s[j] \in ToSet(s)
            BY <2>1 DEF ToSet
        <3> QED BY <1>3, <1>4, <2>1, <2>3, <3>1
    <2> QED BY <1>5, <2>2, <2>3
<1>8. \A j \in ToSet(q), k \in InTransit(g) : j < k
    BY <1>1, <1>2, <1>6 DEF Orderly
<1>9. ToSet(q) \cup d \cup InTransit(g) = 1 .. n
    BY <1>1, <1>6 DEF Orderly
<1> QED BY <1>2, <1>7, <1>8, <1>9 DEF Orderly, Increasing, q, m

(* A frame joins the end of a flow.                                        *)
LEMMA FlowSent ==
    ASSUME NEW f \in Seq(WireByte), NEW s, NEW d, NEW n \in Nat, Orderly(f, s, d, n),
           NEW b \in FrameBody, b.nr = n + 1
    PROVE  Orderly(f \o <<b, Delimiter>>, s, d, n + 1)
<1> DEFINE two == <<b, Delimiter>>
           q == f \o two
<1>1. two \in Seq(WireByte) /\ Len(two) = 2 /\ two[1] = b /\ two[2] = Delimiter
    BY DEF WireByte
<1>2. IsBody(b) /\ ~IsBody(Delimiter)
    BY PyDeviceAssumption DEF IsBody
<1> HIDE DEF two
<1>0. /\ f \o two \in Seq(WireByte) /\ Len(f \o two) = Len(f) + Len(two)
      /\ \A k \in 1 .. Len(f) : (f \o two)[k] = f[k]
      /\ \A k \in 1 .. Len(two) : (f \o two)[Len(f) + k] = two[k]
    BY <1>1, ConcatLaws
<1>3. /\ Len(q) = Len(f) + 2 /\ Len(f) \in Nat
      /\ \A k \in 1 .. Len(f) : q[k] = f[k]
      /\ q[Len(f) + 1] = b /\ q[Len(f) + 2] = Delimiter
    <2>1. /\ \A k \in 1 .. Len(two) : q[Len(f) + k] = two[k]
          /\ Len(q) = Len(f) + Len(two) /\ Len(f) \in Nat
          /\ \A k \in 1 .. Len(f) : q[k] = f[k]
        BY <1>0
    <2>2. 1 \in 1 .. Len(two) /\ 2 \in 1 .. Len(two)
        BY <1>1
    <2>3. q[Len(f) + 1] = two[1] /\ q[Len(f) + 2] = two[2]
        BY <2>1, <2>2
    <2> QED BY <1>1, <2>1, <2>3
<1>4. InTransit(two) = {n + 1}
    <2>1. \A k \in 1 .. Len(two) : IsBody(two[k]) => k = 1
        BY <1>1, <1>2
    <2>2. 1 \in 1 .. Len(two) /\ IsBody(two[1]) /\ two[1].nr = n + 1
        BY <1>1, <1>2
    <2> QED BY <2>1, <2>2, InTransitLaws
<1>5. InTransit(q) = InTransit(f) \cup {n + 1}
    BY <1>1, <1>4, Concatenated
<1> HIDE DEF q
<1>6. \A k \in 1 .. Len(q) : k \in 1 .. Len(f) \/ k = Len(f) + 1 \/ (k = Len(f) + 2 /\ ~IsBody(q[k]))
    BY <1>2, <1>3
<1>7. Framed(q)
    <2>1. SUFFICES ASSUME NEW k \in 1 .. Len(q), IsBody(q[k]) PROVE k < Len(q) /\ ~IsBody(q[k + 1])
        BY DEF Framed
    <2>2. CASE k \in 1 .. Len(f)
        <3>1. k < Len(f) /\ ~IsBody(f[k + 1])
            BY <1>3, <2>1, <2>2 DEF Orderly, Framed
        <3>2. k + 1 \in 1 .. Len(f)
            BY <1>3, <2>2, <3>1
        <3> QED BY <1>3, <3>1, <3>2
    <2>3. CASE k = Len(f) + 1
        <3>1. k + 1 = Len(f) + 2 /\ k < Len(q)
            BY <1>3, <2>3
        <3> QED BY <1>2, <1>3, <3>1
    <2> QED BY <1>6, <2>1, <2>2, <2>3
<1>8. \A m \in InTransit(f) : m < n + 1
    BY DEF Orderly
<1>9. Ascending(q)
    <2>1. SUFFICES ASSUME NEW j \in 1 .. Len(q), NEW k \in 1 .. Len(q), IsBody(q[j]), IsBody(q[k]), j < k
                   PROVE  q[j].nr < q[k].nr
        BY DEF Ascending
    <2>2. j \in 1 .. Len(f)
        BY <1>3, <1>6, <2>1
    <2>3. CASE k \in 1 .. Len(f)
        BY <1>3, <2>1, <2>2, <2>3 DEF Orderly, Ascending
    <2>4. CASE k = Len(f) + 1
        <3>1. q[j].nr \in InTransit(f)
            BY <1>3, <2>1, <2>2, InTransitLaws
        <3> QED BY <1>3, <1>8, <2>4, <3>1
    <2> QED BY <1>6, <2>1, <2>3, <2>4
<1>10. \A j \in ToSet(s) : j < n + 1
    BY DEF Orderly
<1>11. 1 .. n + 1 = (1 .. n) \cup {n + 1}
    OBVIOUS
<1>12. (\A j \in ToSet(s), k \in InTransit(q) : j < k) /\ ToSet(s) \cup d \cup InTransit(q) = 1 .. n + 1
    BY <1>5, <1>10, <1>11 DEF Orderly
<1>13. Increasing(s)
    BY DEF Orderly
<1> QED BY <1>7, <1>9, <1>12, <1>13 DEF Orderly, q, two


(* Sequences are put together in any grouping.                             *)
LEMMA Grouped ==
    ASSUME NEW a \in Seq(WireByte), NEW b \in Seq(WireByte), NEW c \in Seq(WireByte)
    PROVE  a \o (b \o c) = (a \o b) \o c
<1> DEFINE S == WireByte
<1>1. a \in Seq(S) /\ b \in Seq(S) /\ c \in Seq(S)
    OBVIOUS
<1> HIDE DEF S
<1> QED BY <1>1, ConcatAssociative

(* A sequence of at most one element.                                      *)
LEMMA AtMostOne ==
    ASSUME NEW S, NEW s \in Seq(S), Len(s) <= 1
    PROVE  s = <<>> \/ (Len(s) = 1 /\ s # <<>> /\ s[1] \in S /\ s = <<s[1]>>)
<1>1. Len(s) = 0 => s = <<>>
    OBVIOUS
<1>2. ASSUME Len(s) = 1 PROVE s # <<>> /\ s[1] \in S /\ s = <<s[1]>>
    <2>1. s[1] \in S
        BY <1>2
    <2>2. \A k \in 1 .. 1 : s[k] = <<s[1]>>[k]
        BY <1>2, <2>1
    <2> QED BY <1>2, <2>1, <2>2
<1> DEFINE n == Len(s)
<1>3. n \in Nat /\ n <= 1
    OBVIOUS
<1> HIDE DEF n
<1>4. n = 0 \/ n = 1
    BY <1>3
<1> QED BY <1>1, <1>2, <1>4 DEF n

(* A byte of the flow is pushed.                                           *)
LEMMA FlowPush ==
    ASSUME BufferTypes, Len(region) <= 1, ~overflow, NEW c \in Seq(WireByte), c # <<>>, PushByte(Head(c)),
           NEW d, NEW n, Orderly((region \o c) \o line, seen, d, n)
    PROVE  /\ Len(region') <= 1 /\ ~overflow'
           /\ Orderly((region' \o Tail(c)) \o line, seen', d, n)
           /\ event' = "FrameReady" => region' = <<>>
<1> DEFINE h == <<Head(c)>>
           T == Tail(c)
           g == T \o line
<1>1. Head(c) \in WireByte /\ T \in Seq(WireByte) /\ c = h \o T
    BY ComesOff
<1>2. h \in Seq(WireByte) /\ Len(h) = 1 /\ h[1] = Head(c)
    BY <1>1, SingleByte
<1>3. region \in Seq(WireByte) /\ line \in Seq(WireByte) /\ Len(region) \in Nat
    BY DEF BufferTypes, WireByte
<1>4. /\ (Head(c) # Delimiter => InTransit(h) = {Head(c).nr}) /\ (Head(c) = Delimiter => InTransit(h) = {})
    BY <1>1, SingleByte DEF IsBody
<1>5. /\ Head(c) # Delimiter =>
            /\ seen' = seen /\ event' # "FrameReady"
            /\ \/ region' = Append(region, Head(c)) /\ overflow' = overflow
               \/ region' = region /\ Len(region) >= 255
      /\ Head(c) = Delimiter =>
            /\ region' = <<>> /\ ~overflow'
            /\ region = <<>> \/ Len(region) # 1 \/ event' = "FrameReady"
      /\ event' = "FrameReady" =>
            Len(region) = 1 /\ seen' = Append(seen, region[1].nr) /\ frame' = region[1]
      /\ event' # "FrameReady" => seen' = seen
    BY <1>1, PushLaws DEF BufferTypes, IsBody
<1> HIDE DEF h, T
<1>6. region = <<>> \/ (Len(region) = 1 /\ region[1] \in FrameBody)
    BY AtMostOne DEF BufferTypes
<1>7. g \in Seq(WireByte) /\ T \o line = g
    BY <1>1, <1>3, ConcatLaws
<1> HIDE DEF g
<1>8. (region \o c) \o line = (region \o h) \o g
    <2>1. region \o (h \o T) = (region \o h) \o T
        <3>1. region \in Seq(WireByte) /\ h \in Seq(WireByte) /\ T \in Seq(WireByte)
            BY <1>1, <1>2, <1>3
        <3> QED BY <3>1, Grouped
    <2>2. ((region \o h) \o T) \o line = (region \o h) \o (T \o line)
        <3>1. region \o h \in Seq(WireByte)
            BY <1>2, <1>3, ConcatLaws
        <3> QED BY <1>1, <1>3, <3>1, Grouped
    <2> QED BY <1>1, <1>7, <2>1, <2>2
<1>9. Orderly((region \o h) \o g, seen, d, n)
    BY <1>8
<1>10. CASE Head(c) # Delimiter
    <2>1. region = <<>>
        <3>1. SUFFICES ASSUME Len(region) = 1 PROVE FALSE
            BY <1>6
        <3> DEFINE a == region \o h
                   f == a \o g
        <3>2. /\ a \in Seq(WireByte) /\ Len(a) = 2 /\ a[1] = region[1]
              /\ a[2] = Head(c)
            <4>1. Len(region) = 1 /\ region \in Seq(WireByte) /\ 1 \in 1 .. 1
                BY <1>3, <3>1
            <4>2. /\ a \in Seq(WireByte) /\ Len(a) = Len(region) + Len(h)
                  /\ \A k \in 1 .. Len(region) : a[k] = region[k]
                  /\ \A k \in 1 .. Len(h) : a[Len(region) + k] = h[k]
                BY <1>2, <1>3, ConcatLaws
            <4>3. a[1] = region[1] /\ a[1 + 1] = h[1]
                BY <1>2, <4>1, <4>2
            <4> QED BY <1>2, <4>1, <4>2, <4>3
        <3>3. a \o g \in Seq(WireByte) /\ Len(a \o g) = Len(a) + Len(g) /\ \A k \in 1 .. Len(a) : (a \o g)[k] = a[k]
            BY <1>7, <3>2, ConcatLaws
        <3>4. Len(g) \in Nat
            BY <1>7
        <3> HIDE DEF a
        <3>5. 1 \in 1 .. Len(f) /\ 2 \in 1 .. Len(f) /\ f[1] = region[1] /\ f[2] = Head(c)
            BY <3>2, <3>3, <3>4
        <3>6. Framed(f)
            BY <1>9 DEF Orderly, a
        <3> HIDE DEF f
        <3>7. IsBody(f[1]) /\ IsBody(f[1 + 1])
            BY <1>6, <1>10, <3>1, <3>5, PyDeviceAssumption DEF IsBody
        <3> QED BY <3>5, <3>6, <3>7 DEF Framed
    <2>2. region' = h /\ ~overflow' /\ seen' = seen /\ event' # "FrameReady"
        <3>1. Append(<<>>, Head(c)) = h /\ Len(<<>>) = 0
            BY DEF h
        <3> QED BY <1>5, <1>10, <2>1, <3>1
    <2>3. region \o c = c /\ region' \o T = c
        <3>1. <<>> \o c = c
            BY ConcatEmptySeq
        <3> QED BY <1>1, <2>1, <2>2, <3>1
    <2>4. Len(region') <= 1
        <3>1. Len(region') = 1
            BY <1>2, <2>2
        <3> QED BY <3>1
    <2> QED BY <2>2, <2>3, <2>4 DEF T
<1>11. CASE Head(c) = Delimiter
    <2>1. region' = <<>> /\ ~overflow' /\ Len(region') <= 1 /\ (region' \o T) \o line = g
        <3>1. region' = <<>> /\ ~overflow'
            BY <1>5, <1>11
        <3>2. <<>> \o T = T
            BY <1>1, ConcatEmptySeq
        <3>3. Len(region') = 0
            BY <3>1
        <3>4. Len(region') <= 1
            BY <3>3
        <3>5. (region' \o T) \o line = g
            BY <1>7, <3>1, <3>2
        <3> QED BY <3>1, <3>4, <3>5
    <2>2. Orderly(g, seen', d, n)
        <3>1. CASE region = <<>>
            <4>1. event' # "FrameReady" /\ seen' = seen
                <5>1. Len(<<>>) # 1
                    OBVIOUS
                <5> QED BY <1>5, <3>1, <5>1
            <4>2. region \o h = h
                BY <1>2, <3>1, ConcatEmptySeq
            <4>3. Orderly(g, seen, d \cup InTransit(h), n)
                BY <1>2, <1>7, <1>9, <4>2, FlowDropped
            <4>4. d \cup InTransit(h) = d
                BY <1>4, <1>11
            <4> QED BY <4>1, <4>3, <4>4
        <3>2. CASE Len(region) = 1 /\ region[1] \in FrameBody
            <4> DEFINE b == region[1]
                       a == region \o h
            <4>1. region # <<>> /\ region = <<b>>
                <5>1. region \in Seq(FrameBody)
                    BY DEF BufferTypes
                <5>2. region = <<>> \/ (region # <<>> /\ region = <<b>>)
                    BY <5>1, AtMostOne
                <5>3. region # <<>>
                    <6>1. SUFFICES ASSUME region = <<>> PROVE FALSE
                        OBVIOUS
                    <6>2. Len(region) = 0
                        BY <6>1
                    <6> QED BY <3>2, <6>2
                <5> QED BY <5>2, <5>3
            <4>2. event' = "FrameReady" /\ seen' = Append(seen, b.nr)
                BY <1>5, <1>11, <3>2, <4>1
            <4>3. InTransit(region) = {b.nr}
                <5>1. b \in WireByte /\ IsBody(b)
                    BY <3>2, PyDeviceAssumption DEF WireByte, IsBody
                <5> QED BY <4>1, <5>1, SingleByte
            <4>4. a \in Seq(WireByte) /\ InTransit(a) = {b.nr}
                <5>1. InTransit(a) = InTransit(region) \cup InTransit(h) /\ a \in Seq(WireByte)
                    BY <1>2, <1>3, Concatenated, ConcatLaws
                <5> QED BY <1>4, <1>11, <4>3, <5>1
            <4>5. Orderly(a \o g, seen, d, n) /\ seen \in Seq(Nat) /\ b \in FrameBody
                BY <1>9, <3>2 DEF BufferTypes
            <4> HIDE DEF a, b
            <4>6. Orderly(g, Append(seen, b.nr), d, n)
                BY <1>7, <4>4, <4>5, FlowSeen
            <4> QED BY <4>2, <4>6
        <3> QED BY <1>6, <3>1, <3>2
    <2> QED BY <2>1, <2>2 DEF T
<1> QED BY <1>10, <1>11

-----------------------------------------------------------------------------
(* What is between the line and the region: c, which is pending or what    *)
(* the one poll that has read has yet to push.                             *)
Flowing(e) == e.op = "poll" /\ e.pc = "loop"
\* A command that waits for the port: pending_ is used up.
Waiting(e) == e.op = "call" /\ e.pc = "read"

\* Only one poll has bytes to push; in its callback the region is empty.
Between(c, st, p, r) ==
    /\ \A t \in Threads : \A k \in 1 .. Len(st[t]) :
          /\ Waiting(st[t][k]) => p = <<>>
          /\ Flowing(st[t][k]) =>
                st[t][k].chunk = c /\ p = <<>> /\ k >= Len(st[t]) - 1 /\ (k < Len(st[t]) => r = <<>>)
    /\ (\A t \in Threads : \A k \in 1 .. Len(st[t]) : ~Flowing(st[t][k])) => c = p

\* Region, chunk and line make one orderly flow of bytes.
Balanced ==
    /\ Len(region) <= 1 /\ ~overflow
    /\ \E c \in Seq(WireByte) :
          /\ Between(c, stack, pending, region)
          /\ Orderly((region \o c) \o line, seen, discarded, sent)

\* The flow is orderly under sequential use.
Accounted == ~overlapped /\ ~nestedInPoll => Balanced

\* Only t has anything on its stack.
Only(t) == \A u \in Threads \ {t} : stack[u] = <<>>

(* What is on the stacks after a step of the only active thread.           *)
LEMMA AfterStep ==
    ASSUME TypeInv, NEW t \in Threads, Only(t), NEW n, NEW new, Len(new) \in Nat, Stacked(t, n, new),
           NEW u \in Threads, NEW k \in 1 .. Len(stack'[u])
    PROVE  /\ u = t
           /\ \/ k \in 1 .. n /\ k \in 1 .. Len(stack[t]) /\ Kept(stack[t][k], stack'[u][k])
              \/ \E j \in 1 .. Len(new) : k = n + j /\ stack'[u][k] = new[j]
<1>1. /\ n \in 0 .. Len(stack[t]) /\ Len(stack[t]) \in Nat /\ Len(stack'[t]) = n + Len(new)
      /\ \A i \in 1 .. n : Kept(stack[t][i], stack'[t][i])
      /\ \A i \in 1 .. Len(new) : stack'[t][n + i] = new[i]
      /\ \A v \in Threads \ {t} : Len(stack'[v]) = Len(stack[v])
    BY OnStack DEF Stacked, TypeInv, StackTypes
<1>2. u = t
    <2>1. SUFFICES ASSUME u # t PROVE FALSE
        OBVIOUS
    <2>2. stack[u] = <<>>
        BY <2>1 DEF Only
    <2>3. Len(stack[u]) = 0 /\ Len(stack'[u]) = Len(stack[u])
        BY <1>1, <2>1, <2>2
    <2> QED BY <2>3
<1>3. CASE k <= n
    <2>1. k \in 1 .. n /\ k \in 1 .. Len(stack[t])
        BY <1>1, <1>3
    <2> QED BY <1>1, <1>2, <2>1
<1>4. CASE k > n
    <2>1. k \in 1 .. n + Len(new) /\ n \in Nat
        BY <1>1, <1>2
    <2>2. k - n \in 1 .. Len(new) /\ k = n + (k - n)
        BY <1>4, <2>1
    <2>3. stack'[t][n + (k - n)] = new[k - n]
        BY <1>1, <2>2
    <2> QED BY <1>2, <2>2, <2>3
<1> QED BY <1>1, <1>3, <1>4

(* No poll has read: what is between is what is pending.                   *)
LEMMA BetweenPending ==
    ASSUME TypeInv, NEW t \in Threads, Only(t), NEW n, NEW new, Len(new) \in Nat, Stacked(t, n, new),
           \A k \in 1 .. n : ~Flowing(stack[t][k]) /\ (Waiting(stack[t][k]) => pending' = <<>>),
           \A j \in 1 .. Len(new) : ~Flowing(new[j]) /\ (Waiting(new[j]) => pending' = <<>>)
    PROVE  Between(pending', stack', pending', region')
<1>1. ASSUME NEW u \in Threads, NEW k \in 1 .. Len(stack'[u])
      PROVE  ~Flowing(stack'[u][k]) /\ (Waiting(stack'[u][k]) => pending' = <<>>)
    <2>1. CASE k \in 1 .. n /\ Kept(stack[t][k], stack'[u][k])
        BY <2>1 DEF Kept, Flowing, Waiting
    <2>2. CASE \E j \in 1 .. Len(new) : stack'[u][k] = new[j]
        BY <2>2
    <2> QED BY <2>1, <2>2, AfterStep
<1> QED BY <1>1 DEF Between

(* One poll has read.                                                      *)
LEMMA BetweenChunk ==
    ASSUME TypeInv, NEW t \in Threads, Only(t), NEW n, NEW new, Len(new) \in Nat, Stacked(t, n, new),
           \A k \in 1 .. n : ~Flowing(stack[t][k]),
           Len(new) \in {1, 2}, Flowing(new[1]), pending' = <<>>,
           Len(new) = 2 => ~Flowing(new[2]) /\ region' = <<>>
    PROVE  Between(new[1].chunk, stack', pending', region')
<1>1. ASSUME NEW u \in Threads, NEW k \in 1 .. Len(stack'[u]), Flowing(stack'[u][k])
      PROVE  /\ stack'[u][k].chunk = new[1].chunk /\ k >= Len(stack'[u]) - 1
             /\ k < Len(stack'[u]) => region' = <<>>
    <2>0. u = t
        BY AfterStep
    <2>1. n \in Nat /\ Len(stack'[u]) = n + Len(new)
        BY <2>0, OnStack DEF Stacked, TypeInv, StackTypes
    <2>2. CASE k \in 1 .. n /\ Kept(stack[t][k], stack'[u][k])
        BY <1>1, <2>2 DEF Kept, Flowing
    <2>3. ASSUME NEW j \in 1 .. Len(new), k = n + j, stack'[u][k] = new[j]
          PROVE  /\ stack'[u][k].chunk = new[1].chunk /\ k >= Len(stack'[u]) - 1
                 /\ k < Len(stack'[u]) => region' = <<>>
        <3>1. j = 1 \/ (j = 2 /\ Len(new) = 2)
            <4> DEFINE m == Len(new)
            <4>1. m \in {1, 2} /\ j \in 1 .. m
                OBVIOUS
            <4> HIDE DEF m
            <4>2. j = 1 \/ (j = 2 /\ m = 2)
                BY <4>1
            <4> QED BY <4>2 DEF m
        <3>2. j = 1
            BY <1>1, <2>3, <3>1
        <3>3. k >= Len(stack'[u]) - 1 /\ (k < Len(stack'[u]) => Len(new) = 2)
            <4> DEFINE m == Len(new)
                       l == Len(stack'[u])
            <4>1. m \in {1, 2} /\ l = n + m /\ k = n + 1
                BY <2>1, <2>3, <3>2
            <4> HIDE DEF m, l
            <4>2. k >= l - 1 /\ (k < l => m = 2)
                BY <2>1, <4>1
            <4> QED BY <4>2 DEF m, l
        <3> QED BY <2>3, <3>2, <3>3
    <2> QED BY <2>2, <2>3, AfterStep
<1>2. t \in Threads /\ n + 1 \in 1 .. Len(stack'[t]) /\ stack'[t][n + 1] = new[1]
    <2>1. n \in Nat /\ 1 \in 1 .. Len(new)
        BY OnStack DEF Stacked, TypeInv, StackTypes
    <2> QED BY <2>1 DEF Stacked
<1> QED BY <1>1, <1>2 DEF Between

(* A callback of the poll returns.                                         *)
LEMMA BetweenReturned ==
    ASSUME TypeInv, NEW t \in Threads, Only(t), NEW c, Between(c, stack, pending, region),
           stack[t] # <<>>, Stacked(t, Len(stack[t]) - 1, <<>>),
           NEW i \in 1 .. Len(stack[t]) - 1, Flowing(stack[t][i]), UNCHANGED pending
    PROVE  Between(c, stack', pending', region')
<1> DEFINE new == <<>>
           n == Len(stack[t]) - 1
<1>1. Len(new) = 0 /\ n \in Nat /\ Len(stack[t]) = n + 1 /\ Stacked(t, n, new)
    BY OnStack DEF TypeInv, StackTypes
<1>2. i \in 1 .. n /\ i \in 1 .. Len(stack[t])
    BY <1>1
<1> HIDE DEF n, new
<1>3. pending = <<>>
    BY <1>2 DEF Between
<1>4. Len(stack'[t]) = n /\ \A k \in 1 .. n : Kept(stack[t][k], stack'[t][k])
    BY <1>1 DEF Stacked
<1>5. ASSUME NEW u \in Threads, NEW k \in 1 .. Len(stack'[u]), Flowing(stack'[u][k])
      PROVE  stack'[u][k].chunk = c /\ k >= Len(stack'[u]) - 1 /\ ~(k < Len(stack'[u]))
    <2>1. u = t /\ k \in 1 .. Len(stack[t]) /\ Kept(stack[t][k], stack'[u][k])
        <3>1. ~\E j \in 1 .. Len(new) : k = n + j
            BY <1>1
        <3>2. Len(new) \in Nat
            BY <1>1
        <3> QED BY <1>1, <3>1, <3>2, AfterStep
    <2>2. Flowing(stack[t][k]) /\ stack'[u][k].chunk = stack[t][k].chunk
        BY <1>5, <2>1 DEF Kept, Flowing
    <2>3. stack[t][k].chunk = c /\ k >= Len(stack[t]) - 1
        BY <2>1, <2>2 DEF Between
    <2> QED BY <1>1, <1>4, <2>1, <2>2, <2>3
<1>6. i \in 1 .. Len(stack'[t]) /\ Flowing(stack'[t][i])
    BY <1>2, <1>4 DEF Kept, Flowing
<1> QED BY <1>3, <1>5, <1>6 DEF Between

(* What the top of the active stack tells of what is between.              *)
LEMMA BetweenTop ==
    ASSUME TypeInv, NEW t \in Threads, Only(t), NEW c, Between(c, stack, pending, region), stack[t] # <<>>
    PROVE  /\ \A k \in 1 .. Len(stack[t]) : Waiting(stack[t][k]) => k = Len(stack[t]) /\ pending = <<>>
           /\ ~Flowing(Top(t)) /\ Top(t).op # "callback" =>
                 c = pending /\ \A k \in 1 .. Len(stack[t]) : ~Flowing(stack[t][k])
           /\ Top(t).op # "callback" => \A k \in 1 .. Len(stack[t]) - 1 : ~Flowing(stack[t][k])
           /\ Flowing(Top(t)) => c = Top(t).chunk /\ pending = <<>>
           /\ Top(t).op = "callback" =>
                 \/ c = pending /\ \A k \in 1 .. Len(stack[t]) : ~Flowing(stack[t][k])
                 \/ LET n == Len(stack[t]) - 1
                    IN  /\ n \in 1 .. Len(stack[t]) - 1 /\ Flowing(stack[t][n]) /\ c = stack[t][n].chunk
                        /\ pending = <<>> /\ region = <<>>
                        /\ \A k \in 1 .. n - 1 : ~Flowing(stack[t][k])
<1> DEFINE l == Len(stack[t])
<1>1. l \in Nat \ {0} /\ Top(t) = stack[t][l]
    BY TopLaws DEF TypeInv
<1>2. \A k \in 1 .. l - 1 : Follows(stack[t][k], stack[t][k + 1])
    BY DEF TypeInv, StackTypes, Proper
<1>3. \A k \in 1 .. l :
          /\ Waiting(stack[t][k]) => pending = <<>>
          /\ Flowing(stack[t][k]) =>
                stack[t][k].chunk = c /\ pending = <<>> /\ k >= l - 1 /\ (k < l => region = <<>>)
    BY DEF Between
<1>4. (\A k \in 1 .. l : ~Flowing(stack[t][k])) => c = pending
    <2>1. SUFFICES ASSUME \A k \in 1 .. l : ~Flowing(stack[t][k])
                   PROVE  \A u \in Threads : \A k \in 1 .. Len(stack[u]) : ~Flowing(stack[u][k])
        BY DEF Between
    <2>2. TAKE u \in Threads
    <2>3. CASE u = t
        BY <2>1, <2>3
    <2>4. CASE u # t
        <3>1. Len(stack[u]) = 0
            BY <2>4 DEF Only
        <3> QED BY <3>1
    <2> QED BY <2>3, <2>4
<1>5. ASSUME NEW k \in 1 .. l, Waiting(stack[t][k]) PROVE k = l
    BY <1>5, ReadOnTop DEF Waiting
<1> HIDE DEF l
<1>6. ASSUME NEW k \in 1 .. l, Flowing(stack[t][k]) PROVE k = l \/ (k = l - 1 /\ Top(t).op = "callback")
    <2>1. SUFFICES ASSUME k # l PROVE k = l - 1 /\ Top(t).op = "callback"
        OBVIOUS
    <2>2. k = l - 1 /\ k \in 1 .. l - 1 /\ k + 1 = l
        BY <1>1, <1>3, <1>6, <2>1
    <2>3. Follows(stack[t][k], Top(t))
        BY <1>1, <1>2, <2>2
    <2> QED BY <1>6, <2>2, <2>3 DEF Follows, Flowing
<1>7. l \in 1 .. l
    BY <1>1
<1>8. ASSUME ~Flowing(Top(t)), Top(t).op # "callback"
      PROVE  c = pending /\ \A k \in 1 .. l : ~Flowing(stack[t][k])
    BY <1>1, <1>4, <1>6, <1>8
<1>9. ASSUME Top(t).op # "callback", NEW k \in 1 .. l - 1 PROVE ~Flowing(stack[t][k])
    <2>1. k \in 1 .. l /\ k # l
        BY <1>1
    <2> QED BY <1>6, <1>9, <2>1
<1>10. Flowing(Top(t)) => c = Top(t).chunk /\ pending = <<>>
    BY <1>1, <1>3, <1>7
<1>11. ASSUME Top(t).op = "callback"
       PROVE  \/ c = pending /\ \A k \in 1 .. l : ~Flowing(stack[t][k])
              \/ /\ l - 1 \in 1 .. l - 1 /\ Flowing(stack[t][l - 1]) /\ c = stack[t][l - 1].chunk
                 /\ pending = <<>> /\ region = <<>>
                 /\ \A k \in 1 .. (l - 1) - 1 : ~Flowing(stack[t][k])
    <2>1. CASE \A k \in 1 .. l : ~Flowing(stack[t][k])
        BY <1>4, <2>1
    <2>2. CASE ~\A k \in 1 .. l : ~Flowing(stack[t][k])
        <3>1. PICK k \in 1 .. l : Flowing(stack[t][k])
            BY <2>2
        <3>2. k # l
            BY <1>1, <1>11, <3>1 DEF Flowing
        <3>3. k = l - 1 /\ k < l /\ l - 1 \in 1 .. l - 1
            BY <1>1, <1>6, <3>1, <3>2
        <3>4. stack[t][k].chunk = c /\ pending = <<>> /\ region = <<>>
            BY <1>3, <3>1, <3>3
        <3>5. ASSUME NEW i \in 1 .. (l - 1) - 1 PROVE ~Flowing(stack[t][i])
            <4>1. i \in 1 .. l /\ i # l /\ i # l - 1
                BY <1>1
            <4> QED BY <1>6, <4>1
        <3> QED BY <3>1, <3>3, <3>4, <3>5
    <2> QED BY <2>1, <2>2
<1> QED BY <1>3, <1>5, <1>8, <1>9, <1>10, <1>11 DEF l

(* The forms in which a step moves what is between.                        *)
LEMMA BetweenForms ==
    ASSUME TypeInv, NEW t \in Threads, Only(t), NEW c, Between(c, stack, pending, region), stack[t] # <<>>
    PROVE  /\ \A n : Stacked(t, n, <<>>) /\ n < Len(stack[t]) /\ (\A k \in 1 .. n : ~Flowing(stack[t][k]))
                 => Between(pending', stack', pending', region')
           /\ \A e : /\ Stacked(t, Len(stack[t]) - 1, <<e>>) /\ ~Flowing(e)
                     /\ Top(t).op # "callback" /\ (Waiting(e) => pending' = <<>>)
                 => Between(pending', stack', pending', region')
           /\ Stacked(t, Len(stack[t]), <<Callback>>) /\ ~Flowing(Top(t)) /\ ~Waiting(Top(t))
              /\ Top(t).op # "callback"
                 => Between(pending', stack', pending', region')
           /\ \A e : /\ Stacked(t, Len(stack[t]) - 1, <<e>>) /\ Flowing(e)
                     /\ Top(t).op # "callback" /\ pending' = <<>>
                 => Between(e.chunk, stack', pending', region')
           /\ \A e : /\ Stacked(t, Len(stack[t]) - 1, <<e, Callback>>) /\ Flowing(e)
                     /\ Top(t).op # "callback" /\ pending' = <<>> /\ region' = <<>>
                 => Between(e.chunk, stack', pending', region')
<1> DEFINE l == Len(stack[t])
           m == l - 1
<1>1. l \in Nat \ {0} /\ m \in Nat /\ m < l /\ Top(t) = stack[t][l]
    BY TopLaws DEF TypeInv
<1>2. \A k \in 1 .. l : Waiting(stack[t][k]) => k = l
    BY BetweenTop
<1>3. Top(t).op # "callback" => \A k \in 1 .. m : ~Flowing(stack[t][k])
    BY BetweenTop
<1>4. ~Flowing(Callback) /\ ~Waiting(Callback)
    BY DEF Flowing, Waiting, Callback
<1>5. \A n : Stacked(t, n, <<>>) => n \in 0 .. l
    BY DEF Stacked
<1>6. ASSUME NEW n, Stacked(t, n, <<>>), n < l, \A k \in 1 .. n : ~Flowing(stack[t][k])
      PROVE  Between(pending', stack', pending', region')
    <2> DEFINE new == <<>>
    <2>1. Len(new) = 0 /\ Stacked(t, n, new)
        BY <1>6
    <2>2. n \in 0 .. l
        BY <1>5, <1>6
    <2> HIDE DEF new, l
    <2>3. \A k \in 1 .. n : k \in 1 .. l /\ k # l
        BY <1>1, <1>6, <2>2
    <2>4. \A k \in 1 .. n : ~Waiting(stack[t][k])
        BY <1>2, <2>3
    <2>5. Len(new) \in Nat /\ \A j \in 1 .. Len(new) : ~Flowing(new[j]) /\ (Waiting(new[j]) => pending' = <<>>)
        BY <2>1
    <2> QED BY <1>6, <2>1, <2>4, <2>5, BetweenPending
<1>7. ASSUME NEW e, Stacked(t, m, <<e>>), ~Flowing(e), Top(t).op # "callback", Waiting(e) => pending' = <<>>
      PROVE  Between(pending', stack', pending', region')
    <2> DEFINE new == <<e>>
    <2>1. Len(new) = 1 /\ new[1] = e /\ Stacked(t, m, new)
        BY <1>7
    <2> HIDE DEF new, m, l
    <2>2. \A k \in 1 .. m : k \in 1 .. l /\ k # l
        BY <1>1
    <2>3. \A k \in 1 .. m : ~Waiting(stack[t][k]) /\ ~Flowing(stack[t][k])
        BY <1>2, <1>3, <1>7, <2>2
    <2>4. Len(new) \in Nat /\ \A j \in 1 .. Len(new) : ~Flowing(new[j]) /\ (Waiting(new[j]) => pending' = <<>>)
        BY <1>7, <2>1
    <2> QED BY <2>1, <2>3, <2>4, BetweenPending
<1>8. ASSUME Stacked(t, l, <<Callback>>), ~Flowing(Top(t)), ~Waiting(Top(t)), Top(t).op # "callback"
      PROVE  Between(pending', stack', pending', region')
    <2> DEFINE new == <<Callback>>
    <2>1. Len(new) = 1 /\ new[1] = Callback /\ Stacked(t, l, new)
        BY <1>8
    <2>2. \A k \in 1 .. l : ~Flowing(stack[t][k])
        BY <1>8, BetweenTop
    <2> HIDE DEF new, l
    <2>3. \A k \in 1 .. l : ~Waiting(stack[t][k])
        BY <1>1, <1>2, <1>8
    <2>4. Len(new) \in Nat /\ \A j \in 1 .. Len(new) : ~Flowing(new[j]) /\ (Waiting(new[j]) => pending' = <<>>)
        BY <1>4, <2>1
    <2> QED BY <2>1, <2>2, <2>3, <2>4, BetweenPending
<1>9. ASSUME NEW e, Stacked(t, m, <<e>>), Flowing(e), Top(t).op # "callback", pending' = <<>>
      PROVE  Between(e.chunk, stack', pending', region')
    <2> DEFINE new == <<e>>
    <2>1. Len(new) = 1 /\ new[1] = e /\ Stacked(t, m, new)
        BY <1>9
    <2> HIDE DEF new, m, l
    <2>2. Len(new) \in Nat /\ Len(new) \in {1, 2} /\ Len(new) # 2
        BY <2>1
    <2>3. Between(new[1].chunk, stack', pending', region')
        BY <1>3, <1>9, <2>1, <2>2, BetweenChunk
    <2> QED BY <2>1, <2>3
<1>10. ASSUME NEW e, Stacked(t, m, <<e, Callback>>), Flowing(e), Top(t).op # "callback",
              pending' = <<>>, region' = <<>>
       PROVE  Between(e.chunk, stack', pending', region')
    <2> DEFINE new == <<e, Callback>>
    <2>1. Len(new) = 2 /\ new[1] = e /\ new[2] = Callback /\ Stacked(t, m, new)
        BY <1>10
    <2> HIDE DEF new, m, l
    <2>2. Len(new) \in Nat /\ Len(new) \in {1, 2}
        BY <2>1
    <2>3. Between(new[1].chunk, stack', pending', region')
        BY <1>3, <1>4, <1>10, <2>1, <2>2, BetweenChunk
    <2> QED BY <2>1, <2>3
<1> QED BY <1>6, <1>7, <1>8, <1>9, <1>10 DEF l, m

(* The steps of a call that take no byte: a read puts bytes of the line    *)
(* where nothing was pending.                                              *)
LEMMA BalancedCall ==
    ASSUME TypeInv, TypeInv', Balanced, NEW t \in Threads, Only(t),
           SendCommand(t) \/ EnterAwait(t) \/ BeginRead(t) \/ AwaitRead(t) \/ AwaitTimeout(t)
    PROVE  Balanced'
<1>1. PICK c \in Seq(WireByte) : /\ Between(c, stack, pending, region)
                                 /\ Orderly((region \o c) \o line, seen, discarded, sent)
    BY DEF Balanced
<1>2. stack[t] # <<>> /\ Top(t).op = "call" /\ Top(t) \in Op
    BY GoOnStack, TopLaws DEF TypeInv
<1>3. c = pending /\ ~Flowing(Top(t)) /\ Top(t).op # "callback"
    BY <1>1, <1>2, BetweenTop DEF Flowing
<1>4. UNCHANGED <<region, overflow, seen, discarded, sent>>
    BY DEF SendCommand, EnterAwait, BeginRead, AwaitRead, AwaitTimeout, readerVars, portVars, historyVars
<1>5. \A pc : LET e == [Top(t) EXCEPT !.pc = pc] IN ~Flowing(e) /\ (Waiting(e) => pc = "read")
    BY <1>2 DEF Flowing, Waiting, Op
<1>6. ASSUME Between(pending', stack', pending', region'), UNCHANGED <<pending, line>> PROVE Balanced'
    <2>1. Orderly((region' \o pending') \o line', seen', discarded', sent')
        BY <1>1, <1>3, <1>4, <1>6
    <2>2. pending' \in Seq(WireByte)
        BY DEF TypeInv, BufferTypes
    <2> QED BY <1>4, <1>6, <2>1, <2>2 DEF Balanced
<1>7. CASE SendCommand(t) \/ EnterAwait(t)
    <2>1. \E pc \in {"await", "loop"} : Stacked(t, Len(stack[t]) - 1, <<[Top(t) EXCEPT !.pc = pc]>>)
        BY <1>7, GoOnStack
    <2>2. Between(pending', stack', pending', region')
        BY <1>1, <1>2, <1>3, <1>5, <2>1, BetweenForms
    <2> QED BY <1>6, <1>7, <2>2 DEF SendCommand, EnterAwait, portVars
<1>8. CASE BeginRead(t)
    <2>1. Stacked(t, Len(stack[t]) - 1, <<[Top(t) EXCEPT !.pc = "read"]>>) /\ pending' = <<>>
        BY <1>8, GoOnStack DEF BeginRead
    <2>2. Between(pending', stack', pending', region')
        BY <1>1, <1>2, <1>3, <1>5, <2>1, BetweenForms
    <2> QED BY <1>6, <1>8, <2>2 DEF BeginRead, portVars
<1>9. ASSUME AwaitRead(t) \/ AwaitTimeout(t) PROVE pending = <<>>
    <2>1. Waiting(Top(t))
        BY <1>9 DEF AwaitRead, AwaitTimeout, In, Waiting
    <2>2. Top(t) = stack[t][Len(stack[t])] /\ Len(stack[t]) \in 1 .. Len(stack[t])
        BY <1>2, TopLaws DEF TypeInv
    <2> QED BY <1>1, <1>2, <2>1, <2>2, BetweenTop
<1>10. CASE AwaitRead(t)
    <2>1. PICK i \in 1 .. Len(line) : line' = SubSeq(line, i + 1, Len(line)) /\ pending' = SubSeq(line, 1, i)
        BY <1>10 DEF AwaitRead, TakeFromLine
    <2>2. Stacked(t, Len(stack[t]) - 1, <<[Top(t) EXCEPT !.pc = "loop"]>>)
        BY <1>10, GoOnStack
    <2>3. Between(pending', stack', pending', region')
        BY <1>1, <1>2, <1>3, <1>5, <2>2, BetweenForms
    <2>4. (region \o c) \o line = (region' \o pending') \o line'
        <3>1. region \in Seq(WireByte) /\ line \in Seq(WireByte)
            BY DEF TypeInv, BufferTypes, WireByte
        <3>2. region \o c = region
            BY <1>3, <1>9, <1>10, <3>1, ConcatEmptySeq
        <3>3. i \in 0 .. Len(line)
            BY <2>1
        <3>4. pending' \in Seq(WireByte) /\ line' \in Seq(WireByte) /\ line = pending' \o line'
            BY <2>1, <3>1, <3>3, ComesOff
        <3>5. region \o (pending' \o line') = (region \o pending') \o line'
            <4>1. region \in Seq(WireByte) /\ pending' \in Seq(WireByte) /\ line' \in Seq(WireByte)
                BY <3>1, <3>4
            <4> QED BY <4>1, Grouped
        <3> QED BY <1>4, <3>2, <3>4, <3>5
    <2>5. pending' \in Seq(WireByte)
        BY DEF TypeInv, BufferTypes
    <2>6. Orderly((region' \o pending') \o line', seen', discarded', sent')
        BY <1>1, <1>4, <2>4
    <2> QED BY <1>4, <2>3, <2>5, <2>6 DEF Balanced
<1>11. CASE AwaitTimeout(t)
    <2>1. Stacked(t, Len(stack[t]) - 1, <<>>) /\ UNCHANGED <<pending, line>>
        BY <1>9, <1>11, GoOnStack DEF AwaitTimeout, portVars
    <2>2. /\ Len(stack[t]) - 1 < Len(stack[t])
          /\ \A k \in 1 .. Len(stack[t]) - 1 : ~Flowing(stack[t][k])
        BY <1>1, <1>2, <1>3, TopLaws, BetweenTop DEF TypeInv
    <2>3. Between(pending', stack', pending', region')
        BY <1>1, <1>2, <2>1, <2>2, BetweenForms
    <2> QED BY <1>6, <2>1, <2>3
<1> QED BY <1>7, <1>8, <1>10, <1>11

(* await_reply takes a byte of what is pending.                            *)
LEMMA BalancedAwaitByte ==
    ASSUME TypeInv, TypeInv', Balanced, NEW t \in Threads, Only(t), AwaitByte(t)
    PROVE  Balanced'
<1>1. PICK c \in Seq(WireByte) : /\ Between(c, stack, pending, region)
                                 /\ Orderly((region \o c) \o line, seen, discarded, sent)
    BY DEF Balanced
<1>2. stack[t] # <<>> /\ Top(t).op = "call" /\ Top(t).pc = "loop"
    BY AwaitByteStack
<1>3. c = pending /\ ~Flowing(Top(t)) /\ ~Waiting(Top(t)) /\ Top(t).op # "callback"
    BY <1>1, <1>2, BetweenTop DEF Flowing, Waiting
<1>4. /\ pending # <<>> /\ PushByte(Head(pending)) /\ pending' = Tail(pending)
      /\ UNCHANGED <<line, discarded, sent>>
    BY DEF AwaitByte, portVars
<1>5. /\ Len(region') <= 1 /\ ~overflow'
      /\ Orderly((region' \o pending') \o line', seen', discarded', sent')
    <2>1. BufferTypes /\ Len(region) <= 1 /\ ~overflow
        BY DEF TypeInv, Balanced
    <2>2. /\ Len(region') <= 1 /\ ~overflow'
          /\ Orderly((region' \o Tail(c)) \o line, seen', discarded, sent)
        BY <1>1, <1>3, <1>4, <2>1, FlowPush
    <2> QED BY <1>3, <1>4, <2>2
<1>6. Between(pending', stack', pending', region')
    <2>1. CASE Stacked(t, Len(stack[t]), <<Callback>>)
        BY <1>1, <1>2, <1>3, <2>1, BetweenForms
    <2>2. CASE Stacked(t, Len(stack[t]) - 1, <<>>)
        <3>1. /\ Len(stack[t]) - 1 < Len(stack[t])
              /\ \A k \in 1 .. Len(stack[t]) - 1 : ~Flowing(stack[t][k])
            BY <1>1, <1>2, <1>3, TopLaws, BetweenTop DEF TypeInv
        <3> QED BY <1>1, <1>2, <2>2, <3>1, BetweenForms
    <2>3. CASE UNCHANGED stack
        <3> DEFINE new == <<>>
        <3>1. Len(new) = 0 /\ Len(new) \in Nat
            OBVIOUS
        <3>2. Stacked(t, Len(stack[t]), new)
            BY <2>3, StackedSame DEF TypeInv, StackTypes
        <3> HIDE DEF new
        <3>3. \A k \in 1 .. Len(stack[t]) : ~Flowing(stack[t][k]) /\ ~Waiting(stack[t][k])
            BY <1>1, <1>2, <1>3, <1>4, BetweenTop
        <3>4. \A j \in 1 .. Len(new) : ~Flowing(new[j]) /\ (Waiting(new[j]) => pending' = <<>>)
            BY <3>1
        <3> QED BY <3>1, <3>2, <3>3, <3>4, BetweenPending
    <2> QED BY <2>1, <2>2, <2>3, AwaitByteStack
<1>7. pending' \in Seq(WireByte)
    BY DEF TypeInv, BufferTypes
<1> QED BY <1>5, <1>6, <1>7 DEF Balanced

(* poll's read appends to what was pending; its loop takes a byte.         *)
LEMMA BalancedPoll ==
    ASSUME TypeInv, TypeInv', Balanced, Copies, ~overlapped, NEW t \in Threads, Only(t),
           PollRead(t) \/ PollByte(t)
    PROVE  Balanced'
<1>1. PICK c \in Seq(WireByte) : /\ Between(c, stack, pending, region)
                                 /\ Orderly((region \o c) \o line, seen, discarded, sent)
    BY DEF Balanced
<1>2. stack[t] # <<>> /\ Top(t).op = "poll" /\ Top(t) \in Op /\ Top(t).op # "callback"
    BY PollReadStack, PollByteStack, TopLaws DEF TypeInv
<1>3. CASE PollRead(t)
    <2>1. PICK i \in 0 .. Len(line) :
              /\ line' = SubSeq(line, i + 1, Len(line))
              /\ Stacked(t, Len(stack[t]) - 1,
                         <<[Top(t) EXCEPT !.pc = "loop", !.chunk = Rest(t) \o SubSeq(line, 1, i)]>>)
        BY <1>3, PollReadStack
    <2> DEFINE e == [Top(t) EXCEPT !.pc = "loop", !.chunk = Rest(t) \o SubSeq(line, 1, i)]
               x == SubSeq(line, 1, i)
    <2>2. Flowing(e) /\ e.chunk = pending \o x
        BY <1>2, <1>3, RestIsPending DEF Op, Flowing
    <2>3. Stacked(t, Len(stack[t]) - 1, <<e>>)
        BY <2>1
    <2>4. /\ pending' = <<>>
          /\ UNCHANGED <<region, overflow, seen, discarded, sent>>
        BY <1>3 DEF PollRead, readerVars, historyVars
    <2>5. c = pending
        <3>1. ~Flowing(Top(t))
            BY <1>3 DEF PollRead, In, Flowing
        <3> QED BY <1>1, <1>2, <3>1, BetweenTop
    <2>6. region \in Seq(WireByte) /\ pending \in Seq(WireByte) /\ line \in Seq(WireByte)
        BY DEF TypeInv, BufferTypes, WireByte
    <2>7. x \in Seq(WireByte) /\ line' \in Seq(WireByte) /\ line = x \o line'
        BY <2>1, <2>6, ComesOff
    <2> HIDE DEF e, x
    <2>8. Between(e.chunk, stack', pending', region')
        BY <1>1, <1>2, <2>2, <2>3, <2>4, BetweenForms
    <2>9. pending \o x \in Seq(WireByte) /\ region \o pending \in Seq(WireByte)
        BY <2>6, <2>7, ConcatLaws
    <2>10. (region \o pending) \o line = (region \o (pending \o x)) \o line'
        <3>1. (region \o pending) \o (x \o line') = ((region \o pending) \o x) \o line'
            <4>1. /\ (region \o pending) \in Seq(WireByte)
                  /\ x \in Seq(WireByte) /\ line' \in Seq(WireByte)
                BY <2>7, <2>9
            <4> QED BY <4>1, Grouped
        <3>2. (region \o pending) \o x = region \o (pending \o x)
            <4>1. region \in Seq(WireByte) /\ pending \in Seq(WireByte) /\ x \in Seq(WireByte)
                BY <2>6, <2>7
            <4> QED BY <4>1, Grouped
        <3> QED BY <2>7, <3>1, <3>2
    <2>11. Orderly((region' \o e.chunk) \o line', seen', discarded', sent')
        BY <1>1, <2>2, <2>4, <2>5, <2>10
    <2>12. Len(region') <= 1 /\ ~overflow' /\ e.chunk \in Seq(WireByte)
        BY <2>2, <2>4, <2>9 DEF Balanced
    <2> QED BY <2>8, <2>11, <2>12 DEF Balanced
<1>4. CASE PollByte(t)
    <2> DEFINE e == [Top(t) EXCEPT !.chunk = Tail(@)]
    <2>1. /\ Top(t).pc = "loop" /\ Top(t).chunk \in Seq(WireByte) /\ Top(t).chunk # <<>>
          /\ \/ Stacked(t, Len(stack[t]) - 1, <<e>>)
             \/ Stacked(t, Len(stack[t]) - 1, <<e, Callback>>) /\ event' = "FrameReady"
        BY <1>4, PollByteStack
    <2>2. Flowing(Top(t)) /\ Flowing(e) /\ e.chunk = Tail(Top(t).chunk)
        BY <1>2, <2>1 DEF Op, Flowing
    <2>3. c = Top(t).chunk /\ pending = <<>>
        BY <1>1, <1>2, <2>2, BetweenTop
    <2>4. PushByte(Head(c)) /\ UNCHANGED <<pending, line, discarded, sent>>
        BY <1>4, <2>3 DEF PollByte, portVars
    <2> HIDE DEF e
    <2>5. BufferTypes /\ Len(region) <= 1 /\ ~overflow
        BY DEF TypeInv, Balanced
    <2>6. /\ Len(region') <= 1 /\ ~overflow'
          /\ Orderly((region' \o Tail(c)) \o line, seen', discarded, sent)
          /\ event' = "FrameReady" => region' = <<>>
        BY <1>1, <2>1, <2>3, <2>4, <2>5, FlowPush
    <2>7. Between(e.chunk, stack', pending', region')
        BY <1>1, <1>2, <2>1, <2>2, <2>3, <2>4, <2>6, BetweenForms
    <2>8. e.chunk = Tail(c) /\ Tail(c) \in Seq(WireByte)
        BY <2>1, <2>2, <2>3, ComesOff
    <2>9. Orderly((region' \o e.chunk) \o line', seen', discarded', sent')
        BY <2>4, <2>6, <2>8
    <2> QED BY <2>6, <2>7, <2>8, <2>9 DEF Balanced
<1> QED BY <1>3, <1>4

(* The process ends while no poll has bytes to push.                       *)
LEMMA BalancedGone ==
    ASSUME TypeInv, TypeInv', stack' = [u \in Threads |-> <<>>], Len(region) <= 1, ~overflow,
           Orderly((region \o pending) \o line, seen, discarded, sent),
           UNCHANGED <<region, overflow, pending, line, seen, discarded, sent>>
    PROVE  Balanced'
<1>1. \A u \in Threads : Len(stack'[u]) = 0
    BY EmptiedStacks
<1>2. Between(pending', stack', pending', region')
    BY <1>1 DEF Between
<1>3. Orderly((region' \o pending') \o line', seen', discarded', sent') /\ Len(region') <= 1 /\ ~overflow'
    OBVIOUS
<1>4. pending' \in Seq(WireByte)
    BY DEF TypeInv, BufferTypes
<1> QED BY <1>2, <1>3, <1>4 DEF Balanced

(* Polls and callbacks return, callbacks and the port raise.               *)
LEMMA BalancedReturn ==
    ASSUME TypeInv, TypeInv', Balanced, NEW t \in Threads, Only(t),
           PollReturns(t) \/ CallbackReturns(t) \/ CallbackRaises(t) \/ PortRaises(t)
    PROVE  Balanced'
<1>1. PICK c \in Seq(WireByte) : /\ Between(c, stack, pending, region)
                                 /\ Orderly((region \o c) \o line, seen, discarded, sent)
    BY DEF Balanced
<1>2. UNCHANGED <<region, overflow, pending, line, seen, sent>> /\ stack[t] # <<>>
    BY DEF PollReturns, CallbackReturns, CallbackRaises, PortRaises, readerVars, portVars, historyVars, In
<1> DEFINE n == Len(stack[t]) - 1
<1>3. /\ n \in Nat /\ n < Len(stack[t]) /\ Len(stack[t]) = n + 1 /\ n - 1 < Len(stack[t])
      /\ Top(t) = stack[t][Len(stack[t])] /\ Top(t) \in Op /\ Lawful(Top(t))
    BY <1>2, TopLaws DEF TypeInv
<1>4. Len(region') <= 1 /\ ~overflow' /\ pending' \in Seq(WireByte) /\ line \in Seq(WireByte)
    BY <1>2 DEF Balanced, TypeInv, BufferTypes
<1>5. ASSUME Between(pending', stack', pending', region'), c = pending, UNCHANGED discarded PROVE Balanced'
    <2>1. Orderly((region' \o pending') \o line', seen', discarded', sent')
        BY <1>1, <1>2, <1>5
    <2> QED BY <1>4, <1>5, <2>1 DEF Balanced
<1>6. CASE PollReturns(t)
    <2>1. Flowing(Top(t)) /\ Top(t).chunk = <<>> /\ Top(t).op # "callback" /\ UNCHANGED discarded
        BY <1>6 DEF PollReturns, In, Flowing, historyVars
    <2>2. c = pending /\ \A k \in 1 .. Len(stack[t]) - 1 : ~Flowing(stack[t][k])
        BY <1>1, <1>2, <2>1, BetweenTop
    <2>3. Between(pending', stack', pending', region')
        BY <1>1, <1>2, <1>3, <1>6, <2>2, ReturnStack, BetweenForms
    <2> QED BY <1>5, <2>1, <2>2, <2>3
<1>7. CASE CallbackReturns(t)
    <2>1. Top(t).op = "callback" /\ UNCHANGED <<discarded, pending>> /\ Stacked(t, Len(stack[t]) - 1, <<>>)
        BY <1>7, ReturnStack DEF CallbackReturns, In, historyVars
    <2>2. CASE c = pending /\ \A k \in 1 .. Len(stack[t]) : ~Flowing(stack[t][k])
        <3>1. \A k \in 1 .. Len(stack[t]) - 1 : ~Flowing(stack[t][k])
            BY <1>3, <2>2
        <3>2. Between(pending', stack', pending', region')
            BY <1>1, <1>2, <1>3, <2>1, <3>1, BetweenForms
        <3> QED BY <1>5, <2>1, <2>2, <3>2
    <2>3. CASE n \in 1 .. Len(stack[t]) - 1 /\ Flowing(stack[t][n])
        <3>1. Between(c, stack', pending', region')
            BY <1>1, <1>2, <2>1, <2>3, BetweenReturned
        <3>2. Orderly((region' \o c) \o line', seen', discarded', sent')
            BY <1>1, <1>2, <2>1
        <3> QED BY <1>4, <3>1, <3>2 DEF Balanced
    <2> QED BY <1>1, <1>2, <2>1, <2>2, <2>3, BetweenTop
<1>8. CASE CallbackRaises(t)
    <2>1. Top(t).op = "callback"
        BY <1>8 DEF CallbackRaises, In
    <2>2. /\ n - 1 \in Nat /\ n = Len(stack[t]) - 2 + 1 /\ n - 1 = Len(stack[t]) - 2 /\ n \in 1 .. Len(stack[t])
        <3>1. Len(stack[t]) - 2 \in Nat
            BY <1>8, CallbackRaisesStack
        <3> QED BY <1>3, <3>1
    <2>3. \/ /\ stack[t][n].op = "call" /\ stack' = [u \in Threads |-> <<>>]
             /\ UNCHANGED discarded
          \/ /\ stack[t][n].op = "poll" /\ Stacked(t, n - 1, <<>>)
             /\ discarded' = discarded \cup InTransit(stack[t][n].chunk)
        BY <1>8, <2>2, CallbackRaisesStack
    <2>4. CASE stack[t][n].op = "call" /\ stack' = [u \in Threads |-> <<>>] /\ UNCHANGED discarded
        <3>1. ~Flowing(stack[t][n])
            BY <2>4 DEF Flowing
        <3>2. c = pending
            BY <1>1, <1>2, <2>1, <3>1, BetweenTop
        <3>3. Len(region) <= 1 /\ ~overflow
            BY DEF Balanced
        <3> QED BY <1>1, <1>2, <2>4, <3>2, <3>3, BalancedGone
    <2>5. CASE /\ stack[t][n].op = "poll" /\ Stacked(t, n - 1, <<>>)
               /\ discarded' = discarded \cup InTransit(stack[t][n].chunk)
        <3>1. Flowing(stack[t][n])
            <4>1. Follows(stack[t][n], Top(t))
                BY <1>2, <1>3, <2>2, TopLaws DEF TypeInv
            <4> QED BY <2>5, <4>1 DEF Follows, Flowing
        <3>2. /\ c = stack[t][n].chunk /\ pending = <<>> /\ region = <<>>
              /\ \A k \in 1 .. n - 1 : ~Flowing(stack[t][k])
            BY <1>1, <1>2, <2>1, <2>2, <3>1, BetweenTop
        <3>3. Between(pending', stack', pending', region')
            BY <1>1, <1>2, <1>3, <2>5, <3>2, BetweenForms
        <3>4. Orderly(line, seen, discarded \cup InTransit(c), sent)
            <4>1. region \o c = c
                BY <3>2, ConcatEmptySeq
            <4> QED BY <1>1, <1>4, <4>1, FlowDropped
        <3>5. (region' \o pending') \o line' = line
            <4>1. region' = <<>> /\ pending' = <<>> /\ line' = line
                BY <1>2, <3>2
            <4>2. <<>> \o line = line
                BY <1>4, ConcatEmptySeq
            <4>3. <<>> \in Seq(WireByte)
                OBVIOUS
            <4>4. <<>> \o <<>> = <<>>
                BY <4>3, ConcatEmptySeq
            <4> QED BY <4>1, <4>2, <4>4
        <3>6. Orderly((region' \o pending') \o line', seen', discarded', sent')
            BY <1>2, <2>5, <3>2, <3>4, <3>5
        <3> QED BY <1>4, <3>3, <3>6 DEF Balanced
    <2> QED BY <2>3, <2>4, <2>5
<1>9. CASE PortRaises(t)
    <2>1. ~Flowing(Top(t)) /\ Top(t).op # "callback"
        BY <1>9 DEF PortRaises, In, Flowing
    <2>2. c = pending /\ \A k \in 1 .. Len(stack[t]) - 1 : ~Flowing(stack[t][k])
        BY <1>1, <1>2, <2>1, BetweenTop
    <2>3. UNCHANGED discarded
        BY <1>9, ReturnStack
    <2>4. CASE Stacked(t, Len(stack[t]) - 1, <<>>)
        <3>1. Between(pending', stack', pending', region')
            BY <1>1, <1>2, <1>3, <2>2, <2>4, BetweenForms
        <3> QED BY <1>5, <2>2, <2>3, <3>1
    <2>5. CASE stack' = [u \in Threads |-> <<>>]
        <3>1. Len(region) <= 1 /\ ~overflow
            BY DEF Balanced
        <3> QED BY <1>1, <1>2, <2>2, <2>3, <2>5, <3>1, BalancedGone
    <2> QED BY <1>9, <2>4, <2>5, ReturnStack
<1> QED BY <1>6, <1>7, <1>8, <1>9

(* An operation begins where no poll is under way.                         *)
LEMMA BalancedBegin ==
    ASSUME TypeInv, TypeInv', Balanced, NEW t \in Threads, Only(t), BeginCall(t) \/ BeginPoll(t),
           \A k \in 1 .. Len(stack[t]) : stack[t][k].op # "poll"
    PROVE  Balanced'
<1>1. PICK c \in Seq(WireByte) : /\ Between(c, stack, pending, region)
                                 /\ Orderly((region \o c) \o line, seen, discarded, sent)
    BY DEF Balanced
<1>2. ASSUME NEW u \in Threads, NEW k \in 1 .. Len(stack[u]) PROVE ~Flowing(stack[u][k])
    <2>1. CASE u = t
        BY <2>1 DEF Flowing
    <2>2. CASE u # t
        <3>1. Len(stack[u]) = 0
            BY <2>2 DEF Only
        <3> QED BY <3>1
    <2> QED BY <2>1, <2>2
<1>3. c = pending
    BY <1>1, <1>2 DEF Between
<1>4. UNCHANGED <<region, overflow, pending, line, seen, discarded, sent>>
    BY DEF BeginCall, BeginPoll, readerVars, portVars, historyVars
<1>5. PICK e : Stacked(t, Len(stack[t]), <<e>>) /\ ~Flowing(e) /\ ~Waiting(e)
    <2>1. CASE BeginCall(t)
        <3>1. \A m, alone : ~Flowing(Call(m, alone)) /\ ~Waiting(Call(m, alone))
            BY DEF Flowing, Waiting, Call
        <3> QED BY <2>1, <3>1, BeginCallStack
    <2>2. CASE BeginPoll(t)
        <3>1. \A rest : ~Flowing(Poll(rest)) /\ ~Waiting(Poll(rest))
            BY DEF Flowing, Waiting, Poll
        <3> QED BY <2>2, <3>1, BeginPollStack
    <2> QED BY <2>1, <2>2
<1>6. Between(pending', stack', pending', region')
    <2> DEFINE new == <<e>>
               n == Len(stack[t])
    <2>1. Len(new) = 1 /\ new[1] = e /\ Stacked(t, n, new)
        BY <1>5
    <2>2. \A k \in 1 .. n : ~Flowing(stack[t][k]) /\ (Waiting(stack[t][k]) => pending' = <<>>)
        BY <1>1, <1>2, <1>4 DEF Between
    <2> HIDE DEF new, n
    <2>3. Len(new) \in Nat /\ \A j \in 1 .. Len(new) : ~Flowing(new[j]) /\ (Waiting(new[j]) => pending' = <<>>)
        BY <1>5, <2>1
    <2> QED BY <2>1, <2>2, <2>3, BetweenPending
<1>7. Orderly((region' \o pending') \o line', seen', discarded', sent')
    BY <1>1, <1>3, <1>4
<1>8. pending' \in Seq(WireByte) /\ Len(region') <= 1 /\ ~overflow'
    BY <1>4 DEF TypeInv, BufferTypes, Balanced
<1> QED BY <1>6, <1>7, <1>8 DEF Balanced

(* The device transmits a frame.                                           *)
LEMMA BalancedSent ==
    ASSUME TypeInv, TypeInv', Balanced, DeviceReplies \/ DevicePushes
    PROVE  Balanced'
<1>1. PICK c \in Seq(WireByte) : /\ Between(c, stack, pending, region)
                                 /\ Orderly((region \o c) \o line, seen, discarded, sent)
    BY DEF Balanced
<1>2. PICK b \in FrameBody : b.nr = sent + 1 /\ line' = line \o <<b, Delimiter>>
    BY TransmitTypes
<1>3. UNCHANGED <<stack, region, overflow, pending, seen, discarded>> /\ sent' = sent + 1
    BY TransmitTypes DEF DeviceReplies, DevicePushes, readerVars, historyVars
<1> DEFINE two == <<b, Delimiter>>
<1>4. two \in Seq(WireByte)
    BY DEF WireByte
<1>5. line \in Seq(WireByte) /\ region \in Seq(WireByte) /\ region \o c \in Seq(WireByte) /\ sent \in Nat
    <2>1. line \in Seq(WireByte) /\ region \in Seq(WireByte) /\ sent \in Nat
        BY DEF TypeInv, BufferTypes, WireByte
    <2> QED BY <2>1, ConcatLaws
<1>6. Orderly(((region \o c) \o line) \o two, seen, discarded, sent + 1)
    <2>1. (region \o c) \o line \in Seq(WireByte)
        BY <1>5, ConcatLaws
    <2> QED BY <1>1, <1>2, <1>5, <2>1, FlowSent
<1>7. line' = line \o two
    BY <1>2
<1> HIDE DEF two
<1>8. ((region \o c) \o line) \o two = (region' \o c) \o line'
    BY <1>3, <1>4, <1>5, <1>7, Grouped
<1>9. Orderly((region' \o c) \o line', seen', discarded', sent') /\ Between(c, stack', pending', region')
    BY <1>1, <1>3, <1>6, <1>8
<1>10. Len(region') <= 1 /\ ~overflow'
    BY <1>3 DEF Balanced
<1> QED BY <1>9, <1>10 DEF Balanced

(* Every step keeps the flow in order.                                     *)
LEMMA AccountedInductive ==
    ASSUME TypeInv, TypeInv', OneThread, Copies, Accounted, [Next]_vars
    PROVE  Accounted'
<1>1. ASSUME UNCHANGED <<readerVars, pending, line, sent, stack, historyVars>>, Balanced PROVE Balanced'
    BY <1>1 DEF Balanced, readerVars, historyVars
<1>2. CASE UNCHANGED vars
    BY <1>1, <1>2 DEF vars, usageVars, portVars, Accounted
<1>3. CASE Next
    <2>1. SUFFICES ASSUME ~overlapped', ~nestedInPoll' PROVE Balanced'
        BY DEF Accounted
    <2>2. ~overlapped /\ ~nestedInPoll
        <3>1. CASE UNCHANGED usageVars
            BY <2>1, <3>1 DEF usageVars
        <3>2. CASE \E t \in Threads : Disturb(t)
            <4>1. PICK t \in Threads : Disturb(t)
                BY <3>2
            <4>2. /\ overlapped' = (overlapped \/ OthersActive(t))
                  /\ nestedInPoll' = (nestedInPoll \/ \E k \in 1 .. Len(stack[t]) : stack[t][k].op = "poll")
                BY <4>1 DEF Disturb
            <4> QED BY <2>1, <4>2
        <3> QED BY <1>3, <3>1, <3>2, Usage
    <2>3. Balanced
        BY <2>2 DEF Accounted
    <2>4. ASSUME NEW t \in Threads, stack[t] # <<>> PROVE Only(t)
        BY <2>2, <2>4 DEF OneThread, Only
    <2>5. ASSUME NEW t \in Threads, BeginCall(t) \/ BeginPoll(t) PROVE Balanced'
        <3>1. Disturb(t)
            BY <2>5 DEF BeginCall, BeginPoll
        <3>2. Only(t) /\ \A k \in 1 .. Len(stack[t]) : stack[t][k].op # "poll"
            BY <2>1, <3>1 DEF Disturb, OthersActive, Only
        <3> QED BY <2>3, <2>5, <3>2, BalancedBegin
    <2>6. ASSUME NEW t \in Threads, Register(t) PROVE Balanced'
        BY <1>1, <2>3, <2>6 DEF Register, portVars
    <2>7. ASSUME NEW t \in Threads,
                 SendCommand(t) \/ EnterAwait(t) \/ BeginRead(t) \/ AwaitRead(t) \/ AwaitTimeout(t)
          PROVE  Balanced'
        BY <2>3, <2>4, <2>7, GoOnStack, BalancedCall
    <2>8. ASSUME NEW t \in Threads, AwaitByte(t) PROVE Balanced'
        BY <2>3, <2>4, <2>8, AwaitByteStack, BalancedAwaitByte
    <2>9. ASSUME NEW t \in Threads, PollRead(t) \/ PollByte(t) PROVE Balanced'
        BY <2>2, <2>3, <2>4, <2>9, PollReadStack, PollByteStack, BalancedPoll
    <2>10. ASSUME NEW t \in Threads, PollReturns(t) \/ CallbackReturns(t) \/ CallbackRaises(t) \/ PortRaises(t)
           PROVE  Balanced'
        <3>1. stack[t] # <<>>
            BY <2>10 DEF PollReturns, CallbackReturns, CallbackRaises, PortRaises, In
        <3> QED BY <2>3, <2>4, <2>10, <3>1, BalancedReturn
    <2>11. ASSUME NEW t \in Threads, Continue(t) PROVE Balanced'
        BY <2>7, <2>8, <2>9, <2>10, <2>11 DEF Continue
    <2> QED BY <1>3, <2>3, <2>5, <2>6, <2>10, <2>11, BalancedSent DEF Next
<1> QED BY <1>2, <1>3

(* The bytes of the flow are all that is buffered.                         *)
LEMMA FlowIsBuffered ==
    ASSUME TypeInv, Copies, ~overlapped, NEW c \in Seq(WireByte), Between(c, stack, pending, region)
    PROVE  Buffered = InTransit((region \o c) \o line)
<1>1. InTransit((region \o c) \o line) = (InTransit(region) \cup InTransit(c)) \cup InTransit(line)
    <2>1. line \in Seq(WireByte) /\ region \in Seq(WireByte)
        BY DEF TypeInv, BufferTypes, WireByte
    <2>2. region \o c \in Seq(WireByte)
        BY <2>1, ConcatLaws
    <2> QED BY <2>1, <2>2, Concatenated
<1>2. InTransit(<<>>) = {}
    BY SingleByte, PyDeviceAssumption DEF WireByte
<1>3. InTransit(pending) \subseteq InTransit(c)
    BY <1>2 DEF Between
<1>4. InTransit(c) \subseteq Buffered
    <2>1. CASE \E u \in Threads : \E k \in 1 .. Len(stack[u]) : Flowing(stack[u][k])
        <3>0. PICK u \in Threads : \E k \in 1 .. Len(stack[u]) : Flowing(stack[u][k])
            BY <2>1
        <3>1. PICK k \in 1 .. Len(stack[u]) : Flowing(stack[u][k])
            BY <3>0
        <3>2. stack[u][k].chunk = c
            BY <3>1 DEF Between
        <3>3. c \in Chunks
            BY <3>1, <3>2 DEF Chunks
        <3> QED BY <3>3 DEF Buffered
    <2>2. CASE ~\E u \in Threads : \E k \in 1 .. Len(stack[u]) : Flowing(stack[u][k])
        <3>1. c = pending
            BY <2>2 DEF Between
        <3> QED BY <3>1 DEF Buffered
    <2> QED BY <2>1, <2>2
<1>5. ASSUME NEW s \in Chunks PROVE InTransit(s) \subseteq InTransit(c)
    <2>0. PICK u \in Threads : \E k \in 1 .. Len(stack[u]) : s = stack[u][k].chunk
        BY DEF Chunks
    <2>1. PICK k \in 1 .. Len(stack[u]) : s = stack[u][k].chunk
        BY <2>0
    <2>2. stack[u][k] \in Op /\ Lawful(stack[u][k])
        BY OnStack DEF TypeInv, StackTypes, Proper
    <2>3. CASE Flowing(stack[u][k])
        BY <2>1, <2>3 DEF Between
    <2>4. CASE ReadPoll(stack[u][k])
        <3>1. s = <<>> \/ s = pending
            BY <2>1, <2>4 DEF Copies
        <3> QED BY <1>2, <1>3, <3>1
    <2>5. CASE stack[u][k].op # "poll"
        BY <1>2, <2>1, <2>2, <2>5 DEF Lawful
    <2> QED BY <2>2, <2>3, <2>4, <2>5 DEF Lawful, Flowing, ReadPoll
<1>6. InTransit(region) \subseteq Buffered /\ InTransit(line) \subseteq Buffered
    BY DEF Buffered
<1>7. ASSUME NEW m \in Buffered PROVE m \in (InTransit(region) \cup InTransit(c)) \cup InTransit(line)
    <2>1. PICK s \in {region, pending, line} \cup Chunks : m \in InTransit(s)
        BY DEF Buffered
    <2> QED BY <1>3, <1>5, <2>1
<1> QED BY <1>1, <1>4, <1>6, <1>7

(* As long as one thread at a time uses the Device and no callback of poll *)
(* does, frames come out in the order they were sent and none is lost      *)
(* between await_reply's buffer, poll's chunk, the reader and the port; a  *)
(* callback that raises in poll costs the rest of its chunk and no more.   *)
THEOREM FramesAreAccounted == Spec => []FramesAccounted
<1>1. Init /\ TypeInv => OneThread /\ Copies /\ Accounted
    <2> SUFFICES ASSUME Init, TypeInv PROVE OneThread /\ Copies /\ Accounted
        OBVIOUS
    <2>1. \A t \in Threads : stack[t] = <<>> /\ Len(stack[t]) = 0
        BY DEF Init
    <2>2. OneThread /\ Copies
        BY <2>1 DEF OneThread, Copies
    <2>3. /\ region = <<>> /\ pending = <<>> /\ line = <<>> /\ ~overflow
          /\ seen = <<>> /\ discarded = {} /\ sent = 0
        BY DEF Init, Reader!Init
    <2> DEFINE c == <<>>
    <2>4. c \in Seq(WireByte) /\ Len(c) = 0
        OBVIOUS
    <2>5. InTransit(c) = {}
        BY SingleByte, PyDeviceAssumption DEF WireByte
    <2>6. c \o c = c
        BY <2>4, ConcatEmptySeq
    <2>7. region = c /\ pending = c /\ line = c /\ seen = c /\ ToSet(c) = {}
        BY <2>3 DEF ToSet
    <2> HIDE DEF c
    <2>8. Between(c, stack, pending, region)
        BY <2>1, <2>7 DEF Between
    <2>9. Orderly(c, c, {}, 0)
        BY <2>4, <2>5, <2>7 DEF Orderly, Framed, Ascending, Increasing
    <2>10. Len(region) <= 1
        <3>1. Len(region) = 0
            BY <2>4, <2>7
        <3> QED BY <3>1
    <2>11. Balanced
        BY <2>3, <2>4, <2>6, <2>7, <2>8, <2>9, <2>10 DEF Balanced
    <2> QED BY <2>2, <2>11 DEF Accounted
<1>2. TypeInv /\ OneThread /\ [Next]_vars => OneThread'
    BY OneThreadStep
<1>3. TypeInv /\ OneThread /\ Copies /\ [Next]_vars => Copies'
    BY CopiesInductive
<1>4. TypeInv /\ TypeInv' /\ OneThread /\ Copies /\ Accounted /\ [Next]_vars => Accounted'
    BY AccountedInductive
<1>5. TypeInv /\ Copies /\ Accounted => FramesAccounted
    <2> SUFFICES ASSUME TypeInv, Copies, Accounted, ~overlapped, ~nestedInPoll
                 PROVE  /\ ToSet(seen) \cup discarded \cup Buffered = 1 .. sent
                        /\ \A m, n \in 1 .. Len(seen) : m < n => seen[m] < seen[n]
                        /\ \A m \in ToSet(seen), n \in Buffered : m < n
        BY DEF FramesAccounted
    <2>1. PICK c \in Seq(WireByte) : /\ Between(c, stack, pending, region)
                                     /\ Orderly((region \o c) \o line, seen, discarded, sent)
        BY DEF Accounted, Balanced
    <2>2. Buffered = InTransit((region \o c) \o line)
        BY <2>1, FlowIsBuffered
    <2> QED BY <2>1, <2>2 DEF Orderly, Increasing
<1> QED BY <1>1, <1>2, <1>3, <1>4, <1>5, TypeInvInductive, PTL DEF Spec
=============================================================================
