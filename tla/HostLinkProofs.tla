--------------------------- MODULE HostLinkProofs ---------------------------
(***************************************************************************)
(* However late replies are and whatever is lost, for any number of calls: *)
(* answers keep their order, none is used twice or before its question,    *)
(* and a call that begins on a quiet link gets its own answer.             *)
(*                                                                         *)
(* The reason is one order that runs through the whole loop.  Every        *)
(* command and reply carries the number of its call; what was answered,    *)
(* what is buffered at the host, what is on the line to it and what is on  *)
(* the line to the device are, in this sequence, ever larger numbers.      *)
(* Every action keeps that: it moves the first element of one part to the  *)
(* end of the part before it, or drops it.  The numbers of stream packets  *)
(* follow the same order, which gives what is said of telemetry.           *)
(*                                                                         *)
(* If no answer outlives its call, then nothing travels between calls, a   *)
(* reply is always of the run the device remembers, and the whole link is  *)
(* the abstract remote call.                                               *)
(***************************************************************************)
EXTENDS HostLink, SequenceTheorems, WellFoundedInduction, TLAPS

\* What travels has no type that a set could give it; it is a sequence.
IsSeq(s) == \E S : s \in Seq(S)

(* The facts about sequences that the proofs below use.                    *)
LEMMA EmptyIsSeq == IsSeq(<<>>) /\ Len(<<>>) = 0
<1>1. <<>> \in Seq({}) /\ Len(<<>>) = 0
    OBVIOUS
<1> QED BY <1>1 DEF IsSeq

(* The length of a sequence.                                               *)
LEMMA LengthOfSeq ==
    ASSUME NEW s, IsSeq(s)
    PROVE  Len(s) \in Nat /\ (s # <<>> => Len(s) >= 1)
<1>1. PICK S : s \in Seq(S)
    BY DEF IsSeq
<1> QED BY <1>1

(* Append adds one element at the end.                                     *)
LEMMA AppendToSeq ==
    ASSUME NEW s, IsSeq(s), NEW x
    PROVE  /\ IsSeq(Append(s, x)) /\ Len(Append(s, x)) = Len(s) + 1
           /\ \A k \in 1 .. Len(s) : Append(s, x)[k] = s[k]
           /\ Append(s, x)[Len(s) + 1] = x
<1>1. PICK S : s \in Seq(S)
    BY DEF IsSeq
<1> DEFINE T == S \cup {x}
<1>2. s \in Seq(T) /\ x \in T
    BY <1>1
<1> HIDE DEF T
<1>3. Append(s, x) \in Seq(T)
    BY <1>2
<1> QED BY <1>2, <1>3 DEF IsSeq

(* Tail drops the first element.                                           *)
LEMMA TailOfSeq ==
    ASSUME NEW s, IsSeq(s), s # <<>>
    PROVE  /\ IsSeq(Tail(s)) /\ Len(Tail(s)) = Len(s) - 1
           /\ Head(s) = s[1]
           /\ \A k \in 1 .. Len(s) - 1 : Tail(s)[k] = s[k + 1]
<1>1. PICK S : s \in Seq(S)
    BY DEF IsSeq
<1>2. Tail(s) \in Seq(S)
    BY <1>1
<1> QED BY <1>1, <1>2 DEF IsSeq

(* A sequence cut after n elements.                                        *)
LEMMA CutSeq ==
    ASSUME NEW s, IsSeq(s), NEW n \in 0 .. Len(s)
    PROVE  /\ IsSeq(SubSeq(s, 1, n)) /\ Len(SubSeq(s, 1, n)) = n
           /\ \A k \in 1 .. n : SubSeq(s, 1, n)[k] = s[k]
           /\ IsSeq(SubSeq(s, n + 1, Len(s))) /\ Len(SubSeq(s, n + 1, Len(s))) = Len(s) - n
           /\ \A k \in 1 .. Len(s) - n : SubSeq(s, n + 1, Len(s))[k] = s[n + k]
<1>1. PICK S : s \in Seq(S)
    BY DEF IsSeq
<1>2. Len(s) \in Nat /\ n \in Nat /\ n <= Len(s)
    BY <1>1
<1>3. SubSeq(s, 1, n) \in Seq(S) /\ Len(SubSeq(s, 1, n)) = n
    BY <1>1, <1>2
<1>4. \A k \in 1 .. n : SubSeq(s, 1, n)[k] = s[k]
    BY <1>1, <1>2
<1>5. SubSeq(s, n + 1, Len(s)) \in Seq(S) /\ Len(SubSeq(s, n + 1, Len(s))) = Len(s) - n
    BY <1>1, <1>2
<1>6. \A k \in 1 .. Len(s) - n : SubSeq(s, n + 1, Len(s))[k] = s[n + k]
    BY <1>1, <1>2
<1> QED BY <1>3, <1>4, <1>5, <1>6 DEF IsSeq

(* A sequence is its length and its elements.                              *)
LEMMA SameSeq ==
    ASSUME NEW s, NEW t, IsSeq(s), IsSeq(t), Len(s) = Len(t),
           \A n \in 1 .. Len(s) : s[n] = t[n]
    PROVE  s = t
<1>1. PICK S : s \in Seq(S)
    BY DEF IsSeq
<1>2. PICK T : t \in Seq(T)
    BY DEF IsSeq
<1> DEFINE U == S \cup T
<1>3. s \in Seq(U) /\ t \in Seq(U)
    BY <1>1, <1>2
<1> HIDE DEF U
<1> QED BY <1>3

-----------------------------------------------------------------------------
\* The numbers of the calls whose replies or commands are in s.
ReplyCalls(s) == {s[k].call : k \in RepliesIn(s)}
CommandCalls(s) == {s[k].call : k \in 1 .. Len(s)}

Below(X, Y) == \A x \in X, y \in Y : x < y

RepliesAscend(s) == \A m, n \in RepliesIn(s) : m < n => s[m].call < s[n].call
CommandsAscend(s) == \A m, n \in 1 .. Len(s) : m < n => s[m].call < s[n].call

HostFrames(s) == IsSeq(s) /\ \A k \in 1 .. Len(s) : s[k].type \in {"Reply", "Stream"}
DeviceFrames(s) == IsSeq(s) /\ \A k \in 1 .. Len(s) : s[k].type = "Command"

(* Nothing is in an empty buffer.                                          *)
LEMMA NothingInEmpty ==
    /\ HostFrames(<<>>) /\ RepliesAscend(<<>>) /\ ReplyCalls(<<>>) = {}
    /\ DeviceFrames(<<>>) /\ CommandsAscend(<<>>) /\ CommandCalls(<<>>) = {}
BY EmptyIsSeq DEF HostFrames, DeviceFrames, RepliesAscend, CommandsAscend, ReplyCalls,
                  CommandCalls, RepliesIn

(* A reply that is newer than all others goes to the end.                  *)
LEMMA AppendReply ==
    ASSUME NEW s, HostFrames(s), RepliesAscend(s), NEW f, f.type = "Reply",
           Below(ReplyCalls(s), {f.call})
    PROVE  /\ HostFrames(Append(s, f)) /\ RepliesAscend(Append(s, f))
           /\ ReplyCalls(Append(s, f)) = ReplyCalls(s) \cup {f.call}
<1> DEFINE t == Append(s, f)
<1>1. /\ Len(s) \in Nat /\ IsSeq(t) /\ Len(t) = Len(s) + 1
      /\ \A k \in 1 .. Len(s) : t[k] = s[k]
      /\ t[Len(s) + 1] = f
    BY LengthOfSeq, AppendToSeq DEF HostFrames
<1> HIDE DEF t
<1>2. HostFrames(t)
    BY <1>1 DEF HostFrames
<1>3. RepliesIn(t) = RepliesIn(s) \cup {Len(s) + 1}
    BY <1>1 DEF RepliesIn
<1>4. \A k \in RepliesIn(s) : k \in 1 .. Len(s) /\ t[k].call = s[k].call
    BY <1>1 DEF RepliesIn
<1>5. ReplyCalls(t) = ReplyCalls(s) \cup {f.call}
    BY <1>1, <1>3, <1>4 DEF ReplyCalls
<1>6. RepliesAscend(t)
    <2> SUFFICES ASSUME NEW m \in RepliesIn(t), NEW n \in RepliesIn(t), m < n
                 PROVE  t[m].call < t[n].call
        BY DEF RepliesAscend
    <2>1. m \in RepliesIn(s)
        BY <1>1, <1>3, <1>4
    <2>2. CASE n \in RepliesIn(s)
        BY <1>4, <2>1, <2>2 DEF RepliesAscend
    <2>3. CASE n = Len(s) + 1
        BY <1>1, <1>4, <2>1, <2>3 DEF Below, ReplyCalls
    <2> QED BY <1>3, <2>2, <2>3
<1> QED BY <1>2, <1>5, <1>6 DEF t

(* A stream packet at the end changes nothing about the replies.           *)
LEMMA AppendStream ==
    ASSUME NEW s, HostFrames(s), RepliesAscend(s), NEW f, f.type = "Stream"
    PROVE  /\ HostFrames(Append(s, f)) /\ RepliesAscend(Append(s, f))
           /\ ReplyCalls(Append(s, f)) = ReplyCalls(s)
<1> DEFINE t == Append(s, f)
<1>1. /\ Len(s) \in Nat /\ IsSeq(t) /\ Len(t) = Len(s) + 1
      /\ \A k \in 1 .. Len(s) : t[k] = s[k]
      /\ t[Len(s) + 1] = f
    BY LengthOfSeq, AppendToSeq DEF HostFrames
<1> HIDE DEF t
<1>2. HostFrames(t)
    BY <1>1 DEF HostFrames
<1>3. RepliesIn(t) = RepliesIn(s)
    BY <1>1 DEF RepliesIn
<1>4. \A k \in RepliesIn(s) : t[k] = s[k]
    BY <1>1 DEF RepliesIn
<1> QED BY <1>2, <1>3, <1>4 DEF t, RepliesAscend, ReplyCalls

(* Without its first frame a buffer is still in order; if that is a reply, *)
(* it is older than the others.                                            *)
LEMMA TailOfHostFrames ==
    ASSUME NEW s, HostFrames(s), RepliesAscend(s), s # <<>>
    PROVE  /\ HostFrames(Tail(s)) /\ RepliesAscend(Tail(s))
           /\ ReplyCalls(Tail(s)) \subseteq ReplyCalls(s)
           /\ Head(s).type = "Reply" =>
                 Head(s).call \in ReplyCalls(s) /\ Below({Head(s).call}, ReplyCalls(Tail(s)))
<1> DEFINE t == Tail(s)
<1>1. /\ Len(s) \in Nat /\ Len(s) >= 1 /\ IsSeq(t) /\ Len(t) = Len(s) - 1 /\ Head(s) = s[1]
      /\ \A k \in 1 .. Len(s) - 1 : t[k] = s[k + 1]
    BY LengthOfSeq, TailOfSeq DEF HostFrames
<1> HIDE DEF t
<1>2. HostFrames(t)
    BY <1>1 DEF HostFrames
<1>3. \A k \in RepliesIn(t) : k + 1 \in RepliesIn(s) /\ t[k] = s[k + 1] /\ k \in Nat \ {0}
    BY <1>1 DEF RepliesIn
<1>4. RepliesAscend(t)
    <2> SUFFICES ASSUME NEW m \in RepliesIn(t), NEW n \in RepliesIn(t), m < n
                 PROVE  t[m].call < t[n].call
        BY DEF RepliesAscend
    <2> QED BY <1>3 DEF RepliesAscend
<1>5. ReplyCalls(t) \subseteq ReplyCalls(s)
    BY <1>3 DEF ReplyCalls
<1>6. ASSUME Head(s).type = "Reply"
      PROVE  Head(s).call \in ReplyCalls(s) /\ Below({Head(s).call}, ReplyCalls(t))
    <2>1. 1 \in RepliesIn(s)
        BY <1>1, <1>6 DEF RepliesIn
    <2>2. \A k \in RepliesIn(t) : s[1].call < t[k].call
        BY <1>3, <2>1 DEF RepliesAscend
    <2> QED BY <1>1, <2>1, <2>2 DEF Below, ReplyCalls
<1> QED BY <1>2, <1>4, <1>5, <1>6 DEF t

(* Both parts of a cut are in order, and the first holds the older ones.   *)
LEMMA CutHostFrames ==
    ASSUME NEW s, HostFrames(s), RepliesAscend(s), NEW n \in 0 .. Len(s)
    PROVE  LET first == SubSeq(s, 1, n)
               rest == SubSeq(s, n + 1, Len(s))
           IN  /\ HostFrames(first) /\ RepliesAscend(first)
               /\ HostFrames(rest) /\ RepliesAscend(rest)
               /\ ReplyCalls(first) \subseteq ReplyCalls(s)
               /\ ReplyCalls(rest) \subseteq ReplyCalls(s)
               /\ Below(ReplyCalls(first), ReplyCalls(rest))
<1> DEFINE first == SubSeq(s, 1, n)
           rest == SubSeq(s, n + 1, Len(s))
<1>1. /\ Len(s) \in Nat /\ n \in Nat /\ n <= Len(s)
      /\ IsSeq(first) /\ Len(first) = n /\ \A k \in 1 .. n : first[k] = s[k]
      /\ IsSeq(rest) /\ Len(rest) = Len(s) - n /\ \A k \in 1 .. Len(s) - n : rest[k] = s[n + k]
    <2>1. IsSeq(s)
        BY DEF HostFrames
    <2>2. Len(s) \in Nat
        BY <2>1, LengthOfSeq
    <2>3. n \in Nat /\ n <= Len(s)
        BY <2>2
    <2> HIDE DEF first, rest
    <2> QED BY <2>1, <2>2, <2>3, CutSeq DEF first, rest
<1> HIDE DEF first, rest
<1>2. \A k \in RepliesIn(first) : k \in RepliesIn(s) /\ first[k] = s[k] /\ k \in 1 .. n
    BY <1>1 DEF RepliesIn
<1>3. \A k \in RepliesIn(rest) : n + k \in RepliesIn(s) /\ rest[k] = s[n + k] /\ k \in Nat \ {0}
    BY <1>1 DEF RepliesIn
<1>4. HostFrames(first) /\ HostFrames(rest)
    BY <1>1 DEF HostFrames
<1>5. RepliesAscend(first)
    BY <1>2 DEF RepliesAscend
<1>6. RepliesAscend(rest)
    <2> SUFFICES ASSUME NEW k \in RepliesIn(rest), NEW l \in RepliesIn(rest), k < l
                 PROVE  rest[k].call < rest[l].call
        BY DEF RepliesAscend
    <2>1. n + k < n + l
        BY <1>1, <1>3
    <2> QED BY <1>3, <2>1 DEF RepliesAscend
<1>7. ReplyCalls(first) \subseteq ReplyCalls(s) /\ ReplyCalls(rest) \subseteq ReplyCalls(s)
    BY <1>2, <1>3 DEF ReplyCalls
<1>8. Below(ReplyCalls(first), ReplyCalls(rest))
    <2>1. ASSUME NEW k \in RepliesIn(first), NEW l \in RepliesIn(rest)
          PROVE  first[k].call < rest[l].call
        <3>1. k < n + l
            BY <1>1, <1>2, <1>3
        <3> QED BY <1>2, <1>3, <3>1 DEF RepliesAscend
    <2> QED BY <2>1 DEF Below, ReplyCalls
<1> QED BY <1>4, <1>5, <1>6, <1>7, <1>8 DEF first, rest

(* The same for commands: a newer one goes to the end.                     *)
LEMMA AppendCommand ==
    ASSUME NEW s, DeviceFrames(s), CommandsAscend(s), NEW f, f.type = "Command",
           Below(CommandCalls(s), {f.call})
    PROVE  /\ DeviceFrames(Append(s, f)) /\ CommandsAscend(Append(s, f))
           /\ CommandCalls(Append(s, f)) = CommandCalls(s) \cup {f.call}
<1> DEFINE t == Append(s, f)
<1>1. /\ Len(s) \in Nat /\ IsSeq(t) /\ Len(t) = Len(s) + 1
      /\ \A k \in 1 .. Len(s) : t[k] = s[k]
      /\ t[Len(s) + 1] = f
    BY LengthOfSeq, AppendToSeq DEF DeviceFrames
<1> HIDE DEF t
<1>2. DeviceFrames(t)
    BY <1>1 DEF DeviceFrames
<1>3. 1 .. Len(t) = (1 .. Len(s)) \cup {Len(s) + 1}
    BY <1>1
<1>4. CommandCalls(t) = CommandCalls(s) \cup {f.call}
    BY <1>1, <1>3 DEF CommandCalls
<1>5. CommandsAscend(t)
    <2> SUFFICES ASSUME NEW m \in 1 .. Len(t), NEW n \in 1 .. Len(t), m < n
                 PROVE  t[m].call < t[n].call
        BY DEF CommandsAscend
    <2>1. m \in 1 .. Len(s)
        BY <1>1
    <2>2. CASE n \in 1 .. Len(s)
        BY <1>1, <2>1, <2>2 DEF CommandsAscend
    <2>3. CASE n = Len(s) + 1
        BY <1>1, <2>1, <2>3 DEF Below, CommandCalls
    <2> QED BY <1>3, <2>2, <2>3
<1> QED BY <1>2, <1>4, <1>5 DEF t

(* The first command is older than the others.                             *)
LEMMA TailOfDeviceFrames ==
    ASSUME NEW s, DeviceFrames(s), CommandsAscend(s), s # <<>>
    PROVE  /\ DeviceFrames(Tail(s)) /\ CommandsAscend(Tail(s))
           /\ CommandCalls(Tail(s)) \subseteq CommandCalls(s)
           /\ Head(s).call \in CommandCalls(s)
           /\ Below({Head(s).call}, CommandCalls(Tail(s)))
<1> DEFINE t == Tail(s)
<1>1. /\ Len(s) \in Nat /\ Len(s) >= 1 /\ IsSeq(t) /\ Len(t) = Len(s) - 1 /\ Head(s) = s[1]
      /\ \A k \in 1 .. Len(s) - 1 : t[k] = s[k + 1]
    BY LengthOfSeq, TailOfSeq DEF DeviceFrames
<1> HIDE DEF t
<1>2. \A k \in 1 .. Len(t) : k + 1 \in 1 .. Len(s) /\ t[k] = s[k + 1] /\ 1 < k + 1
    BY <1>1
<1>3. DeviceFrames(t)
    BY <1>1, <1>2 DEF DeviceFrames
<1>4. CommandsAscend(t)
    BY <1>2 DEF CommandsAscend
<1>5. CommandCalls(t) \subseteq CommandCalls(s)
    BY <1>2 DEF CommandCalls
<1>6. 1 \in 1 .. Len(s) /\ \A k \in 1 .. Len(t) : s[1].call < t[k].call
    BY <1>1, <1>2 DEF CommandsAscend
<1>7. Head(s).call \in CommandCalls(s) /\ Below({Head(s).call}, CommandCalls(t))
    BY <1>1, <1>6 DEF CommandCalls, Below
<1> QED BY <1>3, <1>4, <1>5, <1>7 DEF t

-----------------------------------------------------------------------------
Waiting == ReplyCalls(pending) \cup ReplyCalls(toHost) \cup CommandCalls(toDevice)

AnsweredBy(a) == {a[n].by : n \in {k \in 1 .. Len(a) : a[k].by # NoReply}}

Bounded ==
    /\ hostPc \in {"idle", "await"}
    /\ calls \in 0 .. MaxCalls /\ emitted \in 0 .. MaxStreams
    /\ losses \in 0 .. MaxLosses /\ restarts \in 0 .. MaxRestarts
    /\ request \in Requests \cup {<<>>}
    /\ clean \in BOOLEAN
    /\ hostPc = "await" => calls # 0

\* The parts of the loop, each in order, and each below the next.
InOrder ==
    /\ HostFrames(pending) /\ HostFrames(toHost) /\ DeviceFrames(toDevice)
    /\ RepliesAscend(pending) /\ RepliesAscend(toHost) /\ CommandsAscend(toDevice)
    /\ Waiting \subseteq 1 .. calls
    /\ Below(ReplyCalls(pending), ReplyCalls(toHost))
    /\ Below(ReplyCalls(pending), CommandCalls(toDevice))
    /\ Below(ReplyCalls(toHost), CommandCalls(toDevice))
    /\ Below(AnsweredBy(answered), Waiting)

\* What was answered: each call at most with itself, the current one not yet.
History ==
    /\ IsSeq(answered)
    /\ \A n \in 1 .. Len(answered) :
          answered[n].call \in 1 .. calls /\ answered[n].by \in 0 .. answered[n].call
    /\ hostPc = "await" => \A n \in 1 .. Len(answered) : answered[n].call # calls

\* A call that began on a quiet link has the link to itself.
Alone == clean /\ hostPc = "await" => Waiting \subseteq {calls}

IInv == Bounded /\ InOrder /\ History /\ Alone /\ AnswersInOrder /\ CleanCallMatches

(* Without a new answer, what is claimed of the answers stays true.        *)
LEMMA SameAnswers ==
    ASSUME IInv, answered' = answered, calls' = calls, clean' = clean
    PROVE  /\ (hostPc' = hostPc => History') /\ AnswersInOrder' /\ CleanCallMatches'
BY DEF IInv, History, AnswersInOrder, CleanCallMatches, Replied

(* A step that moves or drops frames without disturbing the order keeps    *)
(* the invariant.                                                          *)
LEMMA FramesMoved ==
    ASSUME IInv, Bounded',
           answered' = answered, calls' = calls, clean' = clean, hostPc' = hostPc,
           HostFrames(pending'), HostFrames(toHost'), DeviceFrames(toDevice'),
           RepliesAscend(pending'), RepliesAscend(toHost'), CommandsAscend(toDevice'),
           Waiting' \subseteq Waiting,
           Below(ReplyCalls(pending'), ReplyCalls(toHost')),
           Below(ReplyCalls(pending'), CommandCalls(toDevice')),
           Below(ReplyCalls(toHost'), CommandCalls(toDevice'))
    PROVE  IInv'
<1>1. History' /\ AnswersInOrder' /\ CleanCallMatches'
    BY SameAnswers
<1>2. InOrder'
    BY DEF IInv, InOrder, Below
<1>3. Alone'
    BY DEF IInv, Alone
<1> QED BY <1>1, <1>2, <1>3 DEF IInv

(* A link that is quiet holds no reply and no command.                     *)
LEMMA QuietMeansNothing == Quiet => Waiting = {}
BY NothingInEmpty DEF Quiet, Waiting, ReplyCalls

(* The first state: nothing anywhere.                                      *)
LEMMA InitIInv == Init => IInv
<1> SUFFICES ASSUME Init PROVE IInv
    OBVIOUS
<1> USE HostLinkAssumption, NothingInEmpty
<1>1. Bounded
    BY DEF Init, Bounded
<1>2. answered = <<>> /\ Len(answered) = 0 /\ IsSeq(answered)
    BY EmptyIsSeq DEF Init
<1>3. AnsweredBy(answered) = {}
    BY <1>2 DEF AnsweredBy
<1>4. InOrder /\ Waiting = {}
    BY <1>3 DEF Init, InOrder, Waiting, Below
<1>5. History /\ AnswersInOrder /\ CleanCallMatches
    BY <1>2 DEF History, AnswersInOrder, CleanCallMatches, Replied
<1> QED BY <1>1, <1>4, <1>5 DEF IInv, Alone

(* A command with the next number that goes out keeps the order.           *)
LEMMA SentInOrder ==
    ASSUME IInv, calls' = calls + 1, pending' = pending, toHost' = toHost,
           answered' = answered, NEW f, f.type = "Command", f.call = calls',
           toDevice' = Append(toDevice, f)
    PROVE  InOrder' /\ Waiting' = Waiting \cup {calls'}
<1>1. calls \in Nat
    BY DEF IInv, Bounded
<1>2. \A c \in Waiting : c \in 1 .. calls /\ c < calls'
    BY <1>1 DEF IInv, InOrder
<1>3. Below(CommandCalls(toDevice), {f.call})
    BY <1>2 DEF Below, Waiting
<1>4. /\ DeviceFrames(toDevice') /\ CommandsAscend(toDevice')
      /\ CommandCalls(toDevice') = CommandCalls(toDevice) \cup {calls'}
    BY <1>3, AppendCommand DEF IInv, InOrder
<1>5. Waiting' = Waiting \cup {calls'}
    BY <1>4 DEF Waiting
<1>6. \A c \in AnsweredBy(answered) : c < calls'
    BY <1>1 DEF AnsweredBy, IInv, History
<1>7. Waiting' \subseteq 1 .. calls'
    BY <1>1, <1>2, <1>5
<1>8. Below(AnsweredBy(answered'), Waiting')
    BY <1>5, <1>6 DEF IInv, InOrder, Below
<1>9. /\ Below(ReplyCalls(pending'), CommandCalls(toDevice'))
      /\ Below(ReplyCalls(toHost'), CommandCalls(toDevice'))
    BY <1>2, <1>4 DEF IInv, InOrder, Below, Waiting
<1> QED BY <1>4, <1>5, <1>7, <1>8, <1>9 DEF IInv, InOrder

(* A command is sent: it is newer than all that is on its way.             *)
LEMMA CallStep == IInv /\ Call => IInv'
<1> SUFFICES ASSUME IInv, Call PROVE IInv'
    OBVIOUS
<1> DEFINE f == Command(calls', request')
<1>1. /\ calls' = calls + 1 /\ calls \in Nat /\ pending' = pending /\ toHost' = toHost
      /\ answered' = answered /\ hostPc' = "await" /\ clean' = Quiet
      /\ toDevice' = Append(toDevice, f)
    BY DEF IInv, Bounded, Call
<1>2. f.type = "Command" /\ f.call = calls'
    BY DEF Command
<1> HIDE DEF f
<1>3. Bounded'
    BY HostLinkAssumption, <1>1 DEF IInv, Bounded, Call, deviceVars, faultVars, Quiet
<1>4. InOrder' /\ Waiting' = Waiting \cup {calls'}
    BY <1>1, <1>2, SentInOrder
<1>5. \A n \in 1 .. Len(answered) : answered[n].call \in 1 .. calls' /\ answered[n].call # calls'
    BY <1>1 DEF IInv, History
<1>6. History' /\ AnswersInOrder' /\ CleanCallMatches'
    BY <1>1, <1>5 DEF IInv, History, AnswersInOrder, CleanCallMatches, Replied
<1>7. Alone'
    BY <1>1, <1>4, QuietMeansNothing DEF Alone
<1> QED BY <1>3, <1>4, <1>6, <1>7 DEF IInv

(* A command whose sending fails leaves a number behind, and at most the   *)
(* command itself on the line, the newest there.                           *)
LEMMA SendFailsStep == IInv /\ SendFails => IInv'
<1> SUFFICES ASSUME IInv, SendFails PROVE IInv'
    OBVIOUS
<1> DEFINE f == Command(calls', request')
<1>1. /\ calls' = calls + 1 /\ calls \in Nat /\ pending' = pending /\ toHost' = toHost
      /\ answered' = answered /\ clean' = clean /\ hostPc = "idle" /\ hostPc' = hostPc
      /\ toDevice' = toDevice \/ toDevice' = Append(toDevice, f)
    BY DEF IInv, Bounded, SendFails, historyVars
<1>2. f.type = "Command" /\ f.call = calls'
    BY DEF Command
<1> HIDE DEF f
<1>3. Bounded'
    BY HostLinkAssumption, <1>1 DEF IInv, Bounded, SendFails, deviceVars, faultVars
<1>4. InOrder'
    <2>1. CASE toDevice' = toDevice
        <3>1. Waiting' = Waiting /\ 1 .. calls \subseteq 1 .. calls'
            BY <1>1, <2>1 DEF Waiting
        <3> QED BY <1>1, <2>1, <3>1 DEF IInv, InOrder
    <2>2. CASE toDevice' = Append(toDevice, f)
        BY <1>1, <1>2, <2>2, SentInOrder
    <2> QED BY <1>1, <2>1, <2>2
<1>5. \A n \in 1 .. Len(answered) : answered[n].call \in 1 .. calls' /\ answered[n].call # calls'
    BY <1>1 DEF IInv, History
<1>6. History' /\ AnswersInOrder' /\ CleanCallMatches'
    BY <1>1, <1>5 DEF IInv, History, AnswersInOrder, CleanCallMatches, Replied
<1> QED BY <1>1, <1>3, <1>4, <1>6 DEF IInv, Alone

(* A chunk is cut off the line.                                            *)
LEMMA ReadChunkStep == IInv /\ ReadChunk => IInv'
<1> SUFFICES ASSUME IInv, ReadChunk PROVE IInv'
    OBVIOUS
<1>1. PICK n \in 1 .. Len(toHost) :
          /\ pending' = SubSeq(toHost, 1, n)
          /\ toHost' = SubSeq(toHost, n + 1, Len(toHost))
    BY DEF ReadChunk
<1>2. n \in 0 .. Len(toHost)
    BY LengthOfSeq DEF IInv, InOrder, HostFrames
<1>3. /\ HostFrames(pending') /\ RepliesAscend(pending')
      /\ HostFrames(toHost') /\ RepliesAscend(toHost')
      /\ ReplyCalls(pending') \subseteq ReplyCalls(toHost)
      /\ ReplyCalls(toHost') \subseteq ReplyCalls(toHost)
      /\ Below(ReplyCalls(pending'), ReplyCalls(toHost'))
    BY <1>1, <1>2, CutHostFrames DEF IInv, InOrder
<1>4. /\ toDevice' = toDevice /\ answered' = answered /\ calls' = calls /\ clean' = clean
      /\ hostPc' = hostPc
    BY DEF ReadChunk, historyVars
<1>5. Bounded'
    BY <1>4 DEF IInv, Bounded, ReadChunk, deviceVars, faultVars
<1>6. Waiting' \subseteq Waiting
    BY <1>3, <1>4 DEF Waiting
<1>7. /\ Below(ReplyCalls(pending'), CommandCalls(toDevice'))
      /\ Below(ReplyCalls(toHost'), CommandCalls(toDevice'))
      /\ DeviceFrames(toDevice') /\ CommandsAscend(toDevice')
    BY <1>3, <1>4 DEF IInv, InOrder, Below
<1> QED BY <1>3, <1>4, <1>5, <1>6, <1>7, FramesMoved

(* A stream packet leaves the buffer.                                      *)
LEMMA ConsumeStreamStep == IInv /\ ConsumeStream => IInv'
<1> SUFFICES ASSUME IInv, ConsumeStream PROVE IInv'
    OBVIOUS
<1>1. /\ pending # <<>> /\ pending' = Tail(pending) /\ toHost' = toHost /\ toDevice' = toDevice
      /\ answered' = answered /\ calls' = calls /\ clean' = clean /\ hostPc' = hostPc
    BY DEF ConsumeStream, lineVars
<1>2. /\ HostFrames(pending') /\ RepliesAscend(pending')
      /\ ReplyCalls(pending') \subseteq ReplyCalls(pending)
    BY <1>1, TailOfHostFrames DEF IInv, InOrder
<1>3. Bounded'
    BY <1>1 DEF IInv, Bounded, ConsumeStream, deviceVars, faultVars
<1>4. Waiting' \subseteq Waiting
    BY <1>1, <1>2 DEF Waiting
<1>5. /\ HostFrames(toHost') /\ RepliesAscend(toHost')
      /\ DeviceFrames(toDevice') /\ CommandsAscend(toDevice')
      /\ Below(ReplyCalls(pending'), ReplyCalls(toHost'))
      /\ Below(ReplyCalls(pending'), CommandCalls(toDevice'))
      /\ Below(ReplyCalls(toHost'), CommandCalls(toDevice'))
    BY <1>1, <1>2 DEF IInv, InOrder, Below
<1> QED BY <1>1, <1>2, <1>3, <1>4, <1>5, FramesMoved

(* An answer goes to the end of the answers.                               *)
LEMMA OneMoreAnswer ==
    ASSUME IInv, hostPc = "await", NEW c \in 0 .. calls,
           answered' = Append(answered, Answer(c)), calls' = calls, clean' = clean,
           hostPc' = "idle",
           c # NoReply => c \in ReplyCalls(pending)
    PROVE  /\ History' /\ AnswersInOrder' /\ CleanCallMatches'
           /\ AnsweredBy(answered') \subseteq AnsweredBy(answered) \cup ({c} \ {NoReply})
<1> DEFINE l == Len(answered)
<1>1. /\ IsSeq(answered) /\ l \in Nat /\ IsSeq(answered') /\ Len(answered') = l + 1
      /\ \A k \in 1 .. l : answered'[k] = answered[k]
      /\ answered'[l + 1] = [call |-> calls, by |-> c]
    BY LengthOfSeq, AppendToSeq DEF IInv, History, Answer
<1>2. 1 .. Len(answered') = (1 .. l) \cup {l + 1}
    BY <1>1
<1> HIDE DEF l
<1>3. calls \in Nat
    BY DEF IInv, Bounded
<1>4. calls \in 1 .. calls
    <2>1. CASE c = NoReply
        <3>1. calls # 0
            BY DEF IInv, Bounded
        <3> QED BY <1>3, <3>1
    <2>2. CASE c # NoReply
        BY <1>3, <2>2 DEF NoReply
    <2> QED BY <2>1, <2>2
<1>5. History'
    BY <1>1, <1>2, <1>3, <1>4 DEF IInv, History, l
<1>6. Replied' = Replied \cup (IF c = NoReply THEN {} ELSE {l + 1})
    BY <1>1, <1>2 DEF Replied, l
<1>7. \A n \in Replied : n \in 1 .. l /\ answered'[n] = answered[n]
    BY <1>1 DEF Replied, l
<1>8. AnsweredBy(answered') \subseteq AnsweredBy(answered) \cup ({c} \ {NoReply})
    BY <1>1, <1>2 DEF AnsweredBy, l
<1>9. c # NoReply => \A n \in Replied : answered[n].by < c
    BY DEF IInv, InOrder, Below, AnsweredBy, Replied, Waiting
<1>10. AnswersInOrder'
    <2>1. \A n \in Replied' : answered'[n].by <= answered'[n].call
        BY <1>1, <1>3, <1>6, <1>7 DEF IInv, AnswersInOrder
    <2>2. ASSUME NEW m \in Replied', NEW n \in Replied', m < n
          PROVE  answered'[m].by < answered'[n].by
        <3>1. m \in Replied
            BY <1>1, <1>6, <1>7, <2>2
        <3>2. CASE n \in Replied
            BY <1>7, <2>2, <3>1, <3>2 DEF IInv, AnswersInOrder
        <3>3. CASE n = l + 1 /\ c # NoReply
            BY <1>1, <1>7, <1>9, <3>1, <3>3
        <3> QED BY <1>6, <2>2, <3>2, <3>3
    <2> QED BY <2>1, <2>2 DEF AnswersInOrder
<1>11. CleanCallMatches'
    <2> SUFFICES ASSUME clean, NEW n \in Replied', answered'[n].call = calls
                 PROVE  answered'[n].by = calls
        BY DEF CleanCallMatches
    <2>1. n \notin Replied
        BY <1>7 DEF IInv, History, l
    <2>2. n = l + 1 /\ c # NoReply
        BY <1>6, <2>1
    <2>3. c = calls
        BY <2>2 DEF IInv, Alone, Waiting
    <2> QED BY <1>1, <2>2, <2>3
<1> QED BY <1>5, <1>8, <1>10, <1>11

(* The answer is the oldest reply, and older than what remains.            *)
LEMMA ConsumeReplyStep == IInv /\ ConsumeReply => IInv'
<1> SUFFICES ASSUME IInv, ConsumeReply PROVE IInv'
    OBVIOUS
<1> DEFINE c == Head(pending).call
<1>1. /\ hostPc = "await" /\ hostPc' = "idle" /\ pending # <<>> /\ pending' = Tail(pending)
      /\ Head(pending).type = "Reply"
      /\ toHost' = toHost /\ toDevice' = toDevice /\ calls' = calls /\ clean' = clean
      /\ answered' = Append(answered, Answer(c))
    BY DEF ConsumeReply, lineVars
<1>2. /\ HostFrames(pending') /\ RepliesAscend(pending')
      /\ ReplyCalls(pending') \subseteq ReplyCalls(pending)
      /\ c \in ReplyCalls(pending) /\ Below({c}, ReplyCalls(pending'))
    BY <1>1, TailOfHostFrames DEF IInv, InOrder
<1> HIDE DEF c
<1>3. c \in 1 .. calls /\ c \in 0 .. calls
    BY <1>2 DEF IInv, InOrder, Waiting
<1>4. /\ History' /\ AnswersInOrder' /\ CleanCallMatches'
      /\ AnsweredBy(answered') \subseteq AnsweredBy(answered) \cup {c}
    BY <1>1, <1>2, <1>3, OneMoreAnswer
<1>5. Bounded'
    BY <1>1 DEF IInv, Bounded, ConsumeReply, deviceVars, faultVars
<1>6. Waiting' \subseteq Waiting /\ Below({c}, Waiting')
    BY <1>1, <1>2 DEF IInv, InOrder, Waiting, Below
<1>7. InOrder'
    <2>1. Below(AnsweredBy(answered'), Waiting')
        BY <1>4, <1>6 DEF IInv, InOrder, Below
    <2>2. Waiting' \subseteq 1 .. calls'
        BY <1>1, <1>6 DEF IInv, InOrder
    <2>3. /\ Below(ReplyCalls(pending'), ReplyCalls(toHost'))
          /\ Below(ReplyCalls(pending'), CommandCalls(toDevice'))
        BY <1>1, <1>2 DEF IInv, InOrder, Below
    <2> QED BY <1>1, <1>2, <2>1, <2>2, <2>3 DEF IInv, InOrder
<1> QED BY <1>1, <1>4, <1>5, <1>7 DEF IInv, Alone

(* A timeout answers nothing.                                              *)
LEMMA TimeoutStep == IInv /\ Timeout => IInv'
<1> SUFFICES ASSUME IInv, Timeout PROVE IInv'
    OBVIOUS
<1>1. /\ hostPc = "await" /\ hostPc' = "idle" /\ pending' = pending
      /\ toHost' = toHost /\ toDevice' = toDevice /\ calls' = calls /\ clean' = clean
      /\ answered' = Append(answered, Answer(NoReply))
    BY DEF Timeout, lineVars
<1>2. NoReply \in 0 .. calls
    BY DEF IInv, Bounded, NoReply
<1>3. /\ History' /\ AnswersInOrder' /\ CleanCallMatches'
      /\ AnsweredBy(answered') \subseteq AnsweredBy(answered)
    BY <1>1, <1>2, OneMoreAnswer
<1>4. Bounded'
    BY <1>1 DEF IInv, Bounded, Timeout, deviceVars, faultVars
<1>5. Waiting' = Waiting
    BY <1>1 DEF Waiting
<1>6. InOrder'
    BY <1>1, <1>3, <1>5 DEF IInv, InOrder, Below
<1> QED BY <1>1, <1>3, <1>4, <1>6 DEF IInv, Alone

(* What poll drops is gone; what is left on the line is in order.          *)
LEMMA PollStep == IInv /\ Poll => IInv'
<1> SUFFICES ASSUME IInv, Poll PROVE IInv'
    OBVIOUS
<1>1. PICK n \in 0 .. Len(toHost) : toHost' = SubSeq(toHost, n + 1, Len(toHost))
    BY DEF Poll
<1>2. /\ HostFrames(toHost') /\ RepliesAscend(toHost')
      /\ ReplyCalls(toHost') \subseteq ReplyCalls(toHost)
    BY <1>1, CutHostFrames DEF IInv, InOrder
<1>3. /\ pending' = <<>> /\ toDevice' = toDevice /\ answered' = answered
      /\ calls' = calls /\ clean' = clean /\ hostPc' = hostPc
    BY DEF Poll
<1>4. HostFrames(pending') /\ RepliesAscend(pending') /\ ReplyCalls(pending') = {}
    BY <1>3, NothingInEmpty
<1>5. Bounded'
    BY <1>3 DEF IInv, Bounded, Poll, deviceVars, faultVars
<1>6. Waiting' \subseteq Waiting
    BY <1>2, <1>3, <1>4 DEF Waiting
<1>7. /\ DeviceFrames(toDevice') /\ CommandsAscend(toDevice')
      /\ Below(ReplyCalls(pending'), ReplyCalls(toHost'))
      /\ Below(ReplyCalls(pending'), CommandCalls(toDevice'))
      /\ Below(ReplyCalls(toHost'), CommandCalls(toDevice'))
    BY <1>2, <1>3, <1>4 DEF IInv, InOrder, Below
<1> QED BY <1>2, <1>3, <1>4, <1>5, <1>6, <1>7, FramesMoved

(* The oldest command becomes the newest reply.                            *)
LEMMA HandlePacketStep == IInv /\ HandlePacket => IInv'
<1> SUFFICES ASSUME IInv, HandlePacket PROVE IInv'
    OBVIOUS
<1> DEFINE c == Head(toDevice).call
<1>1. PICK f : /\ f = ReplyFrame(c, f.payload) /\ toHost' = Append(toHost, f)
    BY DEF HandlePacket, ReplyFrame
<1>2. f.type = "Reply" /\ f.call = c
    BY <1>1 DEF ReplyFrame
<1>3. /\ toDevice # <<>> /\ toDevice' = Tail(toDevice) /\ pending' = pending
      /\ answered' = answered /\ calls' = calls /\ clean' = clean /\ hostPc' = hostPc
    BY DEF HandlePacket, hostVars, historyVars
<1>4. /\ DeviceFrames(toDevice') /\ CommandsAscend(toDevice')
      /\ CommandCalls(toDevice') \subseteq CommandCalls(toDevice)
      /\ c \in CommandCalls(toDevice) /\ Below({c}, CommandCalls(toDevice'))
    BY <1>3, TailOfDeviceFrames DEF IInv, InOrder
<1> HIDE DEF c
<1>5. Below(ReplyCalls(toHost), {f.call})
    BY <1>2, <1>4 DEF IInv, InOrder, Below
<1>6. /\ HostFrames(toHost') /\ RepliesAscend(toHost')
      /\ ReplyCalls(toHost') = ReplyCalls(toHost) \cup {c}
    BY <1>1, <1>2, <1>5, AppendReply DEF IInv, InOrder
<1>7. Bounded'
    BY <1>3 DEF IInv, Bounded, HandlePacket, hostVars, faultVars
<1>8. Waiting' \subseteq Waiting
    BY <1>3, <1>4, <1>6 DEF Waiting
<1>9. /\ HostFrames(pending') /\ RepliesAscend(pending')
      /\ Below(ReplyCalls(pending'), ReplyCalls(toHost'))
      /\ Below(ReplyCalls(pending'), CommandCalls(toDevice'))
      /\ Below(ReplyCalls(toHost'), CommandCalls(toDevice'))
    BY <1>3, <1>4, <1>6 DEF IInv, InOrder, Below
<1> QED BY <1>3, <1>4, <1>6, <1>7, <1>8, <1>9, FramesMoved

(* Telemetry passes by the replies.                                        *)
LEMMA EmitTelemetryStep == IInv /\ EmitTelemetry => IInv'
<1> SUFFICES ASSUME IInv, EmitTelemetry PROVE IInv'
    OBVIOUS
<1> DEFINE f == Stream(emitted')
<1>1. /\ toHost' = Append(toHost, f) /\ toDevice' = toDevice /\ pending' = pending
      /\ answered' = answered /\ calls' = calls /\ clean' = clean /\ hostPc' = hostPc
    BY DEF EmitTelemetry, hostVars, historyVars
<1>2. f.type = "Stream"
    BY DEF Stream
<1> HIDE DEF f
<1>3. /\ HostFrames(toHost') /\ RepliesAscend(toHost')
      /\ ReplyCalls(toHost') = ReplyCalls(toHost)
    BY <1>1, <1>2, AppendStream DEF IInv, InOrder
<1>4. Bounded'
    <2>1. emitted' \in 0 .. MaxStreams
        BY HostLinkAssumption DEF IInv, Bounded, EmitTelemetry
    <2> QED BY <1>1, <2>1 DEF IInv, Bounded, EmitTelemetry, hostVars, faultVars
<1>5. Waiting' = Waiting
    BY <1>1, <1>3 DEF Waiting
<1>6. /\ HostFrames(pending') /\ RepliesAscend(pending')
      /\ DeviceFrames(toDevice') /\ CommandsAscend(toDevice')
      /\ Below(ReplyCalls(pending'), ReplyCalls(toHost'))
      /\ Below(ReplyCalls(pending'), CommandCalls(toDevice'))
      /\ Below(ReplyCalls(toHost'), CommandCalls(toDevice'))
    BY <1>1, <1>3 DEF IInv, InOrder
<1> QED BY <1>1, <1>3, <1>4, <1>5, <1>6, FramesMoved

(* A lost frame leaves the others in order.                                *)
LEMMA LoseFrameStep == IInv /\ LoseFrame => IInv'
<1> SUFFICES ASSUME IInv, LoseFrame PROVE IInv'
    OBVIOUS
<1>1. /\ pending' = pending /\ answered' = answered /\ calls' = calls /\ clean' = clean
      /\ hostPc' = hostPc
    BY DEF LoseFrame, hostVars, historyVars
<1>2. Bounded'
    <2>1. losses' \in 0 .. MaxLosses
        BY HostLinkAssumption DEF IInv, Bounded, LoseFrame
    <2> QED BY <1>1, <2>1 DEF IInv, Bounded, LoseFrame, hostVars, deviceVars
<1>3. CASE toDevice # <<>> /\ toDevice' = Tail(toDevice) /\ toHost' = toHost
    <2>1. /\ DeviceFrames(toDevice') /\ CommandsAscend(toDevice')
          /\ CommandCalls(toDevice') \subseteq CommandCalls(toDevice)
        BY <1>3, TailOfDeviceFrames DEF IInv, InOrder
    <2>2. Waiting' \subseteq Waiting
        BY <1>1, <1>3, <2>1 DEF Waiting
    <2>3. /\ HostFrames(pending') /\ RepliesAscend(pending')
          /\ HostFrames(toHost') /\ RepliesAscend(toHost')
          /\ Below(ReplyCalls(pending'), ReplyCalls(toHost'))
          /\ Below(ReplyCalls(pending'), CommandCalls(toDevice'))
          /\ Below(ReplyCalls(toHost'), CommandCalls(toDevice'))
        BY <1>1, <1>3, <2>1 DEF IInv, InOrder, Below
    <2> QED BY <1>1, <1>2, <2>1, <2>2, <2>3, FramesMoved
<1>4. CASE toHost # <<>> /\ toHost' = Tail(toHost) /\ toDevice' = toDevice
    <2>1. /\ HostFrames(toHost') /\ RepliesAscend(toHost')
          /\ ReplyCalls(toHost') \subseteq ReplyCalls(toHost)
        BY <1>4, TailOfHostFrames DEF IInv, InOrder
    <2>2. Waiting' \subseteq Waiting
        BY <1>1, <1>4, <2>1 DEF Waiting
    <2>3. /\ HostFrames(pending') /\ RepliesAscend(pending')
          /\ DeviceFrames(toDevice') /\ CommandsAscend(toDevice')
          /\ Below(ReplyCalls(pending'), ReplyCalls(toHost'))
          /\ Below(ReplyCalls(pending'), CommandCalls(toDevice'))
          /\ Below(ReplyCalls(toHost'), CommandCalls(toDevice'))
        BY <1>1, <1>4, <2>1 DEF IInv, InOrder, Below
    <2> QED BY <1>1, <1>2, <2>1, <2>2, <2>3, FramesMoved
<1> QED BY <1>3, <1>4 DEF LoseFrame

(* A restart of the device drops the commands on their way to it.          *)
LEMMA DeviceRestartStep == IInv /\ DeviceRestart => IInv'
<1> SUFFICES ASSUME IInv, DeviceRestart PROVE IInv'
    OBVIOUS
<1>1. /\ pending' = pending /\ toHost' = toHost /\ toDevice' = <<>>
      /\ answered' = answered /\ calls' = calls /\ clean' = clean /\ hostPc' = hostPc
    BY DEF DeviceRestart, hostVars, historyVars
<1>2. Bounded'
    <2>1. restarts' \in 0 .. MaxRestarts
        BY HostLinkAssumption DEF IInv, Bounded, DeviceRestart
    <2> QED BY <1>1, <2>1 DEF IInv, Bounded, DeviceRestart, hostVars
<1>3. DeviceFrames(toDevice') /\ CommandsAscend(toDevice') /\ CommandCalls(toDevice') = {}
    BY <1>1, NothingInEmpty
<1>4. Waiting' \subseteq Waiting
    BY <1>1, <1>3 DEF Waiting
<1>5. /\ HostFrames(pending') /\ RepliesAscend(pending')
      /\ HostFrames(toHost') /\ RepliesAscend(toHost')
      /\ Below(ReplyCalls(pending'), ReplyCalls(toHost'))
      /\ Below(ReplyCalls(pending'), CommandCalls(toDevice'))
      /\ Below(ReplyCalls(toHost'), CommandCalls(toDevice'))
    BY <1>1, <1>3 DEF IInv, InOrder, Below
<1> QED BY <1>1, <1>2, <1>3, <1>4, <1>5, FramesMoved

(* The invariant holds in every reachable state.                           *)
LEMMA Inductive == Spec => []IInv
<1>1. IInv /\ UNCHANGED vars => IInv'
    <2> SUFFICES ASSUME IInv, UNCHANGED vars PROVE IInv'
        OBVIOUS
    <2>1. /\ pending' = pending /\ toHost' = toHost /\ toDevice' = toDevice
          /\ answered' = answered /\ calls' = calls /\ clean' = clean /\ hostPc' = hostPc
          /\ emitted' = emitted /\ losses' = losses /\ restarts' = restarts /\ request' = request
        BY DEF vars, hostVars, lineVars, deviceVars, faultVars, historyVars
    <2>2. Bounded' /\ Waiting' = Waiting
        BY <2>1 DEF IInv, Bounded, Waiting
    <2>3. InOrder' /\ Alone'
        BY <2>1, <2>2 DEF IInv, InOrder, Alone
    <2> QED BY <2>1, <2>2, <2>3, SameAnswers DEF IInv
<1>2. IInv /\ [Next]_vars => IInv'
    BY <1>1, CallStep, SendFailsStep, ReadChunkStep, ConsumeStreamStep, ConsumeReplyStep,
       TimeoutStep, PollStep, HandlePacketStep, EmitTelemetryStep, LoseFrameStep,
       DeviceRestartStep DEF Next, HostStep
<1> QED BY <1>2, InitIInv, PTL DEF Spec

-----------------------------------------------------------------------------
(* What a buffer followed by the line holds is replies and stream packets. *)
LEMMA JoinedFrames ==
    ASSUME NEW s, NEW t, HostFrames(s), HostFrames(t)
    PROVE  \A n \in 1 .. Len(s \o t) : (s \o t)[n].type \in {"Reply", "Stream"}
<1>1. PICK S : s \in Seq(S)
    BY DEF HostFrames, IsSeq
<1>2. PICK T : t \in Seq(T)
    BY DEF HostFrames, IsSeq
<1> DEFINE U == S \cup T
<1>3. s \in Seq(U) /\ t \in Seq(U)
    BY <1>1, <1>2
<1> HIDE DEF U
<1>4. /\ Len(s) \in Nat /\ Len(t) \in Nat /\ Len(s \o t) = Len(s) + Len(t)
      /\ \A n \in 1 .. Len(s) + Len(t) :
            (s \o t)[n] = IF n <= Len(s) THEN s[n] ELSE t[n - Len(s)]
    BY <1>3
<1> SUFFICES ASSUME NEW n \in 1 .. Len(s \o t)
             PROVE  (s \o t)[n].type \in {"Reply", "Stream"}
    OBVIOUS
<1>5. CASE n <= Len(s)
    BY <1>4, <1>5 DEF HostFrames
<1>6. CASE ~(n <= Len(s))
    <2>1. n - Len(s) \in 1 .. Len(t)
        BY <1>4, <1>6
    <2> QED BY <1>4, <1>6, <2>1 DEF HostFrames
<1> QED BY <1>5, <1>6

(* Commands travel to the device only, replies and stream packets to the   *)
(* host only, and every counter keeps to its bound.                        *)
THEOREM TypeCorrect == Spec => []TypeOK
<1>1. IInv => TypeOK
    <2> SUFFICES ASSUME IInv PROVE TypeOK
        OBVIOUS
    <2>1. \A n \in 1 .. Len(pending \o toHost) :
              (pending \o toHost)[n].type \in {"Reply", "Stream"}
        BY JoinedFrames DEF IInv, InOrder
    <2>2. \A n \in 1 .. Len(toDevice) : toDevice[n].type = "Command"
        BY DEF IInv, InOrder, DeviceFrames
    <2> QED BY <2>1, <2>2 DEF IInv, Bounded, TypeOK
<1> QED BY <1>1, Inductive, PTL

(* A host that is out of step lags behind: no reply answers two calls, no  *)
(* answer overtakes another, none comes before its question.               *)
THEOREM NeverAhead == Spec => []AnswersInOrder
<1>1. IInv => AnswersInOrder
    BY DEF IInv
<1> QED BY <1>1, Inductive, PTL

(* A call that begins on a quiet link is answered by its own reply or not  *)
(* at all, whatever is lost, late or restarted from then on.               *)
THEOREM QuietLinkMatches == Spec => []CleanCallMatches
<1>1. IInv => CleanCallMatches
    BY DEF IInv
<1> QED BY <1>1, Inductive, PTL

-----------------------------------------------------------------------------
(* From here on: when no answer outlives its call.                         *)

\* Every frame of t is one of s.
Within(t, s) == \A k \in 1 .. Len(t) : \E l \in 1 .. Len(s) : t[k] = s[l]

(* What is left of a sequence, or cut from it, was in it.                  *)
LEMMA PartsWithin ==
    ASSUME NEW s, IsSeq(s)
    PROVE  /\ s # <<>> => Within(Tail(s), s)
           /\ \A n \in 0 .. Len(s) : Within(SubSeq(s, 1, n), s) /\ Within(SubSeq(s, n + 1, Len(s)), s)
<1>1. Len(s) \in Nat
    BY LengthOfSeq
<1>2. ASSUME s # <<>> PROVE Within(Tail(s), s)
    BY <1>1, <1>2, TailOfSeq DEF Within
<1>3. ASSUME NEW n \in 0 .. Len(s)
      PROVE  Within(SubSeq(s, 1, n), s) /\ Within(SubSeq(s, n + 1, Len(s)), s)
    <2>1. /\ Len(SubSeq(s, 1, n)) = n /\ \A k \in 1 .. n : SubSeq(s, 1, n)[k] = s[k]
          /\ Len(SubSeq(s, n + 1, Len(s))) = Len(s) - n
          /\ \A k \in 1 .. Len(s) - n : SubSeq(s, n + 1, Len(s))[k] = s[n + k]
        BY CutSeq
    <2>2. n \in Nat /\ n <= Len(s) /\ \A k \in 1 .. n : k \in 1 .. Len(s)
        BY <1>1
    <2>3. \A k \in 1 .. Len(s) - n : n + k \in 1 .. Len(s)
        BY <1>1, <2>2
    <2> QED BY <2>1, <2>2, <2>3 DEF Within
<1> QED BY <1>2, <1>3

\* The replies in s are those of the latest run, and that was the current call's.
OfThisRun(s) ==
    \A k \in RepliesIn(s) : executed.call = calls /\ s[k].payload = executed.payload

\* The commands in s are the current call's, which has not run yet.
NotYetRun(s) ==
    \A k \in 1 .. Len(s) : executed.call # calls /\ s[k].payload = request

\* Nothing travels between calls; during one, only its own command or reply.
InStep ==
    /\ Waiting \subseteq {calls}
    /\ hostPc = "idle" => Waiting = {}
    /\ executed.call \in 0 .. calls
    /\ NotYetRun(toDevice) /\ OfThisRun(pending) /\ OfThisRun(toHost)

PromptInv == IInv /\ InStep /\ RepliesMatch

(* Parts of buffers inherit what holds of the replies in them.             *)
LEMMA PartOfThisRun ==
    ASSUME NEW s, NEW t, Within(t, s), OfThisRun(s), executed' = executed, calls' = calls
    PROVE  \A k \in RepliesIn(t) : executed'.call = calls' /\ t[k].payload = executed'.payload
BY DEF Within, OfThisRun, RepliesIn

(* No numbers, no frames.                                                  *)
LEMMA NothingWaiting ==
    ASSUME Waiting = {}
    PROVE  /\ RepliesIn(pending) = {} /\ RepliesIn(toHost) = {}
           /\ 1 .. Len(toDevice) = {}
BY DEF Waiting, ReplyCalls, CommandCalls

(* Where nothing waits, the link is in step.                               *)
LEMMA EmptyInStep ==
    ASSUME Waiting' = {}, executed'.call \in 0 .. calls'
    PROVE  InStep'
<1>1. RepliesIn(pending') = {} /\ RepliesIn(toHost') = {} /\ 1 .. Len(toDevice') = {}
    BY DEF Waiting, ReplyCalls, CommandCalls
<1> QED BY <1>1 DEF InStep, NotYetRun, OfThisRun

(* What an action that answers nothing has to show.                        *)
LEMMA NothingAnswered ==
    ASSUME PromptInv, answered' = answered
    PROVE  RepliesMatch'
BY DEF PromptInv, RepliesMatch, Replied

(* Parts have no other numbers.                                            *)
LEMMA WithinCalls ==
    ASSUME NEW s, NEW t, Within(t, s)
    PROVE  ReplyCalls(t) \subseteq ReplyCalls(s) /\ CommandCalls(t) \subseteq CommandCalls(s)
BY DEF Within, ReplyCalls, CommandCalls, RepliesIn

(* Frames that move or vanish while the call goes on.                      *)
LEMMA PartsInStep ==
    ASSUME InStep,
           calls' = calls, executed' = executed, hostPc' = hostPc, request' = request,
           Within(toDevice', toDevice),
           Within(pending', pending) \/ Within(pending', toHost),
           Within(toHost', toHost)
    PROVE  InStep'
<1>1. OfThisRun(pending)' /\ OfThisRun(toHost)'
    BY PartOfThisRun DEF InStep, OfThisRun
<1>2. NotYetRun(toDevice)'
    BY DEF InStep, NotYetRun, Within
<1>3. Waiting' \subseteq Waiting
    BY WithinCalls DEF Waiting
<1> QED BY <1>1, <1>2, <1>3 DEF InStep

(* The first state.                                                        *)
LEMMA InitInStep == Init => InStep /\ RepliesMatch
<1> SUFFICES ASSUME Init PROVE InStep /\ RepliesMatch
    OBVIOUS
<1>1. Len(toDevice) = 0 /\ RepliesIn(pending) = {} /\ RepliesIn(toHost) = {}
    BY EmptyIsSeq DEF Init, RepliesIn
<1>2. Waiting = {}
    BY <1>1 DEF Waiting, ReplyCalls, CommandCalls
<1>3. Replied = {}
    BY EmptyIsSeq DEF Init, Replied
<1> QED BY <1>1, <1>2, <1>3 DEF Init, InStep, NotYetRun, OfThisRun, RepliesMatch

(* The command of a new call travels alone.                                *)
LEMMA CallInStep == PromptInv /\ Call => InStep' /\ RepliesMatch'
<1> SUFFICES ASSUME PromptInv, Call PROVE InStep' /\ RepliesMatch'
    OBVIOUS
<1> DEFINE f == Command(calls', request')
<1>1. /\ hostPc = "idle" /\ hostPc' = "await" /\ calls' = calls + 1 /\ calls \in Nat
      /\ pending' = pending /\ toHost' = toHost /\ executed' = executed /\ answered' = answered
      /\ toDevice' = Append(toDevice, f)
    BY DEF PromptInv, IInv, Bounded, Call, deviceVars
<1>2. /\ Waiting = {} /\ RepliesIn(pending) = {} /\ RepliesIn(toHost) = {}
      /\ 1 .. Len(toDevice) = {}
    BY <1>1, NothingWaiting DEF PromptInv, InStep
<1>3. f.call = calls' /\ f.payload = request'
    BY DEF Command
<1> HIDE DEF f
<1>4. /\ Len(toDevice) \in Nat /\ Len(toDevice') = Len(toDevice) + 1
      /\ toDevice'[Len(toDevice) + 1] = f
    BY <1>1, LengthOfSeq, AppendToSeq DEF PromptInv, IInv, InOrder, DeviceFrames
<1>5. \A k \in 1 .. Len(toDevice') : toDevice'[k] = f
    BY <1>2, <1>4
<1>6. Waiting' \subseteq {calls'}
    BY <1>1, <1>2, <1>3, <1>5 DEF Waiting, ReplyCalls, CommandCalls
<1>7. executed'.call \in 0 .. calls' /\ executed'.call # calls'
    BY <1>1 DEF PromptInv, InStep
<1>8. NotYetRun(toDevice)' /\ OfThisRun(pending)' /\ OfThisRun(toHost)'
    BY <1>1, <1>2, <1>3, <1>5, <1>7 DEF NotYetRun, OfThisRun
<1> QED BY <1>1, <1>6, <1>7, <1>8, NothingAnswered DEF InStep

(* Without late replies the command that was not sent does not travel.     *)
LEMMA SendFailsInStep == ~LateReplies /\ PromptInv /\ SendFails => InStep' /\ RepliesMatch'
<1> SUFFICES ASSUME ~LateReplies, PromptInv, SendFails PROVE InStep' /\ RepliesMatch'
    OBVIOUS
<1>1. /\ hostPc = "idle" /\ calls' = calls + 1 /\ calls \in Nat
      /\ pending' = pending /\ toHost' = toHost /\ toDevice' = toDevice
      /\ executed' = executed /\ answered' = answered
    BY HostLinkAssumption
    DEF PromptInv, IInv, Bounded, SendFails, deviceVars, historyVars
<1>2. Waiting' = {}
    BY <1>1 DEF PromptInv, InStep, Waiting
<1>3. executed'.call \in 0 .. calls'
    BY <1>1 DEF PromptInv, InStep
<1> QED BY <1>1, <1>2, <1>3, EmptyInStep, NothingAnswered

(* A chunk moves from the line to the buffer.                              *)
LEMMA ReadChunkInStep == PromptInv /\ ReadChunk => InStep' /\ RepliesMatch'
<1> SUFFICES ASSUME PromptInv, ReadChunk PROVE InStep' /\ RepliesMatch'
    OBVIOUS
<1>1. PICK n \in 1 .. Len(toHost) :
          /\ pending' = SubSeq(toHost, 1, n)
          /\ toHost' = SubSeq(toHost, n + 1, Len(toHost))
    BY DEF ReadChunk
<1>2. IsSeq(toHost) /\ n \in 0 .. Len(toHost)
    BY LengthOfSeq DEF PromptInv, IInv, InOrder, HostFrames
<1>3. Within(pending', toHost) /\ Within(toHost', toHost)
    BY <1>1, <1>2, PartsWithin
<1>4. /\ toDevice' = toDevice /\ answered' = answered /\ calls' = calls /\ hostPc' = hostPc
      /\ executed' = executed /\ request' = request
    BY DEF ReadChunk, historyVars, deviceVars
<1>5. Within(toDevice', toDevice)
    BY <1>4 DEF Within
<1> QED BY <1>3, <1>4, <1>5, PartsInStep, NothingAnswered DEF PromptInv

(* A packet leaves the buffer.                                             *)
LEMMA ConsumeStreamInStep == PromptInv /\ ConsumeStream => InStep' /\ RepliesMatch'
<1> SUFFICES ASSUME PromptInv, ConsumeStream PROVE InStep' /\ RepliesMatch'
    OBVIOUS
<1>1. /\ pending # <<>> /\ pending' = Tail(pending) /\ toHost' = toHost /\ toDevice' = toDevice
      /\ answered' = answered /\ calls' = calls /\ hostPc' = hostPc
      /\ executed' = executed /\ request' = request
    BY DEF ConsumeStream, lineVars, deviceVars
<1>2. Within(pending', pending)
    BY <1>1, PartsWithin DEF PromptInv, IInv, InOrder, HostFrames
<1>3. Within(toHost', toHost) /\ Within(toDevice', toDevice)
    BY <1>1 DEF Within
<1> QED BY <1>1, <1>2, <1>3, PartsInStep, NothingAnswered DEF PromptInv

(* The first reply in the buffer is the current call's, and nothing is     *)
(* left behind it.                                                         *)
LEMMA ConsumeReplyInStep == PromptInv /\ ConsumeReply => InStep' /\ RepliesMatch'
<1> SUFFICES ASSUME PromptInv, ConsumeReply PROVE InStep' /\ RepliesMatch'
    OBVIOUS
<1> DEFINE c == Head(pending).call
<1>1. /\ pending # <<>> /\ pending' = Tail(pending) /\ Head(pending).type = "Reply"
      /\ toHost' = toHost /\ toDevice' = toDevice /\ calls' = calls /\ executed' = executed
      /\ answered' = Append(answered, [call |-> calls, by |-> c])
    BY DEF ConsumeReply, lineVars, deviceVars, Answer
<1>2. /\ ReplyCalls(pending') \subseteq ReplyCalls(pending)
      /\ c \in ReplyCalls(pending) /\ Below({c}, ReplyCalls(pending'))
    BY <1>1, TailOfHostFrames DEF PromptInv, IInv, InOrder
<1> HIDE DEF c
<1>3. c = calls /\ calls \in Nat
    BY <1>2 DEF PromptInv, IInv, Bounded, InStep, Waiting
<1>4. Waiting' \subseteq {calls} /\ Below({calls}, Waiting')
    BY <1>1, <1>2, <1>3 DEF PromptInv, IInv, InOrder, InStep, Waiting, Below
<1>5. Waiting' = {}
    BY <1>3, <1>4 DEF Below
<1>6. InStep'
    BY <1>1, <1>5, EmptyInStep DEF PromptInv, InStep
<1>7. /\ Len(answered) \in Nat /\ Len(answered') = Len(answered) + 1
      /\ \A k \in 1 .. Len(answered) : answered'[k] = answered[k]
      /\ answered'[Len(answered) + 1] = [call |-> calls, by |-> calls]
    BY <1>1, <1>3, LengthOfSeq, AppendToSeq DEF PromptInv, IInv, History
<1>8. \A k \in Replied' : k \in Replied \/ k = Len(answered) + 1
    BY <1>7 DEF Replied
<1>9. \A k \in Replied : k \in 1 .. Len(answered) /\ answered[k].by = answered[k].call
    BY DEF PromptInv, RepliesMatch, Replied
<1>10. RepliesMatch'
    BY <1>7, <1>8, <1>9 DEF RepliesMatch
<1> QED BY <1>6, <1>10

(* The host gives up only when nothing is on its way.                      *)
LEMMA TimeoutInStep ==
    ASSUME ~LateReplies
    PROVE  PromptInv /\ Timeout => InStep' /\ RepliesMatch'
<1> SUFFICES ASSUME PromptInv, Timeout PROVE InStep' /\ RepliesMatch'
    OBVIOUS
<1>1. /\ pending' = <<>> /\ toHost' = <<>> /\ toDevice' = <<>> /\ calls' = calls
      /\ executed' = executed
      /\ answered' = Append(answered, [call |-> calls, by |-> NoReply])
    BY DEF Timeout, lineVars, deviceVars, Answer
<1>2. Waiting' = {}
    BY <1>1, NothingInEmpty DEF Waiting
<1>3. InStep'
    BY <1>1, <1>2, EmptyInStep DEF PromptInv, InStep
<1>4. /\ Len(answered) \in Nat /\ Len(answered') = Len(answered) + 1
      /\ \A k \in 1 .. Len(answered) : answered'[k] = answered[k]
      /\ answered'[Len(answered) + 1] = [call |-> calls, by |-> NoReply]
    BY <1>1, LengthOfSeq, AppendToSeq DEF PromptInv, IInv, History
<1>5. \A k \in Replied' : k \in Replied /\ answered'[k] = answered[k]
    BY <1>4 DEF Replied
<1>6. RepliesMatch'
    BY <1>5 DEF PromptInv, RepliesMatch
<1> QED BY <1>3, <1>6

(* Between calls poll finds packets only.                                  *)
LEMMA PollInStep == PromptInv /\ Poll => InStep' /\ RepliesMatch'
<1> SUFFICES ASSUME PromptInv, Poll PROVE InStep' /\ RepliesMatch'
    OBVIOUS
<1>1. PICK n \in 0 .. Len(toHost) : toHost' = SubSeq(toHost, n + 1, Len(toHost))
    BY DEF Poll
<1>2. /\ pending' = <<>> /\ toDevice' = toDevice /\ answered' = answered /\ calls' = calls
      /\ executed' = executed /\ hostPc = "idle"
    BY DEF Poll, deviceVars
<1>3. Within(toHost', toHost)
    BY <1>1, PartsWithin DEF PromptInv, IInv, InOrder, HostFrames
<1>4. Waiting' \subseteq Waiting
    BY <1>2, <1>3, WithinCalls, NothingInEmpty DEF Waiting
<1>5. Waiting' = {}
    BY <1>2, <1>4 DEF PromptInv, InStep
<1> QED BY <1>2, <1>5, EmptyInStep, NothingAnswered DEF PromptInv, InStep

(* The command of the call becomes its reply, and that is the only one.    *)
LEMMA HandlePacketInStep == PromptInv /\ HandlePacket => InStep' /\ RepliesMatch'
<1> SUFFICES ASSUME PromptInv, HandlePacket PROVE InStep' /\ RepliesMatch'
    OBVIOUS
<1> DEFINE c == Head(toDevice).call
           f == ReplyFrame(c, executed'.payload)
<1>1. /\ toDevice # <<>> /\ toDevice' = Tail(toDevice) /\ pending' = pending
      /\ toHost' = Append(toHost, f) /\ executed'.call = c
      /\ answered' = answered /\ calls' = calls /\ hostPc' = hostPc
    BY DEF HandlePacket, hostVars, historyVars
<1>2. f.type = "Reply" /\ f.call = c /\ f.payload = executed'.payload
    BY DEF ReplyFrame
<1>3. /\ CommandCalls(toDevice') \subseteq CommandCalls(toDevice)
      /\ c \in CommandCalls(toDevice) /\ Below({c}, CommandCalls(toDevice'))
    BY <1>1, TailOfDeviceFrames DEF PromptInv, IInv, InOrder
<1> HIDE DEF c, f
<1>4. c = calls /\ calls \in Nat /\ hostPc # "idle"
    BY <1>3 DEF PromptInv, IInv, Bounded, InStep, Waiting
<1>5. RepliesIn(pending) = {} /\ RepliesIn(toHost) = {} /\ 1 .. Len(toDevice') = {}
    <2>1. \A x \in ReplyCalls(pending) \cup ReplyCalls(toHost) : x = calls /\ x < calls
        BY <1>3, <1>4 DEF PromptInv, IInv, InOrder, InStep, Waiting, Below
    <2>2. \A x \in CommandCalls(toDevice') : x = calls /\ calls < x
        BY <1>3, <1>4 DEF PromptInv, InStep, Waiting, Below
    <2>3. \A x, y \in Nat : ~ (x = y /\ x < y) /\ ~ (x = y /\ y < x)
        OBVIOUS
    <2>4. /\ ReplyCalls(pending) = {} /\ ReplyCalls(toHost) = {}
          /\ CommandCalls(toDevice') = {}
        BY <1>4, <2>1, <2>2, <2>3
    <2> QED BY <2>4 DEF ReplyCalls, CommandCalls
<1>6. /\ Len(toHost) \in Nat /\ Len(toHost') = Len(toHost) + 1
      /\ \A k \in 1 .. Len(toHost) : toHost'[k] = toHost[k]
      /\ toHost'[Len(toHost) + 1] = f
    BY <1>1, LengthOfSeq, AppendToSeq DEF PromptInv, IInv, InOrder, HostFrames
<1>7. \A k \in RepliesIn(toHost') : toHost'[k] = f
    BY <1>5, <1>6 DEF RepliesIn
<1>8. OfThisRun(toHost)' /\ OfThisRun(pending)' /\ NotYetRun(toDevice)'
    BY <1>1, <1>2, <1>4, <1>5, <1>7 DEF OfThisRun, NotYetRun
<1>9. Waiting' \subseteq {calls'}
    BY <1>1, <1>2, <1>4, <1>5, <1>7 DEF Waiting, ReplyCalls, CommandCalls
<1> QED BY <1>1, <1>4, <1>8, <1>9, NothingAnswered DEF InStep

(* Telemetry passes by.                                                    *)
LEMMA EmitTelemetryInStep == PromptInv /\ EmitTelemetry => InStep' /\ RepliesMatch'
<1> SUFFICES ASSUME PromptInv, EmitTelemetry PROVE InStep' /\ RepliesMatch'
    OBVIOUS
<1> DEFINE f == Stream(emitted')
<1>1. /\ toHost' = Append(toHost, f) /\ toDevice' = toDevice /\ pending' = pending
      /\ answered' = answered /\ calls' = calls /\ hostPc' = hostPc
      /\ executed' = executed /\ request' = request
    BY DEF EmitTelemetry, hostVars, historyVars
<1>2. f.type = "Stream"
    BY DEF Stream
<1> HIDE DEF f
<1>3. /\ Len(toHost) \in Nat /\ Len(toHost') = Len(toHost) + 1
      /\ \A k \in 1 .. Len(toHost) : toHost'[k] = toHost[k]
      /\ toHost'[Len(toHost) + 1] = f
    BY <1>1, LengthOfSeq, AppendToSeq DEF PromptInv, IInv, InOrder, HostFrames
<1>4. \A k \in RepliesIn(toHost') : k \in RepliesIn(toHost) /\ toHost'[k] = toHost[k]
    BY <1>2, <1>3 DEF RepliesIn
<1>5. OfThisRun(toHost)' /\ OfThisRun(pending)' /\ NotYetRun(toDevice)'
    BY <1>1, <1>4 DEF PromptInv, InStep, OfThisRun, NotYetRun
<1>6. Waiting' \subseteq Waiting
    BY <1>1, <1>4 DEF Waiting, ReplyCalls
<1> QED BY <1>1, <1>5, <1>6, NothingAnswered DEF PromptInv, InStep

(* A lost frame is one less.                                               *)
LEMMA LoseFrameInStep == PromptInv /\ LoseFrame => InStep' /\ RepliesMatch'
<1> SUFFICES ASSUME PromptInv, LoseFrame PROVE InStep' /\ RepliesMatch'
    OBVIOUS
<1>1. /\ pending' = pending /\ answered' = answered /\ calls' = calls /\ hostPc' = hostPc
      /\ executed' = executed /\ request' = request
    BY DEF LoseFrame, hostVars, historyVars, deviceVars
<1>2. Within(toHost', toHost) /\ Within(toDevice', toDevice)
    <2>1. IsSeq(toHost) /\ IsSeq(toDevice)
        BY DEF PromptInv, IInv, InOrder, HostFrames, DeviceFrames
    <2>2. Within(toHost, toHost) /\ Within(toDevice, toDevice)
        BY DEF Within
    <2>3. CASE toDevice # <<>> /\ toDevice' = Tail(toDevice) /\ toHost' = toHost
        BY <2>1, <2>2, <2>3, PartsWithin
    <2>4. CASE toHost # <<>> /\ toHost' = Tail(toHost) /\ toDevice' = toDevice
        BY <2>1, <2>2, <2>4, PartsWithin
    <2> QED BY <2>3, <2>4 DEF LoseFrame
<1>3. Within(pending', pending)
    BY <1>1 DEF Within
<1> QED BY <1>1, <1>2, <1>3, PartsInStep, NothingAnswered DEF PromptInv

(* A restart loses the command.                                            *)
LEMMA DeviceRestartInStep == PromptInv /\ DeviceRestart => InStep' /\ RepliesMatch'
<1> SUFFICES ASSUME PromptInv, DeviceRestart PROVE InStep' /\ RepliesMatch'
    OBVIOUS
<1>1. /\ pending' = pending /\ toHost' = toHost /\ toDevice' = <<>>
      /\ answered' = answered /\ calls' = calls /\ hostPc' = hostPc
      /\ executed' = executed /\ request' = request
    BY DEF DeviceRestart, hostVars, historyVars
<1>2. Within(toDevice', toDevice)
    BY <1>1, EmptyIsSeq DEF Within
<1>3. Within(pending', pending) /\ Within(toHost', toHost)
    BY <1>1 DEF Within
<1> QED BY <1>1, <1>2, <1>3, PartsInStep, NothingAnswered DEF PromptInv

(* Nothing happens to the invariant in a stuttering step.                  *)
LEMMA StutterInStep == PromptInv /\ UNCHANGED vars => InStep' /\ RepliesMatch'
BY DEF PromptInv, InStep, RepliesMatch, Replied, Waiting, NotYetRun, OfThisRun,
       vars, hostVars, lineVars, deviceVars, faultVars, historyVars

(* What the prompt link keeps.                                             *)
LEMMA PromptInductive ==
    ASSUME ~LateReplies
    PROVE  Spec => []PromptInv
<1>1. Init => PromptInv
    BY InitIInv, InitInStep DEF PromptInv
<1>2. PromptInv /\ [Next]_vars => InStep' /\ RepliesMatch'
    BY CallInStep, SendFailsInStep, ReadChunkInStep, ConsumeStreamInStep, ConsumeReplyInStep,
       TimeoutInStep, PollInStep, HandlePacketInStep, EmitTelemetryInStep, LoseFrameInStep,
       DeviceRestartInStep, StutterInStep DEF Next, HostStep
<1>3. PromptInv /\ IInv' /\ [Next]_vars => PromptInv'
    BY <1>2 DEF PromptInv
<1> QED BY <1>1, <1>3, Inductive, PTL DEF Spec

(* Where no answer outlives its call, every reply that is taken for an     *)
(* answer is the answer: "only the matching Reply frame", which the        *)
(* transport of host.hpp is asked for, although nothing in a reply says    *)
(* which command it belongs to.                                            *)
THEOREM PromptRepliesMatch ==
    ASSUME ~LateReplies
    PROVE  Spec => []RepliesMatch
<1>1. PromptInv => RepliesMatch
    BY DEF PromptInv
<1> QED BY <1>1, PromptInductive, PTL

-----------------------------------------------------------------------------
(* The refinement: which step of the abstract call each action is.  What   *)
(* the actions that are none of its steps leave alone:                     *)
LEMMA StutterRefines ==
    ASSUME hostPc' = hostPc, calls' = calls, executed' = executed,
           request' = request, state' = state, result' = result
    PROVE  UNCHANGED AbstractCall!callVars
BY DEF AbstractCall!callVars, phase

(* A call that is sent is Invoke: its command has not run.                 *)
LEMMA CallRefines == PromptInv /\ Call => AbstractCall!Invoke
<1> SUFFICES ASSUME PromptInv, Call PROVE AbstractCall!Invoke
    OBVIOUS
<1>1. /\ hostPc = "idle" /\ hostPc' = "await" /\ calls' = calls + 1 /\ calls \in Nat
      /\ executed' = executed /\ state' = state /\ result' = result /\ request' \in Requests
    BY DEF PromptInv, IInv, Bounded, Call, deviceVars
<1>2. executed'.call # calls'
    BY <1>1 DEF PromptInv, InStep
<1>3. phase = "idle" /\ phase' = "called"
    BY <1>1, <1>2 DEF phase
<1> QED BY <1>1, <1>3 DEF AbstractCall!Invoke

(* One that is not sent is FailAtOnce.                                     *)
LEMMA SendFailsRefines == SendFails => AbstractCall!FailAtOnce
<1> SUFFICES ASSUME SendFails PROVE AbstractCall!FailAtOnce
    OBVIOUS
<1>1. phase = "idle" /\ phase' = "idle"
    BY DEF SendFails, phase
<1> QED BY <1>1 DEF SendFails, deviceVars, TransportError, AbstractCall!FailAtOnce,
                    AbstractCall!Failure, AbstractCall!Told

\* What the codecs of results must keep to: the room they are given.
EncodersKeepRoom ==
    \A op, rets : \A room \in Nat :
        LET sent == EncodeRets(op, rets, room)
        IN  sent.ok => IsSeq(sent.bytes) /\ Len(sent.bytes) <= room

(* A reply that fits is read as it was written, and no cast cuts it.       *)
LEMMA ReplyIsRead ==
    ASSUME NEW status, NEW bytes, IsSeq(bytes), Len(bytes) <= ReplyCap - 1
    PROVE  LET p == <<status>> \o bytes
           IN  Narrowed(p) = p /\ p # <<>> /\ Head(p) = status /\ Tail(p) = bytes
<1>1. PICK S : bytes \in Seq(S)
    BY DEF IsSeq
<1> DEFINE T == S \cup {status}
           p == <<status>> \o bytes
<1>2. bytes \in Seq(T) /\ <<status>> \in Seq(T) /\ Len(<<status>>) = 1 /\ <<status>>[1] = status
    BY <1>1
<1> HIDE DEF T
<1>3. p \in Seq(T) /\ Len(p) = 1 + Len(bytes) /\ Len(bytes) \in Nat
    BY <1>2
<1>4. p[1] = status /\ \A n \in 1 .. Len(bytes) : p[n + 1] = bytes[n]
    BY <1>2
<1> HIDE DEF p
<1>5. IsSeq(p) /\ p # <<>> /\ Head(p) = status
    BY <1>3, <1>4 DEF IsSeq
<1>6. Tail(p) = bytes
    <2>1. /\ IsSeq(Tail(p)) /\ Len(Tail(p)) = Len(bytes)
          /\ \A n \in 1 .. Len(bytes) : Tail(p)[n] = bytes[n]
        BY <1>3, <1>4, <1>5, TailOfSeq
    <2> QED BY <2>1, SameSeq
<1>7. Narrowed(p) = p
    <2>1. Len(p) \in Nat /\ Len(p) < LengthValues /\ LengthValues \in Nat
        BY <1>3, HostLinkAssumption
    <2>2. Len(p) % LengthValues = Len(p)
        BY <2>1
    <2>3. SubSeq(p, 1, Len(p)) = p
        BY <1>3
    <2> QED BY <2>2, <2>3 DEF Narrowed
<1> QED BY <1>5, <1>6, <1>7 DEF p

(* A bare status is read as that status.                                   *)
LEMMA StatusIsRead ==
    ASSUME NEW op, NEW status, status # "Ok", NEW s
    PROVE  ParseReply(op, Narrowed(Reply(status, <<>>, s).payload)) = AbstractCall!Told(status, <<>>)
<1>1. Len(<<>>) <= ReplyCap - 1
    BY HostLinkAssumption, EmptyIsSeq
<1> QED BY <1>1, EmptyIsSeq, ReplyIsRead DEF Reply, ParseReply, AbstractCall!Told

(* Answering a command is what the abstract call says of its execution:    *)
(* of the reply the device makes, the host reads what the caller is told.  *)
LEMMA DispatchExecutes ==
    ASSUME EncodersKeepRoom, NEW done, done = DispatchCommand(request, state, ReplyCap),
           state' = done.state, request' = request, phase' = "executed",
           executed'.payload = done.payload
    PROVE  AbstractCall!Refuse \/ AbstractCall!RunHandler
<1> DEFINE told == ParseReply(Head(request), done.payload)
           op == Head(request)
           given == DecodeArgs(op, Tail(request))
           thunk == DispatchThunk(op, Tail(request), state, ReplyCap - 1)
           outcome == IF phase = "executed" THEN ParseReply(Head(request), executed.payload)
                      ELSE TransportError
<1>1. outcome' = told
    OBVIOUS
<1>2. CASE request = <<>> \/ op \notin Table
    <2>1. done = Reply("UnknownCommand", <<>>, state)
        BY <1>2 DEF DispatchCommand
    <2>2. Narrowed(done.payload) = done.payload
        <3>1. Len(<<>>) <= ReplyCap - 1
            BY HostLinkAssumption, EmptyIsSeq
        <3>2. Narrowed(<<"UnknownCommand">> \o <<>>) = <<"UnknownCommand">> \o <<>>
            BY <3>1, EmptyIsSeq, ReplyIsRead
        <3> QED BY <2>1, <3>2 DEF Reply
    <2>3. told = AbstractCall!Told("UnknownCommand", <<>>) /\ done.state = state
        BY <2>1, <2>2, StatusIsRead DEF Reply
    <2> QED BY <1>1, <1>2, <2>3 DEF AbstractCall!Refuse, AbstractCall!Known
<1>3. CASE request # <<>> /\ op \in Table
    <2>1. done.payload = Narrowed(thunk.payload) /\ done.state = thunk.state
        BY <1>3 DEF DispatchCommand
    <2>2. CASE ~given.ok
        <3>1. thunk = Reply("BadArguments", <<>>, state)
            BY <2>2 DEF DispatchThunk
        <3>2. told = AbstractCall!Told("BadArguments", <<>>) /\ done.state = state
            BY <2>1, <3>1, StatusIsRead DEF Reply
        <3> QED BY <1>1, <1>3, <2>2, <3>2
                DEF AbstractCall!Refuse, AbstractCall!Known, AbstractCall!Given
    <2>3. CASE given.ok
        <3> DEFINE ran == Run(op, given.value, state)
                   sent == EncodeRets(op, ran.rets, ReplyCap - 1)
                   got == DecodeRets(op, sent.bytes)
        <3>1. CASE ~sent.ok
            <4>1. thunk = Reply("ReplyTooLarge", <<>>, ran.state)
                BY <2>3, <3>1 DEF DispatchThunk
            <4>2. told = AbstractCall!Told("ReplyTooLarge", <<>>) /\ done.state = ran.state
                BY <2>1, <4>1, StatusIsRead DEF Reply
            <4> QED BY <1>1, <1>3, <2>3, <3>1, <4>2
                    DEF AbstractCall!RunHandler, AbstractCall!Known, AbstractCall!Given
        <3>2. CASE sent.ok
            <4>1. thunk = Reply(ran.status, sent.bytes, ran.state)
                BY <2>3, <3>2 DEF DispatchThunk
            <4>2. IsSeq(sent.bytes) /\ Len(sent.bytes) <= ReplyCap - 1
                <5>1. ReplyCap - 1 \in Nat
                    BY HostLinkAssumption
                <5> QED BY <3>2, <5>1 DEF EncodersKeepRoom
            <4>3. /\ done.payload # <<>> /\ Head(done.payload) = ran.status
                  /\ Tail(done.payload) = sent.bytes /\ done.state = ran.state
                <5> DEFINE p == <<ran.status>> \o sent.bytes
                <5>1. thunk.payload = p /\ thunk.state = ran.state
                    BY <4>1 DEF Reply
                <5>2. Narrowed(p) = p /\ p # <<>> /\ Head(p) = ran.status /\ Tail(p) = sent.bytes
                    <6> HIDE DEF sent, ran
                    <6> QED BY <4>2, ReplyIsRead
                <5> HIDE DEF p, thunk, sent, ran
                <5> QED BY <2>1, <5>1, <5>2
            <4>4. told = IF ran.status # "Ok" THEN AbstractCall!Told(ran.status, <<>>)
                         ELSE IF got.ok THEN AbstractCall!Told("Ok", got.value)
                         ELSE AbstractCall!Told("BadArguments", <<>>)
                BY <4>3 DEF ParseReply, AbstractCall!Told
            <4> QED BY <1>1, <1>3, <2>3, <3>2, <4>3, <4>4
                    DEF AbstractCall!RunHandler, AbstractCall!Known, AbstractCall!Given
        <3> QED BY <3>1, <3>2
    <2> QED BY <2>2, <2>3
<1> QED BY <1>2, <1>3

(* Answering the command is Execute: it is the current one and runs once.  *)
LEMMA HandlePacketRefines ==
    ASSUME EncodersKeepRoom, PromptInv, HandlePacket
    PROVE  AbstractCall!Execute
<1> DEFINE cmd == Head(toDevice)
           done == DispatchCommand(cmd.payload, state, ReplyCap)
<1>1. /\ toDevice # <<>> /\ hostPc' = hostPc /\ calls' = calls
      /\ request' = request /\ result' = result /\ state' = done.state
      /\ executed' = [call |-> cmd.call, payload |-> done.payload]
    BY DEF HandlePacket, hostVars
<1>2. /\ 1 \in 1 .. Len(toDevice) /\ cmd = toDevice[1]
    BY <1>1, LengthOfSeq, TailOfSeq DEF PromptInv, IInv, InOrder, DeviceFrames
<1>3. cmd.payload = request /\ executed.call # calls
    BY <1>2 DEF PromptInv, InStep, NotYetRun
<1>4. cmd.call = calls /\ hostPc # "idle"
    BY <1>2 DEF PromptInv, InStep, Waiting, CommandCalls
<1>5. done = DispatchCommand(request, state, ReplyCap)
    BY <1>3
<1> HIDE DEF cmd, done
<1>6. executed'.call = calls' /\ executed'.payload = done.payload
    BY <1>1, <1>4
<1>7. phase = "called" /\ phase' = "executed"
    BY <1>1, <1>3, <1>4, <1>6 DEF phase
<1>8. AbstractCall!Refuse \/ AbstractCall!RunHandler
    BY <1>1, <1>5, <1>6, <1>7, DispatchExecutes
<1> QED BY <1>1, <1>7, <1>8 DEF AbstractCall!Execute

(* Taking the reply is Return: it is the reply of that run.                *)
LEMMA ConsumeReplyRefines == PromptInv /\ ConsumeReply => AbstractCall!Return
<1> SUFFICES ASSUME PromptInv, ConsumeReply PROVE AbstractCall!Return
    OBVIOUS
<1>1. /\ hostPc = "await" /\ hostPc' = "idle" /\ pending # <<>> /\ Head(pending).type = "Reply"
      /\ result' = ParseReply(Head(request), Head(pending).payload)
      /\ request' = request /\ state' = state
    BY DEF ConsumeReply, deviceVars
<1>2. 1 \in RepliesIn(pending) /\ Head(pending) = pending[1]
    BY <1>1, LengthOfSeq, TailOfSeq DEF PromptInv, IInv, InOrder, HostFrames, RepliesIn
<1>3. executed.call = calls /\ Head(pending).payload = executed.payload
    BY <1>2 DEF PromptInv, InStep, OfThisRun
<1>4. phase = "executed" /\ phase' = "idle"
    BY <1>1, <1>3 DEF phase
<1> QED BY <1>1, <1>3, <1>4
        DEF AbstractCall!Return, AbstractCall!Failure, AbstractCall!Told, TransportError

(* Giving up is Fail.                                                      *)
LEMMA TimeoutRefines == Timeout => AbstractCall!Fail
<1> SUFFICES ASSUME Timeout PROVE AbstractCall!Fail
    OBVIOUS
<1>1. phase # "idle" /\ phase' = "idle"
    BY DEF Timeout, phase
<1> QED BY <1>1 DEF Timeout, deviceVars, TransportError, AbstractCall!Fail,
                    AbstractCall!Failure, AbstractCall!Told

(* A restart is DeviceReset, whatever the call is doing.                   *)
LEMMA DeviceRestartRefines == DeviceRestart => AbstractCall!DeviceReset
BY DEF DeviceRestart, hostVars, phase, AbstractCall!DeviceReset

(* The link implements the abstract call when no answer outlives its call, *)
(* whatever the handlers do and whatever the codecs are, as long as those  *)
(* of results keep to the room they are given.                             *)
THEOREM PromptLinkIsAtMostOnce ==
    ASSUME ~LateReplies, EncodersKeepRoom
    PROVE  Spec => RefinesAbstractCall
<1>1. Init => AbstractCall!Init
    BY DEF Init, phase, TransportError, AbstractCall!Init, AbstractCall!Failure,
           AbstractCall!Told
<1>2. PromptInv /\ [Next]_vars => [AbstractCall!Next]_(AbstractCall!callVars)
    <2> SUFFICES ASSUME PromptInv, [Next]_vars
                 PROVE  [AbstractCall!Next]_(AbstractCall!callVars)
        OBVIOUS
    <2>1. CASE Call \/ SendFails
        BY <2>1, CallRefines, SendFailsRefines DEF AbstractCall!Next
    <2>2. CASE ConsumeReply \/ Timeout
        BY <2>2, ConsumeReplyRefines, TimeoutRefines DEF AbstractCall!Next
    <2>3. CASE HandlePacket \/ DeviceRestart
        BY <2>3, HandlePacketRefines, DeviceRestartRefines DEF AbstractCall!Next
    <2>4. CASE ReadChunk \/ ConsumeStream \/ Poll
        BY <2>4, StutterRefines DEF ReadChunk, ConsumeStream, Poll, deviceVars
    <2>5. CASE EmitTelemetry \/ LoseFrame
        BY <2>5, StutterRefines DEF EmitTelemetry, LoseFrame, hostVars, deviceVars
    <2>6. CASE UNCHANGED vars
        BY <2>6, StutterRefines DEF vars, hostVars, deviceVars
    <2> QED BY <2>1, <2>2, <2>3, <2>4, <2>5, <2>6 DEF Next, HostStep
<1> QED BY <1>1, <1>2, PromptInductive, PTL DEF Spec, RefinesAbstractCall, AbstractCall!Spec

-----------------------------------------------------------------------------
(* Telemetry: what Packets takes out of a buffer, for buffers of every     *)
(* length.  A non-empty set of numbers has a least element, which is what  *)
(* the inductions below rest on.                                           *)
LEMMA LeastElement ==
    ASSUME NEW T \in SUBSET Nat, T # {}
    PROVE  \E n \in T : \A m \in T : n <= m
<1> DEFINE R == {ss \in Nat \X Nat : ss[1] < ss[2]}
<1>1. IsWellFoundedOn(R, Nat)
    BY NatLessThanWellFounded DEF OpToRel
<1>2. PICK n \in T : \A m \in T : ~ (<<m, n>> \in R)
    <2> HIDE DEF R
    <2> QED BY <1>1, WFMin
<1>3. ASSUME NEW m \in T PROVE n <= m
    <2>1. m \in Nat /\ n \in Nat
        OBVIOUS
    <2>2. ~ (m < n)
        <3> SUFFICES ASSUME m < n PROVE <<m, n>> \in R
            BY <1>2
        <3> QED BY <2>1
    <2> QED BY <2>1, <2>2
<1> QED BY <1>3

(* A set with 0 and with the successors of its numbers holds all numbers.  *)
LEMMA SetInduction ==
    ASSUME NEW S, 0 \in S, \A n \in Nat : n \in S => n + 1 \in S
    PROVE  \A n \in Nat : n \in S
<1> SUFFICES ASSUME NEW k \in Nat, k \notin S PROVE FALSE
    OBVIOUS
<1> DEFINE T == Nat \ S
<1>1. PICK n \in T : \A m \in T : n <= m
    <2>1. T \in SUBSET Nat /\ T # {}
        OBVIOUS
    <2> HIDE DEF T
    <2> QED BY <2>1, LeastElement
<1>2. n # 0 /\ n - 1 \in Nat
    OBVIOUS
<1>3. n - 1 \notin T
    BY <1>1, <1>2
<1> QED BY <1>2, <1>3

(* Two sequences one after the other.                                      *)
LEMMA ConcatSeq ==
    ASSUME NEW s, NEW t, IsSeq(s), IsSeq(t)
    PROVE  /\ IsSeq(s \o t) /\ Len(s \o t) = Len(s) + Len(t)
           /\ \A n \in 1 .. Len(s) : (s \o t)[n] = s[n]
           /\ \A n \in 1 .. Len(t) : (s \o t)[Len(s) + n] = t[n]
<1>1. PICK S : s \in Seq(S)
    BY DEF IsSeq
<1>2. PICK T : t \in Seq(T)
    BY DEF IsSeq
<1> DEFINE U == S \cup T
<1>3. s \in Seq(U) /\ t \in Seq(U)
    BY <1>1, <1>2
<1> HIDE DEF U
<1>4. s \o t \in Seq(U) /\ Len(s) \in Nat /\ Len(t) \in Nat
    BY <1>3
<1> QED BY <1>3, <1>4 DEF IsSeq

(* Concatenation is associative.                                           *)
LEMMA ConcatAssoc ==
    ASSUME NEW s, NEW t, NEW u, IsSeq(s), IsSeq(t), IsSeq(u)
    PROVE  (s \o t) \o u = s \o (t \o u)
<1>1. PICK S : s \in Seq(S)
    BY DEF IsSeq
<1>2. PICK T : t \in Seq(T)
    BY DEF IsSeq
<1>3. PICK X : u \in Seq(X)
    BY DEF IsSeq
<1> DEFINE U == S \cup T \cup X
<1>4. s \in Seq(U) /\ t \in Seq(U) /\ u \in Seq(U)
    BY <1>1, <1>2, <1>3
<1> HIDE DEF U
<1> QED BY <1>4, ConcatAssociative

(* The empty sequence is neutral.                                          *)
LEMMA ConcatEmpty ==
    ASSUME NEW s, IsSeq(s)
    PROVE  s \o <<>> = s /\ <<>> \o s = s
<1>1. PICK S : s \in Seq(S)
    BY DEF IsSeq
<1> QED BY <1>1, ConcatEmptySeq

(* One element.                                                            *)
LEMMA OneSeq ==
    ASSUME NEW x
    PROVE  IsSeq(<<x>>) /\ Len(<<x>>) = 1 /\ <<x>>[1] = x
<1>1. <<x>> \in Seq({x})
    OBVIOUS
<1> QED BY <1>1 DEF IsSeq

(* A sequence taken apart.                                                 *)
LEMMA Parts ==
    ASSUME NEW s, IsSeq(s)
    PROVE  /\ \A x : Append(s, x) = s \o <<x>>
           /\ s # <<>> => s = <<Head(s)>> \o Tail(s)
           /\ \A n \in 0 .. Len(s) : s = SubSeq(s, 1, n) \o SubSeq(s, n + 1, Len(s))
<1>1. Len(s) \in Nat
    BY LengthOfSeq
<1>2. ASSUME NEW x PROVE Append(s, x) = s \o <<x>>
    <2>1. Len(s \o <<x>>) = Len(s) + 1 /\ IsSeq(s \o <<x>>) /\ IsSeq(Append(s, x))
          /\ Len(Append(s, x)) = Len(s) + 1
        BY ConcatSeq, OneSeq, AppendToSeq
    <2>2. \A k \in 1 .. Len(s) + 1 : k \in 1 .. Len(s) \/ k = Len(s) + 1
        BY <1>1
    <2>3. ASSUME NEW k \in 1 .. Len(s) + 1 PROVE Append(s, x)[k] = (s \o <<x>>)[k]
        <3>1. (s \o <<x>>)[Len(s) + 1] = x
            BY ConcatSeq, OneSeq
        <3> QED BY <2>2, <3>1, ConcatSeq, OneSeq, AppendToSeq
    <2> QED BY <2>1, <2>3, SameSeq
<1>3. ASSUME s # <<>> PROVE s = <<Head(s)>> \o Tail(s)
    <2> DEFINE t == <<Head(s)>> \o Tail(s)
    <2>1. /\ Len(s) >= 1 /\ IsSeq(Tail(s)) /\ Len(Tail(s)) = Len(s) - 1 /\ Head(s) = s[1]
          /\ \A k \in 1 .. Len(s) - 1 : Tail(s)[k] = s[k + 1]
        BY <1>3, TailOfSeq, LengthOfSeq
    <2>2. /\ IsSeq(t) /\ Len(t) = 1 + (Len(s) - 1) /\ t[1] = Head(s)
          /\ \A k \in 1 .. Len(s) - 1 : t[1 + k] = Tail(s)[k]
        <3> HIDE <1>3
        <3>1. 1 \in 1 .. 1
            OBVIOUS
        <3> QED BY <2>1, <3>1, ConcatSeq, OneSeq
    <2> HIDE DEF t
    <2>3. ASSUME NEW k \in 1 .. Len(s) PROVE s[k] = t[k]
        <3>1. CASE k = 1
            BY <2>1, <2>2, <3>1
        <3>2. CASE k # 1
            <4>1. k - 1 \in 1 .. Len(s) - 1 /\ 1 + (k - 1) = k /\ (k - 1) + 1 = k
                BY <1>1, <3>2
            <4> QED BY <2>1, <2>2, <4>1
        <3> QED BY <3>1, <3>2
    <2>4. Len(t) = Len(s)
        BY <1>1, <2>2
    <2> QED BY <2>2, <2>3, <2>4, SameSeq DEF t
<1>4. ASSUME NEW n \in 0 .. Len(s)
      PROVE  s = SubSeq(s, 1, n) \o SubSeq(s, n + 1, Len(s))
    <2> DEFINE a == SubSeq(s, 1, n)
               b == SubSeq(s, n + 1, Len(s))
               t == a \o b
    <2>1. /\ IsSeq(a) /\ Len(a) = n /\ \A k \in 1 .. n : a[k] = s[k]
          /\ IsSeq(b) /\ Len(b) = Len(s) - n /\ \A k \in 1 .. Len(s) - n : b[k] = s[n + k]
        BY CutSeq
    <2> HIDE DEF a, b
    <2>2. /\ IsSeq(t) /\ Len(t) = n + (Len(s) - n)
          /\ \A k \in 1 .. n : t[k] = a[k]
          /\ \A k \in 1 .. Len(s) - n : t[n + k] = b[k]
        BY <2>1, ConcatSeq
    <2> HIDE DEF t
    <2>3. n \in Nat /\ n <= Len(s)
        BY <1>1
    <2>4. ASSUME NEW k \in 1 .. Len(s) PROVE s[k] = t[k]
        <3>1. CASE k <= n
            <4>1. k \in 1 .. n
                BY <2>3, <3>1
            <4> QED BY <2>1, <2>2, <4>1
        <3>2. CASE ~ (k <= n)
            <4>1. PICK j \in 1 .. Len(s) - n : k = n + j
                <5>1. k - n \in 1 .. Len(s) - n /\ k = n + (k - n)
                    BY <1>1, <2>3, <3>2
                <5> QED BY <5>1
            <4>2. t[n + j] = b[j] /\ b[j] = s[n + j]
                BY <2>1, <2>2
            <4> QED BY <4>1, <4>2
        <3> QED BY <3>1, <3>2
    <2>5. Len(t) = Len(s)
        BY <1>1, <2>2, <2>3
    <2>6. s = t
        BY <2>2, <2>4, <2>5, SameSeq
    <2> QED BY <2>6 DEF a, b, t
<1> QED BY <1>2, <1>3, <1>4

(* Appending to the second of two sequences is appending to both.          *)
LEMMA AppendInside ==
    ASSUME NEW p, NEW q, NEW x, IsSeq(p), IsSeq(q)
    PROVE  Append(p \o q, x) = p \o Append(q, x)
<1>1. PICK o : o = <<x>> /\ IsSeq(o)
    BY OneSeq
<1>2. Append(p \o q, x) = (p \o q) \o o /\ Append(q, x) = q \o o
    BY <1>1, ConcatSeq, Parts
<1>3. (p \o q) \o o = p \o (q \o o)
    BY <1>1, ConcatAssoc
<1> QED BY <1>2, <1>3

\* The step of the recursion of Packets.
Take(before, f) == IF f.type = "Stream" THEN Append(before, f.packet) ELSE before

(* The step works on the second of two sequences as on both.               *)
LEMMA TakeInside ==
    ASSUME NEW p, NEW q, NEW f, IsSeq(p), IsSeq(q)
    PROVE  Take(p \o q, f) = p \o Take(q, f)
<1>1. CASE f.type = "Stream"
    BY <1>1, AppendInside DEF Take
<1>2. CASE f.type # "Stream"
    <2>1. Take(p \o q, f) = p \o q /\ Take(q, f) = q
        BY <1>2 DEF Take
    <2> QED BY <2>1
<1> QED BY <1>1, <1>2

\* A function that takes it n times.
Taking(s, n, F) ==
    F = [k \in 0 .. n |-> IF k = 0 THEN <<>>
                          ELSE IF s[k].type = "Stream" THEN Append(F[k - 1], s[k].packet)
                          ELSE F[k - 1]]

(* What such a function does, one argument at a time.                      *)
LEMMA TakingSteps ==
    ASSUME NEW s, NEW n \in Nat, NEW F, Taking(s, n, F)
    PROVE  /\ DOMAIN F = 0 .. n /\ F[0] = <<>>
           /\ \A k \in Nat : k < n => F[k + 1] = Take(F[k], s[k + 1])
<1> DEFINE G == [k \in 0 .. n |-> IF k = 0 THEN <<>>
                          ELSE IF s[k].type = "Stream" THEN Append(F[k - 1], s[k].packet)
                          ELSE F[k - 1]]
<1>1. F = G
    BY DEF Taking
<1>2. DOMAIN G = 0 .. n /\ G[0] = <<>>
    OBVIOUS
<1>3. ASSUME NEW k \in Nat, k < n PROVE G[k + 1] = Take(F[k], s[k + 1])
    <2>1. k + 1 \in 0 .. n /\ k + 1 # 0 /\ (k + 1) - 1 = k
        BY <1>3
    <2> QED BY <2>1 DEF Take
<1> HIDE DEF G
<1> QED BY <1>1, <1>2, <1>3

(* There is one for every n.                                               *)
LEMMA TakingExists == ASSUME NEW s, NEW n \in Nat PROVE \E F : Taking(s, n, F)
<1> DEFINE S == {m \in Nat : \E F : Taking(s, m, F)}
<1>1. 0 \in S
    <2> DEFINE F == [k \in 0 .. 0 |-> <<>>]
    <2>1. Taking(s, 0, F)
        BY DEF Taking
    <2> QED BY <2>1
<1>2. ASSUME NEW m \in Nat, m \in S PROVE m + 1 \in S
    <2>1. PICK F : Taking(s, m, F)
        BY <1>2
    <2>2. /\ F[0] = <<>>
          /\ \A k \in Nat : k < m => F[k + 1] = Take(F[k], s[k + 1])
        BY <2>1, TakingSteps
    <2> DEFINE G == [k \in 0 .. m + 1 |-> IF k <= m THEN F[k] ELSE Take(F[m], s[m + 1])]
               H == [k \in 0 .. m + 1 |->
                        IF k = 0 THEN <<>>
                        ELSE IF s[k].type = "Stream" THEN Append(G[k - 1], s[k].packet)
                        ELSE G[k - 1]]
    <2>3. ASSUME NEW k \in 0 .. m + 1 PROVE G[k] = H[k]
        <3>1. CASE k = 0
            BY <2>2, <3>1
        <3>2. CASE k # 0
            <4>1. PICK j \in Nat : k = j + 1 /\ j <= m
                <5>1. k - 1 \in Nat /\ k = (k - 1) + 1 /\ k - 1 <= m
                    BY <3>2
                <5> QED BY <5>1
            <4>2. G[j] = F[j]
                BY <4>1
            <4>3. H[k] = Take(G[j], s[j + 1])
                <5> HIDE DEF G
                <5> QED BY <4>1, <3>2 DEF Take
            <4>4. CASE j = m
                <5>1. G[k] = Take(F[m], s[m + 1])
                    BY <4>1, <4>4
                <5> QED BY <4>2, <4>3, <4>4, <5>1
            <4>5. CASE j < m
                <5>1. G[k] = F[j + 1]
                    BY <4>1, <4>5
                <5> QED BY <2>2, <4>2, <4>3, <4>5, <5>1
            <4> QED BY <4>1, <4>4, <4>5
        <3> QED BY <3>1, <3>2
    <2>4. G = H
        BY <2>3
    <2>5. Taking(s, m + 1, G)
        <3> HIDE DEF G
        <3> QED BY <2>4 DEF Taking
    <2> QED BY <2>5
<1> HIDE DEF S
<1>3. n \in S
    BY <1>1, <1>2, SetInduction
<1> QED BY <1>3 DEF S

(* Packets is the last value of such a function.                           *)
LEMMA PacketsTaken ==
    ASSUME NEW s, IsSeq(s)
    PROVE  \E F : Taking(s, Len(s), F) /\ Packets(s) = F[Len(s)]
<1> DEFINE F == CHOOSE F : Taking(s, Len(s), F)
<1>1. Taking(s, Len(s), F)
    BY TakingExists, LengthOfSeq
<1>2. Packets(s) = F[Len(s)]
    BY DEF Packets, Taking
<1> QED BY <1>1, <1>2

(* It takes sequences to sequences.                                        *)
LEMMA TakingSeqs ==
    ASSUME NEW s, NEW n \in Nat, NEW F, Taking(s, n, F)
    PROVE  \A k \in 0 .. n : IsSeq(F[k])
<1> DEFINE S == {k \in Nat : k <= n => IsSeq(F[k])}
<1>1. 0 \in S
    BY TakingSteps, EmptyIsSeq
<1>2. ASSUME NEW k \in Nat, k \in S PROVE k + 1 \in S
    <2> SUFFICES ASSUME k + 1 <= n PROVE IsSeq(F[k + 1])
        OBVIOUS
    <2>1. k < n /\ IsSeq(F[k])
        BY <1>2
    <2>2. F[k + 1] = Take(F[k], s[k + 1])
        BY <2>1, TakingSteps
    <2> QED BY <2>1, <2>2, AppendToSeq DEF Take
<1> HIDE DEF S
<1>3. \A k \in Nat : k \in S
    BY <1>1, <1>2, SetInduction
<1> QED BY <1>3 DEF S

(* The packets of two buffers are those of the one, then those of the      *)
(* other.                                                                  *)
LEMMA PacketsConcat ==
    ASSUME NEW s, NEW t, IsSeq(s), IsSeq(t)
    PROVE  IsSeq(Packets(s)) /\ Packets(s \o t) = Packets(s) \o Packets(t)
<1> DEFINE l == Len(s)
           m == Len(t)
           u == s \o t
<1>1. /\ l \in Nat /\ m \in Nat /\ IsSeq(u) /\ Len(u) = l + m
      /\ \A n \in 1 .. l : u[n] = s[n]
      /\ \A n \in 1 .. m : u[l + n] = t[n]
    BY ConcatSeq, LengthOfSeq
<1>0. l \in Nat /\ m \in Nat
    BY LengthOfSeq
<1>2. PICK F : Taking(s, l, F) /\ Packets(s) = F[l]
    BY PacketsTaken
<1>3. PICK G : Taking(t, m, G) /\ Packets(t) = G[m]
    BY PacketsTaken
<1>4. PICK H : Taking(u, l + m, H) /\ Packets(u) = H[l + m]
    BY <1>1, PacketsTaken
<1> HIDE DEF l, m, u
<1>5. /\ F[0] = <<>> /\ \A k \in Nat : k < l => F[k + 1] = Take(F[k], s[k + 1])
      /\ \A k \in 0 .. l : IsSeq(F[k])
    <2>1. /\ F[0] = <<>> /\ \A k \in Nat : k < l => F[k + 1] = Take(F[k], s[k + 1])
        BY <1>0, <1>2, TakingSteps
    <2>2. \A k \in 0 .. l : IsSeq(F[k])
        BY <1>0, <1>2, TakingSeqs
    <2> QED BY <2>1, <2>2
<1>6. /\ G[0] = <<>> /\ \A k \in Nat : k < m => G[k + 1] = Take(G[k], t[k + 1])
      /\ \A k \in 0 .. m : IsSeq(G[k])
    <2>1. /\ G[0] = <<>> /\ \A k \in Nat : k < m => G[k + 1] = Take(G[k], t[k + 1])
        BY <1>0, <1>3, TakingSteps
    <2>2. \A k \in 0 .. m : IsSeq(G[k])
        BY <1>0, <1>3, TakingSeqs
    <2> QED BY <2>1, <2>2
<1>7. H[0] = <<>> /\ \A k \in Nat : k < l + m => H[k + 1] = Take(H[k], u[k + 1])
    <2>1. l + m \in Nat
        BY <1>1
    <2> QED BY <1>4, <2>1, TakingSteps
<1>8. IsSeq(F[l])
    BY <1>1, <1>5
<1> DEFINE A == {k \in Nat : k <= l => H[k] = F[k]}
<1>9. \A k \in Nat : k \in A
    <2>1. 0 \in A
        BY <1>5, <1>7
    <2>2. ASSUME NEW k \in Nat, k \in A PROVE k + 1 \in A
        <3> SUFFICES ASSUME k + 1 <= l PROVE H[k + 1] = F[k + 1]
            OBVIOUS
        <3>1. k < l /\ k < l + m /\ k + 1 \in 1 .. l /\ H[k] = F[k]
            BY <1>1, <2>2
        <3>2. u[k + 1] = s[k + 1]
            BY <1>1, <3>1
        <3> QED BY <1>5, <1>7, <3>1, <3>2
    <2> HIDE DEF A
    <2> QED BY <2>1, <2>2, SetInduction
<1>10. PICK J : /\ J[0] = F[l] /\ J[m] = H[l + m]
                /\ \A k \in Nat : k < m => J[k + 1] = Take(J[k], t[k + 1])
    <2> DEFINE K == [k \in 0 .. m |-> H[l + k]]
    <2>1. K[0] = F[l] /\ K[m] = H[l + m]
        <3>1. H[l] = F[l] /\ l + 0 = l /\ 0 \in 0 .. m /\ m \in 0 .. m
            BY <1>1, <1>9
        <3> QED BY <3>1
    <2>2. ASSUME NEW k \in Nat, k < m PROVE K[k + 1] = Take(K[k], t[k + 1])
        <3>1. PICK j \in Nat : j = l + k /\ j < l + m /\ l + (k + 1) = j + 1
            BY <1>1, <2>2
        <3>2. k \in 0 .. m /\ k + 1 \in 0 .. m /\ k + 1 \in 1 .. m
            BY <1>1, <2>2
        <3>3. K[k] = H[j] /\ K[k + 1] = H[j + 1]
            BY <3>1, <3>2
        <3>4. u[j + 1] = t[k + 1]
            BY <1>1, <3>1, <3>2
        <3> HIDE DEF K
        <3> QED BY <1>7, <3>1, <3>3, <3>4
    <2> HIDE DEF K
    <2> QED BY <2>1, <2>2
<1>11. PICK p : p = F[l] /\ IsSeq(p)
    BY <1>8
<1> DEFINE B == {k \in Nat : k <= m => J[k] = p \o G[k]}
<1>12. \A k \in Nat : k \in B
    <2>1. 0 \in B
        <3>1. p \o <<>> = p
            BY <1>11, ConcatEmpty
        <3>2. J[0] = p /\ G[0] = <<>>
            BY <1>6, <1>10, <1>11
        <3>3. J[0] = p \o G[0]
            BY <3>1, <3>2
        <3> QED BY <3>3
    <2>2. ASSUME NEW k \in Nat, k \in B PROVE k + 1 \in B
        <3>1. CASE ~ (k + 1 <= m)
            BY <3>1
        <3>2. CASE k + 1 <= m
            <4>1. k < m /\ k \in 0 .. m /\ J[k] = p \o G[k]
                BY <1>1, <2>2, <3>2
            <4>2. PICK q : q = G[k] /\ IsSeq(q)
                BY <1>6, <4>1
            <4>3. J[k + 1] = Take(p \o q, t[k + 1]) /\ G[k + 1] = Take(q, t[k + 1])
                BY <1>6, <1>10, <4>1, <4>2
            <4>4. Take(p \o q, t[k + 1]) = p \o Take(q, t[k + 1])
                <5>1. IsSeq(p) /\ IsSeq(q)
                    BY <1>11, <4>2
                <5>2. PICK f : f = t[k + 1]
                    OBVIOUS
                <5>3. Take(p \o q, f) = p \o Take(q, f)
                    BY <5>1, TakeInside
                <5> QED BY <5>2, <5>3
            <4>5. J[k + 1] = p \o G[k + 1]
                BY <4>3, <4>4
            <4> QED BY <4>5
        <3> QED BY <3>1, <3>2
    <2> HIDE DEF B
    <2> QED BY <2>1, <2>2, SetInduction
<1>13. J[m] = p \o G[m]
    BY <1>1, <1>12
<1> QED BY <1>2, <1>3, <1>4, <1>10, <1>11, <1>13 DEF u

(* The packets of no frame and of one.                                     *)
LEMMA PacketsOfOne ==
    /\ Packets(<<>>) = <<>>
    /\ \A f : Packets(<<f>>) = IF f.type = "Stream" THEN <<f.packet>> ELSE <<>>
<1>1. Packets(<<>>) = <<>>
    <2>1. PICK F : Taking(<<>>, 0, F) /\ Packets(<<>>) = F[0]
        BY PacketsTaken, EmptyIsSeq
    <2> QED BY <2>1, TakingSteps
<1>2. ASSUME NEW f PROVE Packets(<<f>>) = IF f.type = "Stream" THEN <<f.packet>> ELSE <<>>
    <2>1. PICK F : Taking(<<f>>, 1, F) /\ Packets(<<f>>) = F[1]
        BY PacketsTaken, OneSeq
    <2>2. F[0] = <<>> /\ F[0 + 1] = Take(F[0], <<f>>[0 + 1])
        BY <2>1, TakingSteps
    <2>3. F[1] = Take(<<>>, f)
        BY <2>2
    <2>4. Append(<<>>, f.packet) = <<f.packet>>
        OBVIOUS
    <2> QED BY <2>1, <2>3, <2>4 DEF Take
<1> QED BY <1>1, <1>2

\* Concatenation by a name of its own: from here on only its laws matter.
Then(s, t) == s \o t

(* Concatenation is associative and the empty sequence is neutral.         *)
LEMMA ThenLaws ==
    /\ \A s, t : IsSeq(s) /\ IsSeq(t) => IsSeq(Then(s, t))
    /\ \A s, t, u : IsSeq(s) /\ IsSeq(t) /\ IsSeq(u) =>
          Then(Then(s, t), u) = Then(s, Then(t, u))
    /\ \A s : IsSeq(s) => Then(s, <<>>) = s /\ Then(<<>>, s) = s
<1>1. ASSUME NEW s, NEW t, IsSeq(s), IsSeq(t) PROVE IsSeq(Then(s, t))
    BY <1>1, ConcatSeq DEF Then
<1>2. ASSUME NEW s, NEW t, NEW u, IsSeq(s), IsSeq(t), IsSeq(u)
      PROVE  Then(Then(s, t), u) = Then(s, Then(t, u))
    BY <1>2, ConcatAssoc DEF Then
<1>3. ASSUME NEW s, IsSeq(s) PROVE Then(s, <<>>) = s /\ Then(<<>>, s) = s
    BY <1>3, ConcatEmpty DEF Then
<1> QED BY <1>1, <1>2, <1>3

(* A sequence taken apart keeps its packets.                               *)
LEMMA PacketsThen ==
    /\ \A s, t : IsSeq(s) /\ IsSeq(t) => Packets(Then(s, t)) = Then(Packets(s), Packets(t))
    /\ \A s : IsSeq(s) => IsSeq(Packets(s))
<1>1. ASSUME NEW s, NEW t, IsSeq(s), IsSeq(t)
      PROVE  Packets(Then(s, t)) = Then(Packets(s), Packets(t))
    BY <1>1, PacketsConcat DEF Then
<1>2. ASSUME NEW s, IsSeq(s) PROVE IsSeq(Packets(s))
    BY <1>2, PacketsConcat
<1> QED BY <1>1, <1>2

(* What a sequence is made of.                                             *)
LEMMA MadeOf ==
    ASSUME NEW s, IsSeq(s)
    PROVE  /\ \A x : Append(s, x) = Then(s, <<x>>) /\ IsSeq(<<x>>)
           /\ s # <<>> => s = Then(<<Head(s)>>, Tail(s)) /\ IsSeq(Tail(s))
           /\ \A n \in 0 .. Len(s) :
                 /\ s = Then(SubSeq(s, 1, n), SubSeq(s, n + 1, Len(s)))
                 /\ IsSeq(SubSeq(s, 1, n)) /\ IsSeq(SubSeq(s, n + 1, Len(s)))
<1>1. \A x : Append(s, x) = Then(s, <<x>>)
    BY Parts DEF Then
<1>2. \A x : IsSeq(<<x>>)
    BY OneSeq
<1>3. s # <<>> => s = Then(<<Head(s)>>, Tail(s))
    BY Parts DEF Then
<1>4. s # <<>> => IsSeq(Tail(s))
    BY TailOfSeq
<1>5. \A n \in 0 .. Len(s) : s = Then(SubSeq(s, 1, n), SubSeq(s, n + 1, Len(s)))
    BY Parts DEF Then
<1>6. \A n \in 0 .. Len(s) : IsSeq(SubSeq(s, 1, n)) /\ IsSeq(SubSeq(s, n + 1, Len(s)))
    BY CutSeq
<1> QED BY <1>1, <1>2, <1>3, <1>4, <1>5, <1>6

\* Numbers up to top, each larger than the one before.
Ascending(q, top) ==
    /\ IsSeq(q)
    /\ \A n \in 1 .. Len(q) : q[n] \in 1 .. top
    /\ \A m, n \in 1 .. Len(q) : m < n => q[m] < q[n]

(* The next number fits at the end.                                        *)
LEMMA AscendOn ==
    ASSUME NEW q, NEW top \in Nat, Ascending(q, top)
    PROVE  Ascending(Append(q, top + 1), top + 1)
<1> DEFINE t == Append(q, top + 1)
<1>1. /\ Len(q) \in Nat /\ IsSeq(t) /\ Len(t) = Len(q) + 1
      /\ \A k \in 1 .. Len(q) : t[k] = q[k]
      /\ t[Len(q) + 1] = top + 1
    BY LengthOfSeq, AppendToSeq DEF Ascending
<1> HIDE DEF t
<1>2. \A k \in 1 .. Len(q) : t[k] \in 1 .. top /\ t[k] < top + 1
    BY <1>1 DEF Ascending
<1>3. \A k \in 1 .. Len(t) : k \in 1 .. Len(q) \/ k = Len(q) + 1
    BY <1>1
<1>4. \A k \in 1 .. Len(t) : t[k] \in 1 .. top + 1
    BY <1>1, <1>2, <1>3
<1>5. ASSUME NEW m \in 1 .. Len(t), NEW n \in 1 .. Len(t), m < n
      PROVE  t[m] < t[n]
    <2>1. m \in 1 .. Len(q)
        BY <1>1, <1>5
    <2>2. CASE n \in 1 .. Len(q)
        BY <1>1, <1>5, <2>1, <2>2 DEF Ascending
    <2>3. CASE n = Len(q) + 1
        BY <1>1, <1>2, <2>1, <2>3
    <2> QED BY <1>3, <2>2, <2>3
<1> QED BY <1>1, <1>4, <1>5 DEF Ascending, t

(* One number taken out leaves the others in order.                        *)
LEMMA AscendWithout ==
    ASSUME NEW a, NEW b, NEW x, NEW top, IsSeq(a), IsSeq(b),
           Ascending(Then(a, Then(<<x>>, b)), top)
    PROVE  Ascending(Then(a, b), top)
<1> DEFINE q == a \o (<<x>> \o b)
           t == a \o b
           l == Len(a)
           m == Len(b)
<1>1. PICK c : c = <<x>> \o b /\ IsSeq(c) /\ Len(c) = 1 + m
               /\ \A k \in 1 .. m : c[1 + k] = b[k]
    <2>1. PICK o : o = <<x>> /\ IsSeq(o) /\ Len(o) = 1
        BY OneSeq
    <2>2. /\ IsSeq(o \o b) /\ Len(o \o b) = 1 + m
          /\ \A k \in 1 .. m : (o \o b)[Len(o) + k] = b[k]
        BY <2>1, ConcatSeq
    <2> QED BY <2>1, <2>2
<1>2. l \in Nat /\ m \in Nat
    BY LengthOfSeq
<1>3. /\ Len(q) = l + (1 + m) /\ \A k \in 1 .. l : q[k] = a[k]
      /\ \A k \in 1 .. 1 + m : q[l + k] = c[k]
    BY <1>1, ConcatSeq
<1>4. /\ IsSeq(t) /\ Len(t) = l + m /\ \A k \in 1 .. l : t[k] = a[k]
      /\ \A k \in 1 .. m : t[l + k] = b[k]
    BY ConcatSeq
<1>5. Ascending(q, top)
    BY DEF Then
<1> HIDE DEF q, t, l, m
<1> DEFINE at(k) == IF k <= l THEN k ELSE k + 1
<1>6. ASSUME NEW k \in 1 .. Len(t) PROVE at(k) \in 1 .. Len(q) /\ t[k] = q[at(k)]
    <2>1. CASE k <= l
        <3>1. k \in 1 .. l /\ k \in 1 .. Len(q)
            BY <1>2, <1>3, <1>4, <2>1
        <3> QED BY <1>3, <1>4, <2>1, <3>1
    <2>2. CASE ~ (k <= l)
        <3>1. PICK j \in 1 .. m : k = l + j
            <4>1. k - l \in 1 .. m /\ k = l + (k - l)
                BY <1>2, <1>4, <2>2
            <4> QED BY <4>1
        <3>2. at(k) = l + (1 + j) /\ 1 + j \in 1 .. 1 + m /\ at(k) \in 1 .. Len(q)
            BY <1>2, <1>3, <2>2, <3>1
        <3>3. t[k] = b[j] /\ q[at(k)] = c[1 + j]
            <4> HIDE DEF at
            <4> QED BY <1>3, <1>4, <3>1, <3>2
        <3> QED BY <1>1, <3>2, <3>3
    <2> QED BY <2>1, <2>2
<1>7. ASSUME NEW j \in 1 .. Len(t), NEW k \in 1 .. Len(t), j < k
      PROVE  at(j) < at(k)
    BY <1>2, <1>4, <1>7
<1> HIDE DEF at
<1>8. \A k \in 1 .. Len(t) : t[k] \in 1 .. top
    BY <1>5, <1>6 DEF Ascending
<1>9. \A j, k \in 1 .. Len(t) : j < k => t[j] < t[k]
    BY <1>5, <1>6, <1>7 DEF Ascending
<1>10. Ascending(t, top)
    BY <1>4, <1>8, <1>9 DEF Ascending
<1> QED BY <1>10 DEF t, Then

\* What the host was given, is buffering and has on the line.
Pushed == Then(delivered, Then(Packets(pending), Packets(toHost)))

\* For a device that counts what it pushes: the numbers ascend, and until a frame is
\* lost none is missing.
StreamInv ==
    /\ IsSeq(delivered)
    /\ Ascending(Pushed, emitted)
    /\ losses = 0 => Pushed = [n \in 1 .. emitted |-> n]

(* What the two invariants say of the types.                               *)
LEMMA StreamTypes ==
    ASSUME IInv, StreamInv
    PROVE  /\ IsSeq(pending) /\ IsSeq(toHost) /\ IsSeq(delivered)
           /\ IsSeq(Packets(pending)) /\ IsSeq(Packets(toHost))
           /\ emitted \in Nat /\ losses \in Nat
<1>1. IsSeq(pending) /\ IsSeq(toHost)
    BY DEF IInv, InOrder, HostFrames
<1>2. emitted \in Nat /\ losses \in Nat
    BY HostLinkAssumption DEF IInv, Bounded
<1> QED BY <1>1, <1>2, PacketsThen DEF StreamInv

(* Frames that only change places.                                         *)
LEMMA SamePushed ==
    ASSUME StreamInv, Pushed' = Pushed, IsSeq(delivered'),
           emitted' = emitted, losses' = losses
    PROVE  StreamInv'
BY DEF StreamInv

(* Reading a chunk cuts the line where the buffer, empty, takes over.      *)
LEMMA ReadChunkStreams == IInv /\ StreamInv /\ ReadChunk => StreamInv'
<1> SUFFICES ASSUME IInv, StreamInv, ReadChunk PROVE StreamInv'
    OBVIOUS
<1>1. PICK n \in 1 .. Len(toHost) :
          /\ pending' = SubSeq(toHost, 1, n)
          /\ toHost' = SubSeq(toHost, n + 1, Len(toHost))
    BY DEF ReadChunk
<1>2. pending = <<>> /\ delivered' = delivered /\ emitted' = emitted /\ losses' = losses
    BY DEF ReadChunk, deviceVars, faultVars, historyVars
<1>3. n \in 0 .. Len(toHost)
    BY StreamTypes, LengthOfSeq
<1>4. toHost = Then(pending', toHost') /\ IsSeq(pending') /\ IsSeq(toHost')
    BY <1>1, <1>3, StreamTypes, MadeOf
<1>5. Packets(toHost) = Then(Packets(pending'), Packets(toHost'))
    BY <1>4, PacketsThen
<1>6. Then(Packets(pending), Packets(toHost)) = Packets(toHost)
    BY <1>2, StreamTypes, PacketsOfOne, ThenLaws
<1> QED BY <1>2, <1>5, <1>6, SamePushed DEF Pushed, StreamInv

(* What leaves the buffer reaches the handler, or is no packet.            *)
LEMMA HeadDelivered ==
    ASSUME IInv, StreamInv, pending # <<>>, pending' = Tail(pending), toHost' = toHost,
           delivered' = Then(delivered, Packets(<<Head(pending)>>)),
           emitted' = emitted, losses' = losses
    PROVE  StreamInv'
<1>1. /\ pending = Then(<<Head(pending)>>, Tail(pending))
      /\ IsSeq(<<Head(pending)>>) /\ IsSeq(Tail(pending))
    BY StreamTypes, MadeOf
<1>2. PICK a, b, c, d : /\ a = Packets(<<Head(pending)>>) /\ b = Packets(Tail(pending))
                        /\ c = Packets(toHost) /\ d = delivered
                        /\ IsSeq(a) /\ IsSeq(b) /\ IsSeq(c) /\ IsSeq(d)
    BY <1>1, StreamTypes, PacketsThen
<1>3. Packets(pending) = Then(a, b)
    BY <1>1, <1>2, PacketsThen
<1>4. Then(d, Then(Then(a, b), c)) = Then(Then(d, a), Then(b, c)) /\ IsSeq(Then(d, a))
    BY <1>2, ThenLaws
<1>5. Pushed' = Pushed
    BY <1>2, <1>3, <1>4 DEF Pushed
<1> QED BY <1>2, <1>4, <1>5, SamePushed

(* A packet that await_reply meets is delivered.                           *)
LEMMA ConsumeStreamStreams ==
    ASSUME ~Endless
    PROVE  IInv /\ StreamInv /\ ConsumeStream => StreamInv'
<1> SUFFICES ASSUME IInv, StreamInv, ConsumeStream PROVE StreamInv'
    OBVIOUS
<1>1. /\ pending # <<>> /\ pending' = Tail(pending) /\ toHost' = toHost
      /\ Head(pending).type = "Stream"
      /\ delivered' = Then(delivered, <<Head(pending).packet>>)
      /\ emitted' = emitted /\ losses' = losses
    BY DEF ConsumeStream, Deliver, Then, lineVars, deviceVars, faultVars
<1>2. Packets(<<Head(pending)>>) = <<Head(pending).packet>>
    BY <1>1, PacketsOfOne
<1> QED BY <1>1, <1>2, HeadDelivered

(* A reply is no packet.                                                   *)
LEMMA ConsumeReplyStreams == IInv /\ StreamInv /\ ConsumeReply => StreamInv'
<1> SUFFICES ASSUME IInv, StreamInv, ConsumeReply PROVE StreamInv'
    OBVIOUS
<1>1. /\ pending # <<>> /\ pending' = Tail(pending) /\ toHost' = toHost
      /\ Head(pending).type = "Reply"
      /\ delivered' = delivered /\ emitted' = emitted /\ losses' = losses
    BY DEF ConsumeReply, lineVars, deviceVars, faultVars
<1>2. Packets(<<Head(pending)>>) = <<>>
    <2>1. "Reply" # "Stream"
        OBVIOUS
    <2> QED BY <1>1, <2>1, PacketsOfOne
<1>3. delivered' = Then(delivered, <<>>)
    BY <1>1, StreamTypes, ThenLaws
<1> QED BY <1>1, <1>2, <1>3, HeadDelivered

(* poll delivers all it takes, the buffer's first.                         *)
LEMMA PollStreams ==
    ASSUME ~Endless
    PROVE  IInv /\ StreamInv /\ Poll => StreamInv'
<1> SUFFICES ASSUME IInv, StreamInv, Poll PROVE StreamInv'
    OBVIOUS
<1>1. PICK n \in 0 .. Len(toHost) :
          /\ delivered' = Then(delivered, Packets(Then(pending, SubSeq(toHost, 1, n))))
          /\ toHost' = SubSeq(toHost, n + 1, Len(toHost))
    BY DEF Poll, Deliver, Then
<1>2. pending' = <<>> /\ emitted' = emitted /\ losses' = losses
    BY DEF Poll, deviceVars, faultVars
<1>3. PICK x : /\ x = SubSeq(toHost, 1, n) /\ toHost = Then(x, toHost')
               /\ IsSeq(x) /\ IsSeq(toHost')
    BY <1>1, StreamTypes, MadeOf
<1>4. PICK a, b, c, d : /\ a = Packets(pending) /\ b = Packets(x) /\ c = Packets(toHost')
                        /\ d = delivered /\ IsSeq(a) /\ IsSeq(b) /\ IsSeq(c) /\ IsSeq(d)
    BY <1>3, StreamTypes, PacketsThen
<1>5. Packets(toHost) = Then(b, c) /\ delivered' = Then(d, Then(a, b))
    BY <1>1, <1>3, <1>4, StreamTypes, PacketsThen
<1>6. Then(Packets(pending'), c) = c
    BY <1>2, <1>4, PacketsOfOne, ThenLaws
<1>7. /\ Then(d, Then(a, Then(b, c))) = Then(Then(d, Then(a, b)), c)
      /\ IsSeq(Then(d, Then(a, b)))
    BY <1>4, ThenLaws
<1>8. Pushed' = Pushed
    BY <1>4, <1>5, <1>6, <1>7 DEF Pushed
<1> QED BY <1>2, <1>5, <1>7, <1>8, SamePushed

(* A reply on the line is no packet.                                       *)
LEMMA HandlePacketStreams == IInv /\ StreamInv /\ HandlePacket => StreamInv'
<1> SUFFICES ASSUME IInv, StreamInv, HandlePacket PROVE StreamInv'
    OBVIOUS
<1>1. PICK f : toHost' = Append(toHost, f) /\ f.type = "Reply"
    BY DEF HandlePacket, ReplyFrame
<1>2. /\ pending' = pending /\ delivered' = delivered /\ emitted' = emitted /\ losses' = losses
    BY DEF HandlePacket, hostVars, faultVars, historyVars
<1>3. Packets(<<f>>) = <<>>
    <2>1. "Reply" # "Stream"
        OBVIOUS
    <2> QED BY <1>1, <2>1, PacketsOfOne
<1>4. toHost' = Then(toHost, <<f>>) /\ IsSeq(<<f>>)
    BY <1>1, StreamTypes, MadeOf
<1>5. Packets(toHost') = Packets(toHost)
    BY <1>3, <1>4, StreamTypes, PacketsThen, ThenLaws
<1> QED BY <1>2, <1>5, SamePushed DEF Pushed, StreamInv

(* A pushed packet has the next number.                                    *)
LEMMA EmitTelemetryStreams ==
    ASSUME ~Endless
    PROVE  IInv /\ StreamInv /\ EmitTelemetry => StreamInv'
<1> SUFFICES ASSUME IInv, StreamInv, EmitTelemetry PROVE StreamInv'
    OBVIOUS
<1>1. PICK f : /\ emitted' = emitted + 1 /\ toHost' = Append(toHost, f)
               /\ f.type = "Stream" /\ f.packet = emitted + 1
               /\ pending' = pending /\ delivered' = delivered /\ losses' = losses
    BY DEF EmitTelemetry, Stream, hostVars, faultVars, historyVars
<1>2. PICK o : o = <<f.packet>> /\ IsSeq(o) /\ Packets(<<f>>) = o
    BY <1>1, PacketsOfOne, OneSeq
<1>3. toHost' = Then(toHost, <<f>>) /\ IsSeq(<<f>>)
    BY <1>1, StreamTypes, MadeOf
<1>4. PICK p, q, d : /\ p = Packets(pending) /\ q = Packets(toHost) /\ d = delivered
                     /\ IsSeq(p) /\ IsSeq(q) /\ IsSeq(d)
    BY StreamTypes
<1>5. Packets(toHost') = Then(q, o)
    BY <1>2, <1>3, <1>4, StreamTypes, PacketsThen
<1>6. Then(d, Then(p, Then(q, o))) = Then(Then(d, Then(p, q)), o) /\ IsSeq(Then(d, Then(p, q)))
    BY <1>2, <1>4, ThenLaws
<1>7. Pushed' = Append(Pushed, emitted + 1)
    <2>1. Pushed' = Then(Pushed, o) /\ IsSeq(Pushed)
        BY <1>1, <1>4, <1>5, <1>6 DEF Pushed
    <2>2. \A z : Append(Pushed, z) = Then(Pushed, <<z>>)
        BY <2>1, MadeOf
    <2> QED BY <1>1, <1>2, <2>1, <2>2
<1>8. emitted \in Nat
    BY StreamTypes
<1>9. Ascending(Pushed', emitted')
    BY <1>1, <1>7, <1>8, AscendOn DEF StreamInv
<1>10. ASSUME losses' = 0 PROVE Pushed' = [n \in 1 .. emitted' |-> n]
    <2>1. Pushed = [n \in 1 .. emitted |-> n]
        BY <1>1, <1>10 DEF StreamInv
    <2>2. [n \in 1 .. emitted |-> n] \in Seq(Nat)
        BY <1>8
    <2>3. Append([n \in 1 .. emitted |-> n], emitted + 1) = [n \in 1 .. emitted + 1 |-> n]
        BY <1>8, <2>2
    <2> QED BY <1>1, <1>7, <2>1, <2>3
<1> QED BY <1>1, <1>9, <1>10 DEF StreamInv

(* A lost frame takes one packet out, or none.                             *)
LEMMA LoseFrameStreams == IInv /\ StreamInv /\ LoseFrame => StreamInv'
<1> SUFFICES ASSUME IInv, StreamInv, LoseFrame PROVE StreamInv'
    OBVIOUS
<1>1. /\ pending' = pending /\ delivered' = delivered /\ emitted' = emitted
      /\ losses' # 0
    BY StreamTypes DEF LoseFrame, hostVars, deviceVars, historyVars
<1>2. Ascending(Pushed', emitted)
    <2>1. CASE toHost' = toHost
        BY <1>1, <2>1 DEF StreamInv, Pushed
    <2>2. CASE toHost # <<>> /\ toHost' = Tail(toHost)
        <3>1. PICK f : toHost = Then(<<f>>, toHost') /\ IsSeq(<<f>>) /\ IsSeq(toHost')
            BY <2>2, StreamTypes, MadeOf
        <3>2. PICK d, p, q : /\ d = delivered /\ p = Packets(pending) /\ q = Packets(toHost')
                             /\ IsSeq(d) /\ IsSeq(p) /\ IsSeq(q)
            BY <3>1, StreamTypes, PacketsThen
        <3>3. Packets(toHost) = Then(Packets(<<f>>), q)
            BY <3>1, <3>2, PacketsThen
        <3>4. Pushed' = Then(d, Then(p, q)) /\ Pushed = Then(d, Then(p, Packets(toHost)))
            BY <1>1, <3>2 DEF Pushed
        <3>5. CASE f.type # "Stream"
            <4>1. Packets(toHost) = q
                BY <3>2, <3>3, <3>5, PacketsOfOne, ThenLaws
            <4> QED BY <3>4, <4>1 DEF StreamInv
        <3>6. CASE f.type = "Stream"
            <4>1. PICK x, o : o = <<x>> /\ IsSeq(o) /\ Packets(toHost) = Then(o, q)
                BY <3>3, <3>6, PacketsOfOne, OneSeq
            <4>2. /\ IsSeq(Then(d, p))
                  /\ Then(d, Then(p, Then(o, q))) = Then(Then(d, p), Then(o, q))
                  /\ Then(d, Then(p, q)) = Then(Then(d, p), q)
                BY <3>2, <4>1, ThenLaws
            <4>3. Ascending(Then(Then(d, p), Then(o, q)), emitted)
                BY <3>4, <4>1, <4>2 DEF StreamInv
            <4>4. Ascending(Then(Then(d, p), q), emitted)
                BY <3>2, <4>1, <4>2, <4>3, AscendWithout
            <4> QED BY <3>4, <4>2, <4>4
        <3> QED BY <3>5, <3>6
    <2> QED BY <2>1, <2>2 DEF LoseFrame
<1> QED BY <1>1, <1>2 DEF StreamInv

(* The telemetry invariant is inductive.                                   *)
LEMMA StreamInductive ==
    ASSUME ~Endless
    PROVE  Spec => []StreamInv
<1>1. Init => StreamInv
    <2> SUFFICES ASSUME Init PROVE StreamInv
        OBVIOUS
    <2>1. delivered = <<>> /\ emitted = 0 /\ pending = <<>> /\ toHost = <<>>
        BY DEF Init
    <2>2. Pushed = <<>>
        BY <2>1, PacketsOfOne, EmptyIsSeq, ThenLaws DEF Pushed
    <2>3. Ascending(<<>>, 0)
        BY EmptyIsSeq DEF Ascending
    <2>4. <<>> = [n \in 1 .. 0 |-> n]
        OBVIOUS
    <2> QED BY <2>1, <2>2, <2>3, <2>4, EmptyIsSeq DEF StreamInv
<1>2. IInv /\ StreamInv /\ [Next]_vars => StreamInv'
    <2> SUFFICES ASSUME IInv, StreamInv, [Next]_vars PROVE StreamInv'
        OBVIOUS
    <2>1. CASE ReadChunk \/ ConsumeStream \/ ConsumeReply \/ Poll
        BY <2>1, ReadChunkStreams, ConsumeStreamStreams, ConsumeReplyStreams, PollStreams
    <2>2. CASE HandlePacket \/ EmitTelemetry \/ LoseFrame
        BY <2>2, HandlePacketStreams, EmitTelemetryStreams, LoseFrameStreams
    <2>3. CASE Call \/ SendFails \/ Timeout \/ DeviceRestart \/ UNCHANGED vars
        <3>1. /\ pending' = pending /\ toHost' = toHost /\ delivered' = delivered
              /\ emitted' = emitted /\ losses' = losses
            BY <2>3 DEF Call, SendFails, Timeout, DeviceRestart, vars, hostVars, lineVars,
                        deviceVars, faultVars, historyVars
        <3> QED BY <3>1 DEF StreamInv, Pushed
    <2> QED BY <2>1, <2>2, <2>3 DEF Next, HostStep
<1> QED BY <1>1, <1>2, Inductive, PTL DEF Spec

(* Until a frame is lost the handler has been given, or has coming, every  *)
(* packet the device pushed, in order and once: of the bytes that          *)
(* await_reply and poll share, none is dispatched twice or dropped.        *)
THEOREM NoPacketMissing ==
    ASSUME ~Endless
    PROVE  Spec => []NoStreamLost
<1>1. IInv /\ StreamInv => NoStreamLost
    <2> SUFFICES ASSUME IInv, StreamInv PROVE NoStreamLost
        OBVIOUS
    <2>1. Packets(pending \o toHost) = Then(Packets(pending), Packets(toHost))
        BY StreamTypes, PacketsConcat DEF Then
    <2> QED BY <2>1 DEF StreamInv, Pushed, NoStreamLost, Then
<1> QED BY <1>1, Inductive, StreamInductive, PTL

(* A device that counts its packets: the handler sees them in order.       *)
LEMMA CountedInOrder ==
    ASSUME ~Endless
    PROVE  Spec => []StreamsInOrder
<1>1. IInv /\ StreamInv => StreamsInOrder
    <2> SUFFICES ASSUME IInv, StreamInv,
                        NEW m \in 1 .. Len(delivered), NEW n \in 1 .. Len(delivered), m < n
                 PROVE  delivered[m] < delivered[n]
        BY DEF StreamsInOrder
    <2>1. PICK r : /\ r = Then(Packets(pending), Packets(toHost)) /\ IsSeq(r)
                   /\ IsSeq(delivered) /\ Ascending(Then(delivered, r), emitted)
        BY StreamTypes, ThenLaws DEF StreamInv, Pushed
    <2>2. /\ Len(delivered \o r) = Len(delivered) + Len(r)
          /\ \A k \in 1 .. Len(delivered) : (delivered \o r)[k] = delivered[k]
          /\ Len(delivered) \in Nat /\ Len(r) \in Nat
          /\ Ascending(delivered \o r, emitted)
        BY <2>1, ConcatSeq, LengthOfSeq DEF Then
    <2>3. m \in 1 .. Len(delivered \o r) /\ n \in 1 .. Len(delivered \o r)
        BY <2>2
    <2> QED BY <2>2, <2>3 DEF Ascending
<1> QED BY <1>1, Inductive, StreamInductive, PTL

(* Where nobody counts, nothing is recorded.                               *)
LEMMA UncountedInOrder ==
    ASSUME Endless
    PROVE  Spec => []StreamsInOrder
<1> DEFINE Nothing == delivered = <<>>
<1>1. Init => Nothing
    BY DEF Init
<1>2. Nothing /\ [Next]_vars => Nothing'
    BY DEF Next, HostStep, Call, SendFails, ReadChunk, ConsumeStream, ConsumeReply, Timeout,
           Poll, Deliver, HandlePacket, EmitTelemetry, LoseFrame, DeviceRestart, vars, historyVars
<1>3. Nothing => StreamsInOrder
    BY EmptyIsSeq DEF StreamsInOrder
<1> QED BY <1>1, <1>2, <1>3, PTL DEF Spec

(* Whatever is lost, late or restarted, the handler sees the packets in    *)
(* the order in which the device pushed them, and none twice.              *)
THEOREM PacketsInOrder == Spec => []StreamsInOrder
<1>1. CASE Endless
    BY <1>1, UncountedInOrder
<1>2. CASE ~Endless
    BY <1>2, CountedInOrder
<1> QED BY <1>1, <1>2

=============================================================================
