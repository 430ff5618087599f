----------------------------- MODULE ClockProofs -----------------------------
(***************************************************************************)
(* For every number of terminals, every range of frequencies and every     *)
(* width of the counter that has room for the longest period: the types of *)
(* Rtc, that only readers count, and that Rtc implements VirtualTimers.    *)
(*                                                                         *)
(* And for any number of keys and of nested RTC handlers, at every point   *)
(* from power-on: the types of Interrupts, that what a handler needs is    *)
(* set up, that each interrupt reaches its own, that none stays in         *)
(* service, what the masks are, and that Interrupts implements Rtc.        *)
(***************************************************************************)
EXTENDS InterruptsInv, TLAPS

-----------------------------------------------------------------------------
(* Rtc *)

\* Division: a period is at least 1, and the lowest frequency has the longest.
LEMMA Quotient ==
    ASSUME NEW f \in MinFreq .. MaxFreq
    PROVE  /\ MaxFreq \div f \in 1 .. (MaxFreq \div MinFreq)
PROOF
  <1> DEFINE q == MaxFreq \div f
             p == MaxFreq \div MinFreq
  <1>0. /\ MaxFreq \in Nat /\ MinFreq \in Nat \ {0} /\ f \in Nat /\ f > 0
        /\ MinFreq <= f /\ f <= MaxFreq
    BY RtcAssumption
  <1>1. /\ q \in Nat /\ p \in Nat
        /\ f * q <= MaxFreq /\ MaxFreq < f * (q + 1)
        /\ MaxFreq < MinFreq * (p + 1)
    BY <1>0, SMTT(30)
  <1>2. q >= 1
    BY <1>0, <1>1, SMTT(30)
  <1>3. MinFreq * q <= MaxFreq
    BY <1>0, <1>1, SMTT(30)
  <1>4. q <= p
    BY <1>0, <1>1, <1>3, SMTT(30)
  <1>5. QED
    BY <1>1, <1>2, <1>4


LEMMA PeriodsRange == Periods \subseteq 1 .. (MaxFreq \div MinFreq)
PROOF
  <1>1. MinFreq \in MinFreq .. MaxFreq
    BY RtcAssumption
  <1>2. Valid \subseteq MinFreq .. MaxFreq
    BY DEF Valid
  <1>3. \A f \in Valid \cup {MinFreq} : f \in MinFreq .. MaxFreq
    BY <1>1, <1>2
  <1>4. QED
    BY <1>3, Quotient DEF Periods

\* What the proofs need of the numbers: a counter of a reader has room for every
\* period below -1.
LEMMA Numbers ==
    /\ Word \in Nat /\ Idle \in Nat /\ Word = Idle + 1
    /\ \A p \in Periods : p \in Nat /\ p > 0 /\ p < Idle
    /\ MaxFreq \div MinFreq \in Periods
PROOF
  <1>1. MaxFreq \div MinFreq \in Nat
    BY RtcAssumption, SMTT(30)
  <1>2. QED
    BY <1>1, PeriodsRange, RtcAssumption DEF Idle, Periods

\* Counting never leaves 0..Idle, and a counter that runs goes up by one.
LEMMA CountedIs ==
    ASSUME currRTC \in [Term -> 0..Idle]
    PROVE  /\ Counted \in [Term -> 0..Idle]
           /\ \A t \in Term : Counted[t] = IF currRTC[t] # Idle
                                             THEN currRTC[t] + 1 ELSE Idle
PROOF
  <1>1. ASSUME NEW t \in Term
        PROVE  /\ Counted[t] = IF currRTC[t] # Idle THEN currRTC[t] + 1 ELSE Idle
               /\ Counted[t] \in 0..Idle
    <2>1. currRTC[t] \in 0..Idle
      OBVIOUS
    <2>2. currRTC[t] # Idle => (currRTC[t] + 1) % Word = currRTC[t] + 1
      BY <2>1, Numbers, SMTT(30)
    <2>3. Counted[t] = IF currRTC[t] # Idle THEN (currRTC[t] + 1) % Word
                                            ELSE currRTC[t]
      BY DEF Counted
    <2>4. QED
      BY <2>1, <2>2, <2>3, Numbers
  <1>2. Counted = [t \in Term |-> Counted[t]]
    BY DEF Counted
  <1>3. QED
    BY <1>1, <1>2

\* The inductive invariant: a counter that runs has a reader, whose target is a
\* period; behind the loop the counter has reached it.
RtcInv ==
    /\ RtcTypeInv
    /\ CountsForReadersOnly
    /\ \A t \in Term : rpc[t] = "spin" => target[t] \in Periods
    /\ \A t \in Term : rpc[t] = "finish" => target[t] \in Periods /\ ~(currRTC[t] < target[t])

LEMMA RtcInvInit == RtcInit => RtcInv
PROOF BY Numbers DEF RtcInit, RtcInv, RtcTypeInv, CountsForReadersOnly, Locations

LEMMA RtcInvTick == RtcInv /\ Tick => RtcInv'
PROOF
  <1> SUFFICES ASSUME RtcInv, Tick PROVE RtcInv'
    OBVIOUS
  <1> USE DEF Tick
  <1>1. /\ currRTC' \in [Term -> 0..Idle]
        /\ \A t \in Term : currRTC'[t] = IF currRTC[t] # Idle
                                           THEN currRTC[t] + 1 ELSE Idle
    BY CountedIs DEF RtcInv, RtcTypeInv
  <1>2. RtcTypeInv'
    BY <1>1 DEF RtcInv, RtcTypeInv
  <1>3. CountsForReadersOnly'
    BY <1>1 DEF RtcInv, CountsForReadersOnly
  <1>4. \A t \in Term : rpc[t] = "finish" => target[t] \in Periods /\ ~(currRTC'[t] < target[t])
    BY <1>1, Numbers DEF RtcInv, RtcTypeInv
  <1>5. QED
    BY <1>2, <1>3, <1>4 DEF RtcInv

LEMMA RtcInvStep == ASSUME NEW t \in Term, RtcInv, RtcStep(t) PROVE RtcInv'
PROOF
  <1> USE DEF RtcInv, RtcTypeInv, CountsForReadersOnly, InUser, Locations
  <1>1. CASE OpenRtc(t)
    BY <1>1, Numbers DEF OpenRtc
  <1>2. CASE CloseRtc(t)
    BY <1>2 DEF CloseRtc
  <1>3. CASE WriteValid(t)
    BY <1>3 DEF WriteValid, Periods
  <1>4. CASE WriteInvalid(t)
    BY <1>4 DEF WriteInvalid
  <1>5. CASE WriteReturn(t)
    BY <1>5 DEF WriteReturn
  <1>6. CASE ReadBegin(t)
    BY <1>6, Numbers DEF ReadBegin
  <1>7. CASE ReadLeave(t)
    BY <1>7 DEF ReadLeave
  <1>8. CASE ReadFinish(t)
    BY <1>8, Numbers DEF ReadFinish
  <1>9. CASE ChangeProgram(t)
    BY <1>9 DEF ChangeProgram
  <1>10. QED
    BY <1>1, <1>2, <1>3, <1>4, <1>5, <1>6, <1>7, <1>8, <1>9 DEF RtcStep

LEMMA RtcInvInductive == RtcSpec => []RtcInv
PROOF
  <1>1. RtcInv /\ [RtcNext]_rtcVars => RtcInv'
    <2>1. ASSUME RtcInv, UNCHANGED rtcVars PROVE RtcInv'
      BY <2>1 DEF RtcInv, RtcTypeInv, CountsForReadersOnly, rtcVars
    <2>2. QED
      BY <2>1, RtcInvTick, RtcInvStep DEF RtcNext
  <1>2. QED
    BY <1>1, RtcInvInit, PTL DEF RtcSpec

\* Counters, periods and targets stay in their ranges: a counter of the width of
\* the code's does not wrap, however long a reader is kept from looking at it.
THEOREM RtcTypeCorrect == RtcSpec => []RtcTypeInv
PROOF
  <1>1. RtcInv => RtcTypeInv
    BY DEF RtcInv
  <1>2. QED
    BY <1>1, RtcInvInductive, PTL

\* Only the counters of readers run.
THEOREM CountsForReadersOnlyCorrect == RtcSpec => []CountsForReadersOnly
PROOF
  <1>1. RtcInv => CountsForReadersOnly
    BY DEF RtcInv
  <1>2. QED
    BY <1>1, RtcInvInductive, PTL

-----------------------------------------------------------------------------
(* Refinement *)

LEMMA LeftIs ==
    ASSUME NEW t \in Term
    PROVE  Left[t] = IF rpc[t] \in {"spin", "finish"} /\ currRTC[t] < target[t]
                       THEN target[t] - currRTC[t] ELSE 0
PROOF BY DEF Left, Waiting

LEMMA LeftIs2 ==
    ASSUME NEW t \in Term
    PROVE  Left'[t] = IF rpc'[t] \in {"spin", "finish"} /\ currRTC'[t] < target'[t]
                        THEN target'[t] - currRTC'[t] ELSE 0
PROOF BY DEF Left, Waiting

\* Left is a function on Term, so it is known by its values.
LEMMA LeftExt ==
    ASSUME NEW g, g = [t \in Term |-> g[t]], \A t \in Term : Left'[t] = g[t]
    PROVE  Left' = g
PROOF
  <1>1. Left' = [t \in Term |-> Left'[t]]
    BY DEF Left
  <1>2. QED
    BY <1>1

LEMMA TickRefines == RtcInv /\ Tick => Timers!Interrupt
PROOF
  <1> SUFFICES ASSUME RtcInv, Tick PROVE Timers!Interrupt
    OBVIOUS
  <1>1. Waiting' = Waiting
    BY DEF Waiting, Tick
  <1> DEFINE g == [t \in Term |-> IF Left[t] > 0 THEN Left[t] - 1 ELSE 0]
  <1>2. ASSUME NEW t \in Term PROVE Left'[t] = g[t]
    <2>1. /\ currRTC[t] \in 0..Idle
          /\ currRTC'[t] = IF currRTC[t] # Idle THEN currRTC[t] + 1 ELSE Idle
      BY CountedIs DEF RtcInv, RtcTypeInv, Tick
    <2>2. rpc' = rpc /\ target' = target
      BY DEF Tick
    <2>3. target[t] \in Nat /\ target[t] < Idle
      BY Numbers, RtcAssumption DEF RtcInv, RtcTypeInv
    <2>4. QED
      BY <2>1, <2>2, <2>3, LeftIs, LeftIs2, Numbers
  <1>3. Left' = g
    BY <1>2, LeftExt
  <1>4. QED
    BY <1>1, <1>3 DEF Timers!Interrupt

\* Steps outside a read, and leaving its loop, do not show.
LEMMA Stutters ==
    ASSUME RtcInv, NEW t \in Term,
           \/ OpenRtc(t) \/ CloseRtc(t) \/ WriteValid(t) \/ WriteInvalid(t)
           \/ WriteReturn(t) \/ ReadLeave(t) \/ ChangeProgram(t)
    PROVE  Waiting' = Waiting /\ Left' = Left
PROOF
  <1>1. /\ currRTC' = currRTC /\ target' = target
        /\ \A u \in Term : rpc'[u] \in {"spin", "finish"} <=> rpc[u] \in {"spin", "finish"}
    BY DEF RtcInv, RtcTypeInv, InUser, OpenRtc, CloseRtc, WriteValid, WriteInvalid,
           WriteReturn, ReadLeave, ChangeProgram
  <1>2. Waiting' = Waiting
    BY <1>1 DEF Waiting
  <1>3. QED
    BY <1>1, <1>2 DEF Left

LEMMA ReadBeginRefines == ASSUME RtcInv, NEW t \in Term, ReadBegin(t) PROVE Timers!Begin(t)
PROOF
  <1>1. /\ rpc[t] = "user" /\ rpc' = [rpc EXCEPT ![t] = "spin"]
        /\ currRTC' = [currRTC EXCEPT ![t] = 0]
        /\ target' = [target EXCEPT ![t] = filepos[t]]
        /\ filepos[t] \in Periods
    BY DEF RtcInv, RtcTypeInv, ReadBegin, InUser
  <1>2. t \notin Waiting /\ Waiting' = Waiting \cup {t}
    BY <1>1 DEF RtcInv, RtcTypeInv, Waiting
  <1> DEFINE g == [Left EXCEPT ![t] = filepos[t]]
  <1>3. ASSUME NEW u \in Term PROVE Left'[u] = g[u]
    <2>1. CASE u = t
      <3>1. /\ rpc'[t] = "spin" /\ currRTC'[t] = 0 /\ target'[t] = filepos[t]
        BY <1>1 DEF RtcInv, RtcTypeInv
      <3>2. Left'[t] = filepos[t]
        BY <3>1, <1>1, Numbers, LeftIs2
      <3>3. g[t] = filepos[t]
        BY DEF Left
      <3>4. QED
        BY <2>1, <3>2, <3>3
    <2>2. CASE u # t
      <3>1. /\ rpc'[u] = rpc[u] /\ currRTC'[u] = currRTC[u] /\ target'[u] = target[u]
        BY <1>1, <2>2 DEF RtcInv, RtcTypeInv
      <3>2. g[u] = Left[u]
        BY <2>2 DEF Left
      <3>3. QED
        BY <3>1, <3>2, LeftIs, LeftIs2
    <2>3. QED
      BY <2>1, <2>2
  <1>4. Left' = g
    <2>1. g = [u \in Term |-> g[u]]
      BY DEF Left
    <2>2. QED
      BY <2>1, <1>3, LeftExt
  <1>5. QED
    BY <1>1, <1>2, <1>4 DEF Timers!Begin

LEMMA ReadFinishRefines == ASSUME RtcInv, NEW t \in Term, ReadFinish(t) PROVE Timers!Return(t)
PROOF
  <1>1. /\ rpc[t] = "finish" /\ rpc' = [rpc EXCEPT ![t] = "user"]
        /\ currRTC' = [currRTC EXCEPT ![t] = Idle]
        /\ target' = [target EXCEPT ![t] = 0]
        /\ ~(currRTC[t] < target[t])
    BY DEF RtcInv, RtcTypeInv, ReadFinish
  <1>2. t \in Waiting /\ Waiting' = Waiting \ {t}
    BY <1>1 DEF RtcInv, RtcTypeInv, Waiting
  <1>3. Left[t] = 0
    BY <1>1, LeftIs
  <1>4. ASSUME NEW u \in Term PROVE Left'[u] = Left[u]
    <2>1. CASE u = t
      <3>1. rpc'[t] = "user"
        BY <1>1 DEF RtcInv, RtcTypeInv
      <3>2. QED
        BY <2>1, <3>1, <1>3, LeftIs2
    <2>2. CASE u # t
      <3>1. /\ rpc'[u] = rpc[u] /\ currRTC'[u] = currRTC[u] /\ target'[u] = target[u]
        BY <1>1, <2>2 DEF RtcInv, RtcTypeInv
      <3>2. QED
        BY <3>1, LeftIs, LeftIs2
    <2>3. QED
      BY <2>1, <2>2
  <1>5. Left' = Left
    <2>1. Left = [u \in Term |-> Left[u]]
      BY DEF Left
    <2>2. QED
      BY <2>1, <1>4, LeftExt
  <1>6. QED
    BY <1>2, <1>3, <1>5 DEF Timers!Return

\* Every terminal has a timer of its own: a read returns after at least as many
\* interrupts as its descriptor asks for, whatever the other terminals read.
THEOREM TimersRefined == RtcSpec => TimersSpec
PROOF
  <1>1. RtcInit => Timers!Init
    <2> SUFFICES ASSUME RtcInit PROVE Timers!Init
      OBVIOUS
    <2>1. Waiting = {}
      BY DEF RtcInit, Waiting
    <2>2. Left = [t \in Term |-> 0]
      BY <2>1 DEF Left
    <2>3. QED
      BY <2>1, <2>2 DEF Timers!Init
  <1>2. RtcInv /\ [RtcNext]_rtcVars => [Timers!Next]_(Timers!vars)
    <2> SUFFICES ASSUME RtcInv, [RtcNext]_rtcVars PROVE [Timers!Next]_(Timers!vars)
      OBVIOUS
    <2>1. CASE UNCHANGED rtcVars
      BY <2>1 DEF rtcVars, Timers!vars, Waiting, Left
    <2>2. CASE Tick
      BY <2>2, TickRefines DEF Timers!Next
    <2>3. ASSUME NEW t \in Term, RtcStep(t) PROVE [Timers!Next]_(Timers!vars)
      <3>1. CASE ReadBegin(t)
        BY <3>1, ReadBeginRefines DEF Timers!Next
      <3>2. CASE ReadFinish(t)
        BY <3>2, ReadFinishRefines DEF Timers!Next
      <3>3. CASE ~ReadBegin(t) /\ ~ReadFinish(t)
        BY <2>3, <3>3, Stutters DEF RtcStep, Timers!vars
      <3>4. QED
        BY <3>1, <3>2, <3>3
    <2>4. QED
      BY <2>1, <2>2, <2>3 DEF RtcNext
  <1>3. QED
    BY <1>1, <1>2, RtcInvInductive, PTL DEF RtcSpec, TimersSpec, Timers!Spec

-----------------------------------------------------------------------------
(* The bytes and the chips *)

\* The bytes that the kernel writes, by their bits.
LEMMA Bytes ==
    /\ Bits(0) = {} /\ Bits(1) = {0} /\ Bits(2) = {1} /\ Bits(4) = {2}
    /\ Bits(17) = {0, 4} /\ Bits(32) = {5} /\ Bits(40) = {3, 5} /\ EOI = {5, 6}
PROOF
  <1>1. \A i \in Line : i \in {0, 1, 2, 3, 4, 5, 6, 7}
    BY DEF Line
  <1>2. QED
    BY <1>1 DEF Bits, Weight, Line, EOI

LEMMA Bases ==
    /\ Value({5} \ (0..2)) = 32 /\ Value({3, 5} \ (0..2)) = 40
    /\ Value(({5, 6} \cup {}) \cap 0..2) = 0
    /\ Value(({5, 6} \cup {0}) \cap 0..2) = 1
    /\ Value(({5, 6} \cup {1}) \cap 0..2) = 2
PROOF BY DEF Value, Weight

\* A sequence of writes is one write after the other.  (Ten are the most that the
\* code makes: there is no induction here.)
LEMMA ChipsAre ==
    ASSUME NEW c, NEW writes, Len(writes) \in 0..10
    PROVE  /\ Chips(c, writes)[0] = c
           /\ \A n \in 1..Len(writes) :
                Chips(c, writes)[n] = Out(Chips(c, writes)[n - 1], writes[n])
PROOF
  <1> DEFINE Fits(f, k) == f = [n \in 0..k |-> IF n = 0 THEN c ELSE Out(f[n - 1], writes[n])]
             Some(k) == \E f : Fits(f, k)
  <1>1. Some(0)
    <2>1. Fits([n \in 0..0 |-> c], 0)
      OBVIOUS
    <2>2. QED
      BY <2>1
  <1>2. ASSUME NEW k \in Nat, Some(k) PROVE Some(k + 1)
    <2>1. PICK f : Fits(f, k)
      BY <1>2
    <2> DEFINE g == [n \in 0..(k + 1) |-> IF n <= k THEN f[n] ELSE Out(f[k], writes[k + 1])]
    <2>2. ASSUME NEW n \in 0..(k + 1)
          PROVE  g[n] = IF n = 0 THEN c ELSE Out(g[n - 1], writes[n])
      <3>1. CASE n = 0
        BY <2>1, <3>1
      <3>2. CASE n \in 1..k
        <4>1. f[n] = Out(f[n - 1], writes[n])
          BY <2>1, <3>2
        <4>2. g[n] = f[n] /\ g[n - 1] = f[n - 1]
          BY <3>2
        <4>3. QED
          BY <4>1, <4>2, <3>2
      <3>3. CASE n = k + 1
        <4>1. g[n] = Out(f[k], writes[k + 1]) /\ g[n - 1] = f[k]
          BY <3>3
        <4>2. QED
          BY <4>1, <3>3
      <3>4. QED
        BY <3>1, <3>2, <3>3
    <2>3. g = [n \in 0..(k + 1) |-> g[n]]
      OBVIOUS
    <2>4. Fits(g, k + 1)
      <3> HIDE DEF g
      <3> QED BY <2>2, <2>3
    <2>5. QED
      BY <2>4
  <1>3. \A k \in 0..10 : Some(k)
    <2> HIDE DEF Some
    <2>1. Some(1) /\ Some(2) /\ Some(3) /\ Some(4) /\ Some(5)
      BY <1>1, <1>2
    <2>2. Some(6) /\ Some(7) /\ Some(8) /\ Some(9) /\ Some(10)
      BY <2>1, <1>2
    <2>3. QED
      BY <1>1, <2>1, <2>2
  <1> DEFINE h == Chips(c, writes)
  <1>4. h = CHOOSE f : Fits(f, Len(writes))
    BY DEF Chips
  <1>5. Fits(h, Len(writes))
    <2>1. \E f : Fits(f, Len(writes))
      BY <1>3
    <2> HIDE DEF h, Fits
    <2>2. QED
      BY <1>4, <2>1, Zenon
  <1> HIDE DEF h
  <1>6. h[0] = c /\ \A n \in 1..Len(writes) : h[n] = Out(h[n - 1], writes[n])
    BY <1>5
  <1>7. QED
    BY <1>6 DEF h

LEMMA After1 ==
    ASSUME NEW v
    PROVE  After(<<v>>) = Out(chip, v)
PROOF BY ChipsAre DEF After

LEMMA After2 ==
    ASSUME NEW v, NEW w
    PROVE  After(<<v, w>>) = Out(Out(chip, v), w)
PROOF
  <1> DEFINE h == Chips(chip, <<v, w>>)
  <1>1. Len(<<v, w>>) = 2 /\ <<v, w>>[1] = v /\ <<v, w>>[2] = w
    OBVIOUS
  <1>2. /\ h[0] = chip
        /\ \A n \in 1..2 : h[n] = Out(h[n - 1], <<v, w>>[n])
    BY <1>1, ChipsAre
  <1> HIDE DEF h
  <1>3. h[1] = Out(h[0], v) /\ h[2] = Out(h[1], w)
    BY <1>1, <1>2
  <1>4. QED
    BY <1>1, <1>2, <1>3 DEF After, h

\* A chip.
State == [irr : SUBSET Line, isr : SUBSET Line, imr : SUBSET Line,
          icw : {0, 2, 3, 4}, auto : BOOLEAN, nested : BOOLEAN, base : 0..255]

ChipsType == [Chip -> State]

\* The two chips, and what a write to one of them does.
Pair(m, s) == [c \in Chip |-> IF c = "master" THEN m ELSE s]

LEMMA OutPair ==
    ASSUME NEW m, NEW s, NEW byte
    PROVE  /\ Out(Pair(m, s), Write("master", "command", byte)) = Pair(Command(m, byte), s)
           /\ Out(Pair(m, s), Write("master", "data", byte)) = Pair(Data(m, byte), s)
           /\ Out(Pair(m, s), Write("slave", "command", byte)) = Pair(m, Command(s, byte))
           /\ Out(Pair(m, s), Write("slave", "data", byte)) = Pair(m, Data(s, byte))
PROOF BY DEF Out, Write, Pair, Chip

LEMMA PairOf ==
    ASSUME chip \in ChipsType
    PROVE  /\ chip["master"] \in State /\ chip["slave"] \in State
           /\ chip = Pair(chip["master"], chip["slave"])
PROOF BY DEF ChipsType, Chip, Pair

LEMMA PairType ==
    ASSUME NEW m \in State, NEW s \in State
    PROVE  /\ Pair(m, s) \in ChipsType
           /\ Pair(m, s)["master"] = m /\ Pair(m, s)["slave"] = s
PROOF BY DEF ChipsType, Chip, Pair

\* ICW1 starts a chip afresh.
LEMMA Icw1 ==
    ASSUME NEW c \in State
    PROVE  Command(c, Bits(17)) = [irr |-> {}, isr |-> {}, imr |-> {}, icw |-> 2, auto |-> FALSE,
                                   nested |-> FALSE, base |-> c.base]
PROOF BY Bytes DEF Command, State

LEMMA ValueRange ==
    ASSUME NEW b PROVE Value(b) \in 0..255
PROOF BY DEF Value, Weight

LEMMA DataIs2 ==
    ASSUME NEW c, NEW byte, c.icw = 2
    PROVE  Data(c, byte) = [c EXCEPT !.base = Value(byte \ (0..2)), !.icw = 3]
PROOF BY DEF Data

LEMMA DataIs3 ==
    ASSUME NEW c, NEW byte, c.icw = 3
    PROVE  Data(c, byte) = [c EXCEPT !.icw = 4]
PROOF BY DEF Data

LEMMA DataIs4 ==
    ASSUME NEW c, NEW byte, c.icw = 4
    PROVE  Data(c, byte) = [c EXCEPT !.auto = 1 \in byte, !.nested = 4 \in byte, !.icw = 0]
PROOF BY DEF Data

LEMMA DataIs0 ==
    ASSUME NEW c, NEW byte, c.icw = 0
    PROVE  Data(c, byte) = [c EXCEPT !.imr = byte]
PROOF BY DEF Data

LEMMA StateBase ==
    ASSUME NEW c \in State, NEW n \in 0..255
    PROVE  [c EXCEPT !.base = n, !.icw = 3] \in State
PROOF BY DEF State

LEMMA StateModes ==
    ASSUME NEW c \in State, NEW p \in BOOLEAN, NEW q \in BOOLEAN
    PROVE  [c EXCEPT !.auto = p, !.nested = q, !.icw = 0] \in State
PROOF BY DEF State

LEMMA DataType ==
    ASSUME NEW c \in State, NEW byte \in SUBSET Line
    PROVE  Data(c, byte) \in State
PROOF
  <1>1. Value(byte \ (0..2)) \in 0..255 /\ (1 \in byte) \in BOOLEAN /\ (4 \in byte) \in BOOLEAN
    BY ValueRange
  <1>2. c.icw \in {0, 2, 3, 4}
    BY DEF State
  <1>3. CASE c.icw = 2
    BY <1>1, <1>3, DataIs2, StateBase
  <1>4. CASE c.icw = 3
    BY <1>4, DataIs3 DEF State
  <1>5. CASE c.icw = 4
    <2>1. Data(c, byte) = [c EXCEPT !.auto = 1 \in byte, !.nested = 4 \in byte, !.icw = 0]
      BY <1>5, DataIs4
    <2>2. [c EXCEPT !.auto = 1 \in byte, !.nested = 4 \in byte, !.icw = 0] \in State
      BY <1>1, StateModes, Zenon
    <2>3. QED
      BY <2>1, <2>2, Zenon
  <1>6. CASE c.icw = 0
    BY <1>6, DataIs0 DEF State
  <1>7. QED
    BY <1>2, <1>3, <1>4, <1>5, <1>6

\* The three data bytes that follow ICW1, of any chip; the last is ICW4.
LEMMA Icw2to4 ==
    ASSUME NEW c \in State, c.icw = 2, NEW b \in SUBSET Line, NEW any \in SUBSET Line,
           NEW byte \in SUBSET Line
    PROVE  LET d == Data(Data(Data(c, b), any), byte) IN
             /\ d \in State
             /\ d.irr = c.irr /\ d.isr = c.isr /\ d.imr = c.imr
             /\ d.icw = 0 /\ d.base = Value(b \ (0..2))
PROOF
  <1> DEFINE c1 == Data(c, b)
             c2 == Data(c1, any)
             c3 == Data(c2, byte)
  <1>1. c1 = [c EXCEPT !.base = Value(b \ (0..2)), !.icw = 3] /\ c1 \in State
    BY DataIs2, DataType
  <1>2. /\ c1.icw = 3 /\ c1.base = Value(b \ (0..2))
        /\ c1.irr = c.irr /\ c1.isr = c.isr /\ c1.imr = c.imr
    BY <1>1 DEF State
  <1> HIDE DEF c1
  <1>3. c2 = [c1 EXCEPT !.icw = 4] /\ c2 \in State
    BY <1>1, <1>2, DataIs3, DataType
  <1>4. c2.icw = 4 /\ c2.base = c1.base /\ c2.irr = c1.irr /\ c2.isr = c1.isr /\ c2.imr = c1.imr
    BY <1>1, <1>3 DEF State
  <1> HIDE DEF c2
  <1>5. c3 = [c2 EXCEPT !.auto = 1 \in byte, !.nested = 4 \in byte, !.icw = 0] /\ c3 \in State
    BY <1>3, <1>4, DataIs4, DataType
  <1>6. /\ c3.icw = 0 /\ c3.base = c2.base
        /\ c3.irr = c2.irr /\ c3.isr = c2.isr /\ c3.imr = c2.imr
    BY <1>3, <1>5 DEF State
  <1> HIDE DEF c3
  <1>7. c3 = Data(Data(Data(c, b), any), byte)
    BY DEF c1, c2, c3
  <1>8. QED
    BY <1>2, <1>4, <1>5, <1>6, <1>7

\* ICW4 with automatic end of interrupt.
LEMMA Icw4Auto ==
    ASSUME NEW c \in State, c.icw = 4, NEW byte \in SUBSET Line, 1 \in byte
    PROVE  Data(c, byte).auto = TRUE
PROOF
  <1>1. Data(c, byte) = [c EXCEPT !.auto = 1 \in byte, !.nested = 4 \in byte, !.icw = 0]
    BY DataIs4
  <1>2. ASSUME NEW p, NEW q
        PROVE  [c EXCEPT !.auto = p, !.nested = q, !.icw = 0].auto = p
    BY DEF State
  <1>3. [c EXCEPT !.auto = 1 \in byte, !.nested = 4 \in byte, !.icw = 0].auto = (1 \in byte)
    BY <1>2, Zenon
  <1>4. (1 \in byte) = TRUE
    BY Zenon
  <1>5. QED
    BY <1>1, <1>3, <1>4, Zenon

\* A reset chip that gets its four bytes and its mask.
LEMMA Reset ==
    ASSUME NEW c \in State
    PROVE  /\ Command(c, Bits(17)) \in State
           /\ Command(c, Bits(17)).icw = 2 /\ Command(c, Bits(17)).isr = {}
           /\ Command(c, Bits(17)).imr = {}
PROOF
  <1> DEFINE r == [irr |-> {}, isr |-> {}, imr |-> {}, icw |-> 2, auto |-> FALSE,
                   nested |-> FALSE, base |-> c.base]
  <1>1. r \in State /\ r.icw = 2 /\ r.isr = {} /\ r.imr = {}
    BY DEF State
  <1>2. QED
    BY <1>1, Icw1

\* i8259_init: the master takes the mask for the ICW4 that went to the slave, and so
\* ends interrupts by itself; the slave is set up as meant.
LEMMA Initialised ==
    ASSUME chip \in ChipsType
    PROVE  /\ After(i8259Writes) \in ChipsType
           /\ After(i8259Writes)["master"].icw = 0 /\ After(i8259Writes)["slave"].icw = 0
           /\ After(i8259Writes)["master"].isr = {} /\ After(i8259Writes)["slave"].isr = {}
           /\ After(i8259Writes)["master"].base = 32 /\ After(i8259Writes)["slave"].base = 40
           /\ After(i8259Writes)["master"].imr = {} /\ After(i8259Writes)["slave"].imr = Line
           /\ After(i8259Writes)["master"].auto = TRUE
PROOF
  <1> DEFINE h == Chips(chip, i8259Writes)
             m0 == Command(chip["master"], Bits(17))
             s0 == Data(chip["slave"], Bits(1))
             s1 == Command(s0, Bits(17))
             m4 == Data(Data(Data(m0, Bits(32)), Bits(4)), Line)
             s4 == Data(Data(Data(s1, Bits(40)), Bits(2)), Bits(1))
  <1>1. Len(i8259Writes) = 10
    BY DEF i8259Writes
  <1>2. h[0] = chip /\ \A n \in 1..10 : h[n] = Out(h[n - 1], i8259Writes[n])
    <2>1. Len(i8259Writes) \in 0..10
      BY <1>1
    <2>2. /\ Chips(chip, i8259Writes)[0] = chip
          /\ \A n \in 1..Len(i8259Writes) : Chips(chip, i8259Writes)[n]
                = Out(Chips(chip, i8259Writes)[n - 1], i8259Writes[n])
      BY <2>1, ChipsAre
    <2>3. QED
      BY <1>1, <2>2
  <1> HIDE DEF h
  <1>3. /\ h[1] = Out(chip, Write("master", "command", Bits(17)))
        /\ h[2] = Out(h[1], Write("master", "data", Bits(32)))
        /\ h[3] = Out(h[2], Write("master", "data", Bits(4)))
        /\ h[4] = Out(h[3], Write("slave", "data", Bits(1)))
        /\ h[5] = Out(h[4], Write("slave", "command", Bits(17)))
        /\ h[6] = Out(h[5], Write("slave", "data", Bits(40)))
        /\ h[7] = Out(h[6], Write("slave", "data", Bits(2)))
        /\ h[8] = Out(h[7], Write("slave", "data", Bits(1)))
        /\ h[9] = Out(h[8], Write("master", "data", Line))
        /\ h[10] = Out(h[9], Write("slave", "data", Line))
    BY <1>2 DEF i8259Writes
  <1>4. /\ Line \in SUBSET Line /\ Bits(1) \in SUBSET Line /\ Bits(2) \in SUBSET Line
        /\ Bits(4) \in SUBSET Line /\ Bits(32) \in SUBSET Line /\ Bits(40) \in SUBSET Line
    BY DEF Bits
  <1>5. /\ chip["master"] \in State /\ chip["slave"] \in State
        /\ chip = Pair(chip["master"], chip["slave"])
    BY PairOf
  <1>6. m0 \in State /\ m0.icw = 2 /\ m0.isr = {} /\ m0.imr = {}
    BY <1>5, Reset
  <1>7. /\ m4 \in State /\ m4.isr = {} /\ m4.imr = {} /\ m4.icw = 0
        /\ m4.base = Value(Bits(32) \ (0..2))
    <2> HIDE DEF m0
    <2>1. ASSUME NEW byte \in SUBSET Line
          PROVE  LET d == Data(Data(Data(m0, Bits(32)), Bits(4)), byte) IN
                   /\ d \in State /\ d.isr = m0.isr /\ d.imr = m0.imr /\ d.icw = 0
                   /\ d.base = Value(Bits(32) \ (0..2))
      BY <1>4, <1>6, Icw2to4
    <2>2. QED
      BY <1>4, <1>6, <2>1, Zenon
  <1>8. s1 \in State /\ s1.icw = 2 /\ s1.isr = {} /\ s1.imr = {}
    <2>1. s0 \in State
      BY <1>4, <1>5, DataType
    <2>2. QED
      BY <2>1, Reset
  <1>9. /\ s4 \in State /\ s4.isr = {} /\ s4.imr = {} /\ s4.icw = 0
        /\ s4.base = Value(Bits(40) \ (0..2))
    <2> HIDE DEF s1
    <2>1. QED
      BY <1>4, <1>8, Icw2to4
  <1>10. m4.auto = TRUE
    <2> DEFINE m2 == Data(m0, Bits(32))
               m3 == Data(m2, Bits(4))
    <2>1. m2 \in State /\ m2.icw = 3
      <3> HIDE DEF m0
      <3>1. m2 \in State /\ m2 = [m0 EXCEPT !.base = Value(Bits(32) \ (0..2)), !.icw = 3]
        BY <1>4, <1>6, DataIs2, DataType
      <3>2. QED
        BY <3>1, <1>6 DEF State
    <2>2. m3 \in State /\ m3.icw = 4
      <3> HIDE DEF m2
      <3>1. m3 \in State /\ m3 = [m2 EXCEPT !.icw = 4]
        BY <1>4, <2>1, DataIs3, DataType
      <3>2. QED
        BY <3>1, <2>1 DEF State
    <2>3. 1 \in Line
      BY DEF Line
    <2> HIDE DEF m3
    <2>4. Data(m3, Line).auto = TRUE
      BY <1>4, <2>2, <2>3, Icw4Auto
    <2>5. QED
      BY <2>4 DEF m2, m3
  <1>11. h[10] = Pair(m4, Data(s4, Line))
    <2> HIDE DEF m0, s0
    <2>1. h[1] = Pair(m0, chip["slave"])
      BY <1>2, <1>3, <1>5, OutPair DEF m0
    <2>2. h[2] = Pair(Data(m0, Bits(32)), chip["slave"])
      BY <1>3, <2>1, OutPair
    <2>3. h[3] = Pair(Data(Data(m0, Bits(32)), Bits(4)), chip["slave"])
      BY <1>3, <2>2, OutPair
    <2>4. h[4] = Pair(Data(Data(m0, Bits(32)), Bits(4)), s0)
      BY <1>3, <2>3, OutPair DEF s0
    <2>5. h[5] = Pair(Data(Data(m0, Bits(32)), Bits(4)), s1)
      BY <1>3, <2>4, OutPair
    <2> HIDE DEF s1
    <2>6. h[6] = Pair(Data(Data(m0, Bits(32)), Bits(4)), Data(s1, Bits(40)))
      BY <1>3, <2>5, OutPair
    <2>7. h[7] = Pair(Data(Data(m0, Bits(32)), Bits(4)), Data(Data(s1, Bits(40)), Bits(2)))
      BY <1>3, <2>6, OutPair
    <2>8. h[8] = Pair(Data(Data(m0, Bits(32)), Bits(4)), s4)
      BY <1>3, <2>7, OutPair
    <2> HIDE DEF s4
    <2>9. h[9] = Pair(m4, s4)
      BY <1>3, <2>8, OutPair
    <2>10. QED
      BY <1>3, <2>9, OutPair
  <1> DEFINE s5 == Data(s4, Line)
  <1>12. /\ s5 \in State /\ s5.isr = {} /\ s5.imr = Line /\ s5.icw = 0
         /\ s5.base = Value(Bits(40) \ (0..2))
    <2> HIDE DEF s4
    <2>1. s5 = [s4 EXCEPT !.imr = Line] /\ s5 \in State
      BY <1>4, <1>9, DataIs0, DataType
    <2>2. QED
      BY <1>9, <2>1 DEF State
  <1> HIDE DEF m4, s5
  <1>13. h[10] \in ChipsType /\ h[10]["master"] = m4 /\ h[10]["slave"] = s5
    BY <1>7, <1>11, <1>12, PairType DEF s5
  <1>14. Value(Bits(32) \ (0..2)) = 32 /\ Value(Bits(40) \ (0..2)) = 40
    BY Bytes, Bases
  <1>15. h[10] = After(i8259Writes)
    BY <1>1 DEF After, h
  <1>16. QED
    BY <1>7, <1>10, <1>12, <1>13, <1>14, <1>15, Zenon

-----------------------------------------------------------------------------
(* The inductive invariant of Interrupts *)

\* What is done, by the number of steps that are.
LEMMA DoneAt ==
    ASSUME NEW b \in 0..Len(BootOrder)
    PROVE  LET done == {BootOrder[i] : i \in 1..b} IN
             /\ Len(BootOrder) = 11
             /\ "idt" \in done <=> b >= 2
             /\ "pic" \in done <=> b >= 3
             /\ "sti" \in done <=> b >= 9
             /\ "out" \in done <=> b = 11
PROOF
  <1>1. Len(BootOrder) = 11
    BY DEF BootOrder
  <1>2. /\ BootOrder[1] = "file"     /\ BootOrder[2] = "idt"  /\ BootOrder[3] = "pic"
        /\ BootOrder[4] = "rtc"      /\ BootOrder[5] = "keyboard"
        /\ BootOrder[6] = "page"     /\ BootOrder[7] = "terminal"
        /\ BootOrder[8] = "pit"      /\ BootOrder[9] = "sti"
        /\ BootOrder[10] = "mask"    /\ BootOrder[11] = "out"
    BY DEF BootOrder
  <1>3. \A i \in 1..11 : /\ BootOrder[i] = "idt" <=> i = 2
                         /\ BootOrder[i] = "pic" <=> i = 3
                         /\ BootOrder[i] = "sti" <=> i = 9
                         /\ BootOrder[i] = "out" <=> i = 11
    <2>1. \A i \in 1..11 : i \in {1, 2, 3, 4, 5, 6, 7, 8, 9, 10, 11}
      OBVIOUS
    <2>2. QED
      BY <1>2, <2>1
  <1>4. b \in 0..11
    BY <1>1
  <1>5. QED
    BY <1>1, <1>3, <1>4

LEMMA DoneIs ==
    ASSUME booted \in 0..Len(BootOrder)
    PROVE  /\ Len(BootOrder) = 11
           /\ "idt" \in Done <=> booted >= 2
           /\ "pic" \in Done <=> booted >= 3
           /\ "sti" \in Done <=> booted >= 9
           /\ "out" \in Done <=> booted = 11
PROOF BY DoneAt, Zenon DEF Done

\* Behind sti, what every handler needs is set up.
LEMMA AllReady ==
    ASSUME booted \in 0..Len(BootOrder), "sti" \in Done
    PROVE  \A h \in {"pit", "keyboard", "rtc"} : Needs(h) \subseteq Done
PROOF
  <1>1. booted \in 9..11
    <2>1. Len(BootOrder) = 11 /\ booted >= 9
      BY DoneIs
    <2>2. QED
      BY <2>1
  <1>2. \A i \in 1..9 : BootOrder[i] \in Done
    BY <1>1 DEF Done
  <1>3. {"file", "idt", "pic", "rtc", "keyboard", "page", "terminal", "pit"} \subseteq Done
    <2>1. /\ BootOrder[1] = "file"     /\ BootOrder[2] = "idt"  /\ BootOrder[3] = "pic"
          /\ BootOrder[4] = "rtc"      /\ BootOrder[5] = "keyboard"
          /\ BootOrder[6] = "page"     /\ BootOrder[7] = "terminal"
          /\ BootOrder[8] = "pit"
      BY DEF BootOrder
    <2>2. QED
      BY <1>2, <2>1
  <1>4. QED
    BY <1>3 DEF Needs

LEMMA ChipsTyped == TypeInv => chip \in ChipsType
PROOF BY DEF TypeInv, ChipsType, State

\* What no write but a mask's and an ICW's changes.
Kept == \A c \in Chip : /\ chip'[c].imr = chip[c].imr /\ chip'[c].icw = chip[c].icw
                        /\ chip'[c].auto = chip[c].auto /\ chip'[c].base = chip[c].base

LEMMA RaiseKeeps ==
    ASSUME chip \in ChipsType, NEW name \in Chip, NEW line \in Line, Raise(name, line)
    PROVE  chip' \in ChipsType /\ Kept /\ \A c \in Chip : chip'[c].isr = chip[c].isr
PROOF
  <1>1. chip' = [chip EXCEPT ![name].irr = @ \cup {line}]
    BY DEF Raise
  <1>2. ASSUME NEW c \in State
        PROVE  LET d == [c EXCEPT !.irr = @ \cup {line}] IN
                 /\ d \in State /\ d.isr = c.isr /\ d.imr = c.imr /\ d.icw = c.icw
                 /\ d.auto = c.auto /\ d.base = c.base
    BY DEF State
  <1>3. QED
    BY <1>1, <1>2 DEF ChipsType, Kept

\* The end of an interrupt takes it out of service, and does nothing else.
LEMMA Ended ==
    ASSUME NEW c \in State, NEW i \in 0..2
    PROVE  Command(c, EOI \cup Bits(i)) = [c EXCEPT !.isr = @ \ {i}]
PROOF
  <1>1. /\ 4 \notin EOI \cup Bits(i) /\ {5, 6} \subseteq EOI \cup Bits(i)
        /\ Value((EOI \cup Bits(i)) \cap 0..2) = i
    <2>1. i \in {0, 1, 2}
      OBVIOUS
    <2>2. CASE i = 0
      BY <2>2, Bytes, Bases
    <2>3. CASE i = 1
      BY <2>3, Bytes, Bases
    <2>4. CASE i = 2
      BY <2>4, Bytes, Bases
    <2>5. QED
      BY <2>1, <2>2, <2>3, <2>4
  <1>2. QED
    BY <1>1 DEF Command

LEMMA EndedState ==
    ASSUME NEW c \in State, NEW i \in 0..2
    PROVE  LET d == [c EXCEPT !.isr = @ \ {i}] IN
             /\ d \in State /\ d.isr = c.isr \ {i} /\ d.imr = c.imr /\ d.icw = c.icw
             /\ d.auto = c.auto /\ d.base = c.base
PROOF BY DEF State

LEMMA EoiKeeps ==
    ASSUME chip \in ChipsType, NEW irq \in {PIT_IRQ, KEYBOARD_IRQ, RTC_IRQ}, send_eoi(irq)
    PROVE  /\ chip' \in ChipsType /\ Kept
           /\ chip'["master"].isr \subseteq chip["master"].isr
           /\ chip'["slave"].isr = IF irq = RTC_IRQ
                                     THEN chip["slave"].isr \ {RTC_IRQ - IRQ_DIFF}
                                     ELSE chip["slave"].isr
PROOF
  <1> DEFINE m == chip["master"]
             s == chip["slave"]
  <1>1. m \in State /\ s \in State /\ chip = Pair(m, s)
    BY PairOf
  <1> HIDE DEF m, s
  <1>2. CASE irq \in {PIT_IRQ, KEYBOARD_IRQ}
    <2>1. irq \in 0..2 /\ irq < IRQ_DIFF /\ irq # RTC_IRQ
      BY <1>2 DEF PIT_IRQ, KEYBOARD_IRQ, IRQ_DIFF, RTC_IRQ
    <2>2. chip' = After(<<Write("master", "command", EOI \cup Bits(irq))>>)
      BY <2>1 DEF send_eoi, EoiWrites
    <2> DEFINE n == [m EXCEPT !.isr = @ \ {irq}]
    <2>3. chip' = Pair(n, s)
      <3>1. chip' = Out(Pair(m, s), Write("master", "command", EOI \cup Bits(irq)))
        BY <1>1, <2>2, After1
      <3>2. Command(m, EOI \cup Bits(irq)) = n
        BY <1>1, <2>1, Ended
      <3> HIDE DEF n
      <3>3. QED
        BY <3>1, <3>2, OutPair
    <2>4. /\ n \in State /\ n.isr = m.isr \ {irq} /\ n.imr = m.imr /\ n.icw = m.icw
          /\ n.auto = m.auto /\ n.base = m.base
      BY <1>1, <2>1, EndedState
    <2> HIDE DEF n
    <2>5. chip' \in ChipsType /\ chip'["master"] = n /\ chip'["slave"] = s
      BY <1>1, <2>3, <2>4, PairType
    <2>6. QED
      BY <2>1, <2>4, <2>5 DEF Kept, Chip, m, s
  <1>3. CASE irq = RTC_IRQ
    <2>1. irq = 8 /\ irq - IRQ_DIFF = 0 /\ ~(irq < IRQ_DIFF) /\ Cascade \in 0..2 /\ 0 \in 0..2
      BY <1>3 DEF IRQ_DIFF, RTC_IRQ, Cascade
    <2>2. chip' = After(<<Write("master", "command", EOI \cup Bits(Cascade)),
                          Write("slave", "command", EOI \cup Bits(0))>>)
      BY <2>1 DEF send_eoi, EoiWrites
    <2> DEFINE n == [m EXCEPT !.isr = @ \ {Cascade}]
               u == [s EXCEPT !.isr = @ \ {0}]
    <2>3. chip' = Out(Out(Pair(m, s), Write("master", "command", EOI \cup Bits(Cascade))),
                      Write("slave", "command", EOI \cup Bits(0)))
      BY <1>1, <2>2, After2
    <2>4. chip' = Pair(n, u)
      <3>1. Command(m, EOI \cup Bits(Cascade)) = n
        BY <1>1, <2>1, Ended
      <3>2. Command(s, EOI \cup Bits(0)) = u
        BY <1>1, <2>1, Ended
      <3> HIDE DEF n, u
      <3>3. QED
        BY <2>3, <3>1, <3>2, OutPair
    <2>5. /\ n \in State /\ n.isr = m.isr \ {Cascade} /\ n.imr = m.imr /\ n.icw = m.icw
          /\ n.auto = m.auto /\ n.base = m.base
      BY <1>1, <2>1, EndedState
    <2>6. /\ u \in State /\ u.isr = s.isr \ {0} /\ u.imr = s.imr /\ u.icw = s.icw
          /\ u.auto = s.auto /\ u.base = s.base
      BY <1>1, <2>1, EndedState
    <2> HIDE DEF n, u
    <2>7. chip' \in ChipsType /\ chip'["master"] = n /\ chip'["slave"] = u
      BY <2>4, <2>5, <2>6, PairType
    <2>8. QED
      BY <1>3, <2>1, <2>5, <2>6, <2>7 DEF Kept, Chip, m, s
  <1>4. QED
    BY <1>2, <1>3

\* A mask, written to a chip that waits for no ICW.
LEMMA Masked ==
    ASSUME NEW c \in State, c.icw = 0, NEW byte \in SUBSET Line
    PROVE  /\ Data(c, byte) \in State
           /\ Data(c, byte).imr = byte /\ Data(c, byte).icw = 0 /\ Data(c, byte).isr = c.isr
           /\ Data(c, byte).auto = c.auto /\ Data(c, byte).base = c.base
PROOF
  <1> DEFINE d == [c EXCEPT !.imr = byte]
  <1>1. /\ d \in State /\ d.imr = byte /\ d.icw = 0 /\ d.isr = c.isr
        /\ d.auto = c.auto /\ d.base = c.base
    BY DEF State
  <1>2. Data(c, byte) = d
    BY DataIs0
  <1>3. QED
    BY <1>1, <1>2

LEMMA MasterMasked ==
    ASSUME chip \in ChipsType, chip["master"].icw = 0, NEW byte \in SUBSET Line,
           chip' = After(<<Write("master", "data", byte)>>)
    PROVE  /\ chip' \in ChipsType /\ chip'["slave"] = chip["slave"]
           /\ chip'["master"].imr = byte /\ chip'["master"].icw = 0
           /\ chip'["master"].isr = chip["master"].isr
           /\ chip'["master"].auto = chip["master"].auto
           /\ chip'["master"].base = chip["master"].base
PROOF
  <1> DEFINE m == chip["master"]
             s == chip["slave"]
             n == Data(m, byte)
  <1>1. m \in State /\ s \in State /\ chip = Pair(m, s)
    BY PairOf
  <1> HIDE DEF s
  <1>2. /\ n \in State /\ n.imr = byte /\ n.icw = 0 /\ n.isr = m.isr
        /\ n.auto = m.auto /\ n.base = m.base
    BY <1>1, Masked
  <1> HIDE DEF m
  <1>3. chip' = Pair(n, s)
    BY <1>1, After1, OutPair
  <1> HIDE DEF n
  <1>4. QED
    BY <1>2, <1>3, <1>1, PairType DEF m, s

LEMMA BothMasked ==
    ASSUME chip \in ChipsType, chip["master"].icw = 0, chip["slave"].icw = 0,
           NEW a \in SUBSET Line, NEW b \in SUBSET Line,
           chip' = After(<<Write("slave", "data", a), Write("master", "data", b)>>)
    PROVE  /\ chip' \in ChipsType
           /\ chip'["master"].imr = b /\ chip'["slave"].imr = a
           /\ \A c \in Chip : /\ chip'[c].icw = 0 /\ chip'[c].isr = chip[c].isr
                             /\ chip'[c].auto = chip[c].auto /\ chip'[c].base = chip[c].base
PROOF
  <1> DEFINE m == chip["master"]
             s == chip["slave"]
             n == Data(m, b)
             u == Data(s, a)
  <1>1. m \in State /\ s \in State /\ chip = Pair(m, s)
    BY PairOf
  <1>2. /\ n \in State /\ n.imr = b /\ n.icw = 0 /\ n.isr = m.isr
        /\ n.auto = m.auto /\ n.base = m.base
    BY <1>1, Masked
  <1>3. /\ u \in State /\ u.imr = a /\ u.icw = 0 /\ u.isr = s.isr
        /\ u.auto = s.auto /\ u.base = s.base
    BY <1>1, Masked
  <1> HIDE DEF m, s
  <1>4. chip' = Pair(n, u)
    BY <1>1, After2, OutPair
  <1> HIDE DEF n, u
  <1>5. chip'["master"] = n /\ chip'["slave"] = u /\ chip' \in ChipsType
    BY <1>2, <1>3, <1>4, PairType
  <1>6. QED
    BY <1>2, <1>3, <1>5 DEF m, s, Chip

\* The steps of the boot, by their numbers.
LEMMA BootEffect ==
    ASSUME TypeInv, BootStep
    PROVE  /\ booted \in 0..10 /\ booted' = booted + 1
           /\ booted = 2 => mask' = [c \in Chip |-> Line] /\ chip' = After(i8259Writes)
           /\ booted = 3 => enable_irq(RTC_IRQ)
           /\ booted = 4 => enable_irq(KEYBOARD_IRQ)
           /\ booted = 9 => mask' = Unmasked(mask, PIT_IRQ) /\ chip' = chip
           /\ booted = 10 => chip' = After(MaskWrites(mask, PIT_IRQ)) /\ mask' = mask
           /\ booted \notin {2, 3, 4, 9, 10} => chip' = chip /\ mask' = mask
           /\ iflag' \in BOOLEAN /\ (iflag' => iflag \/ booted = 8)
PROOF
  <1> DEFINE step == BootOrder[booted + 1]
  <1>1. booted \in 0..10 /\ booted' = booted + 1
    <2>1. Len(BootOrder) = 11 /\ booted \in 0..Len(BootOrder) /\ booted < Len(BootOrder)
      BY DEF TypeInv, BootStep, BootOrder
    <2>2. QED
      BY <2>1 DEF BootStep
  <1>2. booted \in {0, 1, 2, 3, 4, 5, 6, 7, 8, 9, 10}
    BY <1>1
  <1>3. /\ booted = 2 => step = "pic"
        /\ booted = 3 => step = "rtc"
        /\ booted = 4 => step = "keyboard"
        /\ booted = 9 => step = "mask"
        /\ booted = 10 => step = "out"
        /\ booted \notin {2, 3, 4, 9, 10} =>
             step \in {"file", "idt", "page", "terminal", "pit", "sti"}
        /\ step = "sti" <=> booted = 8
    BY <1>2 DEF BootOrder
  <1>4. /\ CASE step = "pic"      -> /\ mask' = [c \in Chip |-> Line]
                                    /\ chip' = After(i8259Writes)
            [] step = "rtc"      -> enable_irq(RTC_IRQ)
            [] step = "keyboard" -> enable_irq(KEYBOARD_IRQ)
            [] step = "mask"     -> /\ mask' = Unmasked(mask, PIT_IRQ)
                                    /\ UNCHANGED chip
            [] step = "out"      -> /\ chip' = After(MaskWrites(mask, PIT_IRQ))
                                    /\ UNCHANGED mask
            [] OTHER             -> UNCHANGED <<chip, mask>>
        /\ iflag' = (iflag \/ step = "sti")
    BY DEF BootStep
  <1> HIDE DEF step
  <1>5. /\ step = "pic" => mask' = [c \in Chip |-> Line] /\ chip' = After(i8259Writes)
        /\ step = "rtc" => enable_irq(RTC_IRQ)
        /\ step = "keyboard" => enable_irq(KEYBOARD_IRQ)
        /\ step = "mask" => mask' = Unmasked(mask, PIT_IRQ) /\ chip' = chip
        /\ step = "out" => chip' = After(MaskWrites(mask, PIT_IRQ)) /\ mask' = mask
        /\ step \in {"file", "idt", "page", "terminal", "pit", "sti"} =>
             chip' = chip /\ mask' = mask
    BY <1>4
  <1>6. iflag' \in BOOLEAN /\ (iflag' => iflag \/ booted = 8)
    <2>1. iflag \in BOOLEAN
      BY DEF TypeInv
    <2>2. iflag' = (iflag \/ step = "sti")
      BY <1>4
    <2>3. iflag' \in BOOLEAN
      BY <2>2, Zenon
    <2>4. iflag' => iflag \/ step = "sti"
      BY <2>1, <2>2, Zenon
    <2>5. QED
      BY <1>3, <2>3, <2>4
  <1>7. QED
    BY <1>1, <1>3, <1>5, <1>6

-----------------------------------------------------------------------------
(* The invariant is inductive *)

ClockInv == TypeInv /\ RtcInv /\ MachineInv

LEMMA InitHolds == Init => ClockInv
PROOF
  <1> SUFFICES ASSUME Init PROVE ClockInv
    OBVIOUS
  <1>1. RtcInv
    BY RtcInvInit DEF Init
  <1>2. booted \in 0..Len(BootOrder) /\ booted = 0
    BY DEF Init, BootOrder
  <1>3. "pic" \notin Done
    BY <1>2, DoneIs
  <1>4. TypeInv
    <2>1. chip \in ChipsType
      <3> DEFINE r(b) == [irr |-> {}, isr |-> {}, imr |-> {}, icw |-> 0, auto |-> FALSE,
                          nested |-> FALSE, base |-> b]
      <3>1. \A b \in 0..255 : r(b) \in State
        BY DEF State
      <3>2. chip = [c \in Chip |-> r(IF c = "master" THEN 8 ELSE 112)]
        BY DEF Init
      <3> HIDE DEF r
      <3>3. QED
        BY <3>1, <3>2 DEF ChipsType
    <2>2. /\ mask \in [Chip -> SUBSET Line] /\ running \in Context
          /\ windows \in [Context -> 0..MaxNest] /\ keys \in 0..MaxKeys
      BY InterruptsAssumption DEF Init, Context
    <2>3. QED
      BY <1>1, <1>2, <2>1, <2>2 DEF Init, TypeInv, RtcInv, Handler, ChipsType, State
  <1>5. Cpu
    BY DEF Init, Cpu, OwnHandler, Boot
  <1>6. QED
    BY <1>1, <1>3, <1>4, <1>5 DEF ClockInv, MachineInv

\* The invariant by numbers, for its use and for its proof.
LEMMA InvFacts ==
    ASSUME ClockInv
    PROVE  /\ chip \in ChipsType /\ booted \in 0..11
           /\ booted >= 3 => Programmed
           /\ iflag \/ handler # "none" \/ running # Boot => booted >= 9
PROOF BY DoneIs, ChipsTyped DEF ClockInv, MachineInv, Cpu, TypeInv

\* A step behind the boot's sti, or of a device.
LEMMA ProgrammedKept ==
    ASSUME ClockInv, booted' = booted, mask' = mask, chip' \in ChipsType, Kept,
           booted >= 3 => /\ chip'["master"].isr \subseteq chip["master"].isr
                          /\ chip'["slave"].isr \subseteq
                               IF handler' = "rtc" THEN {RTC_IRQ - IRQ_DIFF} ELSE {}
    PROVE  "pic" \in Done' => Programmed'
PROOF
  <1> SUFFICES ASSUME "pic" \in Done' PROVE Programmed'
    OBVIOUS
  <1>1. "pic" \in Done /\ Opened' = Opened
    BY DEF Done, Opened
  <1>2. booted >= 3 /\ Programmed
    BY <1>1, DoneIs DEF ClockInv, MachineInv, TypeInv
  <1>3. "master" \in Chip /\ "slave" \in Chip
    BY DEF Chip
  <1>4. QED
    BY <1>1, <1>2, <1>3 DEF Programmed, Kept

\* The lines that are open after b steps.
OpenedAt(b) ==
    [c \in Chip |->
       IF c = "master" THEN IF b >= 10 THEN {0, 1, 2} ELSE IF b >= 5 THEN {1, 2}
                              ELSE IF b >= 4 THEN {2} ELSE {}
                       ELSE IF b >= 4 THEN {0} ELSE {}]

LEMMA OpenedIs ==
    /\ booted \in Int => Opened = OpenedAt(booted)
    /\ booted' \in Int => Opened' = OpenedAt(booted')
PROOF
  <1>1. ASSUME NEW b \in Int
        PROVE  [c \in Chip |->
                 {i \in Line :
                    IF c = "master" THEN \/ i = Cascade      /\ b >= 4
                                         \/ i = KEYBOARD_IRQ /\ b >= 5
                                         \/ i = PIT_IRQ      /\ b >= 10
                                    ELSE i = RTC_IRQ - IRQ_DIFF /\ b >= 4}]
                = OpenedAt(b)
    BY DEF OpenedAt, Line, Cascade, KEYBOARD_IRQ, PIT_IRQ, RTC_IRQ, IRQ_DIFF
  <1>2. booted \in Int => Opened = OpenedAt(booted)
    BY <1>1 DEF Opened
  <1>3. booted' \in Int => Opened' = OpenedAt(booted')
    BY <1>1 DEF Opened
  <1>4. QED
    BY <1>2, <1>3

LEMMA ChipNames ==
    /\ "master" \in Chip /\ "slave" \in Chip
    /\ \A c \in Chip : c = "master" \/ c = "slave"
PROOF BY DEF Chip

LEMMA BootInit ==
    ASSUME chip \in ChipsType, mask \in [Chip -> SUBSET Line], Len(BootOrder) = 11,
           handler' = handler, booted = 2, booted' = booted + 1, handler = "none",
           mask' = [c \in Chip |-> Line], chip' = After(i8259Writes)
    PROVE  chip' \in ChipsType /\ mask' \in [Chip -> SUBSET Line] /\ Programmed'
PROOF
  <1>1. \A c \in Chip : Opened'[c] = {}
    BY OpenedIs DEF OpenedAt
  <1>2. /\ chip' \in ChipsType
        /\ chip'["master"].icw = 0 /\ chip'["slave"].icw = 0
        /\ chip'["master"].isr = {} /\ chip'["slave"].isr = {}
        /\ chip'["master"].base = 32 /\ chip'["slave"].base = 40
        /\ chip'["slave"].imr = Line /\ chip'["master"].auto = TRUE
    BY Initialised, Zenon
  <1>3. /\ mask' \in [Chip -> SUBSET Line]
        /\ \A c \in Chip : mask'[c] = Line /\ mask'[c] = Line \ Opened'[c]
    BY <1>1
  <1>4. booted' # Len(BootOrder)
    OBVIOUS
  <1>5. QED
    BY <1>2, <1>3, <1>4, ChipNames DEF Programmed

LEMMA BootRtc ==
    ASSUME chip \in ChipsType, mask \in [Chip -> SUBSET Line], Len(BootOrder) = 11,
           handler' = handler, booted = 3, booted' = booted + 1, Programmed, enable_irq(RTC_IRQ)
    PROVE  chip' \in ChipsType /\ mask' \in [Chip -> SUBSET Line] /\ Programmed'
PROOF
  <1>1. /\ Opened'["master"] = {2} /\ Opened'["slave"] = {0}
        /\ Opened["master"] = {} /\ Opened["slave"] = {}
    BY OpenedIs, ChipNames DEF OpenedAt
  <1>2. mask["master"] = Line /\ mask["slave"] = Line
    BY <1>1, ChipNames DEF Programmed
  <1>3. /\ mask' = Unmasked(mask, RTC_IRQ)
        /\ chip' = After(<<Write("slave", "data", mask'["slave"]),
                          Write("master", "data", mask'["master"])>>)
    BY DEF enable_irq, MaskWrites, RTC_IRQ, IRQ_DIFF
  <1>4. /\ mask' \in [Chip -> SUBSET Line]
        /\ mask'["slave"] = Line \ {0} /\ mask'["master"] = Line \ {2}
    BY <1>2, <1>3, ChipNames DEF Unmasked, RTC_IRQ, IRQ_DIFF, Cascade
  <1>5. chip["master"].icw = 0 /\ chip["slave"].icw = 0
    BY ChipNames DEF Programmed
  <1>6. /\ chip' \in ChipsType
        /\ chip'["master"].imr = mask'["master"] /\ chip'["slave"].imr = mask'["slave"]
        /\ \A c \in Chip : /\ chip'[c].icw = 0 /\ chip'[c].isr = chip[c].isr
                          /\ chip'[c].auto = chip[c].auto /\ chip'[c].base = chip[c].base
    <2>1. mask'["slave"] \in SUBSET Line /\ mask'["master"] \in SUBSET Line
      BY <1>4, ChipNames
    <2>2. QED
      BY <1>3, <1>5, <2>1, BothMasked
  <1>7. QED
    BY <1>1, <1>4, <1>6, ChipNames DEF Programmed

LEMMA BootKeyboard ==
    ASSUME chip \in ChipsType, mask \in [Chip -> SUBSET Line], Len(BootOrder) = 11,
           handler' = handler, booted = 4, booted' = booted + 1, Programmed,
           enable_irq(KEYBOARD_IRQ)
    PROVE  chip' \in ChipsType /\ mask' \in [Chip -> SUBSET Line] /\ Programmed'
PROOF
  <1>1. /\ Opened'["master"] = {1, 2} /\ Opened'["slave"] = {0}
        /\ Opened["master"] = {2} /\ Opened["slave"] = {0}
    BY OpenedIs, ChipNames DEF OpenedAt
  <1>2. mask["master"] = Line \ {2} /\ mask["slave"] = Line \ {0}
    BY <1>1, ChipNames DEF Programmed
  <1>3. /\ mask' = Unmasked(mask, KEYBOARD_IRQ)
        /\ chip' = After(<<Write("master", "data", mask'["master"])>>)
    BY DEF enable_irq, MaskWrites, KEYBOARD_IRQ, IRQ_DIFF
  <1>4. /\ mask' \in [Chip -> SUBSET Line]
        /\ mask'["slave"] = Line \ {0} /\ mask'["master"] = Line \ {1, 2}
    BY <1>2, <1>3, ChipNames DEF Unmasked, KEYBOARD_IRQ, IRQ_DIFF
  <1>5. chip["master"].icw = 0
    BY ChipNames DEF Programmed
  <1>6. /\ chip' \in ChipsType /\ chip'["slave"] = chip["slave"]
        /\ chip'["master"].imr = mask'["master"] /\ chip'["master"].icw = 0
        /\ chip'["master"].isr = chip["master"].isr
        /\ chip'["master"].auto = chip["master"].auto
        /\ chip'["master"].base = chip["master"].base
    <2>1. mask'["master"] \in SUBSET Line
      BY <1>4, ChipNames
    <2>2. QED
      BY <1>3, <1>5, <2>1, MasterMasked
  <1>7. QED
    BY <1>1, <1>2, <1>4, <1>6, ChipNames DEF Programmed

LEMMA BootOther ==
    ASSUME chip \in ChipsType, mask \in [Chip -> SUBSET Line], Len(BootOrder) = 11,
           handler' = handler, booted \in 5..8, booted' = booted + 1, Programmed,
           chip' = chip, mask' = mask
    PROVE  chip' \in ChipsType /\ mask' \in [Chip -> SUBSET Line] /\ Programmed'
PROOF
  <1>1. \A c \in Chip : Opened'[c] = Opened[c]
    BY OpenedIs DEF OpenedAt
  <1>2. QED
    BY <1>1, ChipNames DEF Programmed

LEMMA BootMask ==
    ASSUME chip \in ChipsType, mask \in [Chip -> SUBSET Line], Len(BootOrder) = 11,
           handler' = handler, booted = 9, booted' = booted + 1, Programmed,
           mask' = Unmasked(mask, PIT_IRQ), chip' = chip
    PROVE  chip' \in ChipsType /\ mask' \in [Chip -> SUBSET Line] /\ Programmed'
PROOF
  <1>1. /\ Opened'["master"] = {0, 1, 2} /\ Opened'["slave"] = {0}
        /\ Opened["master"] = {1, 2} /\ Opened["slave"] = {0}
    BY OpenedIs, ChipNames DEF OpenedAt
  <1>2. mask["master"] = Line \ {1, 2} /\ mask["slave"] = Line \ {0}
    BY <1>1, ChipNames DEF Programmed
  <1>3. /\ mask' \in [Chip -> SUBSET Line]
        /\ mask'["slave"] = Line \ {0} /\ mask'["master"] = Line \ {0, 1, 2}
    BY <1>2, ChipNames DEF Unmasked, PIT_IRQ, IRQ_DIFF
  <1>4. QED
    BY <1>1, <1>2, <1>3, ChipNames DEF Programmed

LEMMA BootOut ==
    ASSUME chip \in ChipsType, mask \in [Chip -> SUBSET Line], Len(BootOrder) = 11,
           handler' = handler, booted = 10, booted' = booted + 1, Programmed,
           chip' = After(MaskWrites(mask, PIT_IRQ)), mask' = mask
    PROVE  chip' \in ChipsType /\ mask' \in [Chip -> SUBSET Line] /\ Programmed'
PROOF
  <1>1. \A c \in Chip : Opened'[c] = Opened[c]
    BY OpenedIs DEF OpenedAt
  <1>2. chip' = After(<<Write("master", "data", mask["master"])>>)
    BY DEF MaskWrites, PIT_IRQ, IRQ_DIFF
  <1>3. chip["master"].icw = 0 /\ mask["master"] \in SUBSET Line
    BY ChipNames DEF Programmed
  <1>4. /\ chip' \in ChipsType /\ chip'["slave"] = chip["slave"]
        /\ chip'["master"].imr = mask["master"] /\ chip'["master"].icw = 0
        /\ chip'["master"].isr = chip["master"].isr
        /\ chip'["master"].auto = chip["master"].auto
        /\ chip'["master"].base = chip["master"].base
    BY <1>2, <1>3, MasterMasked
  <1>5. QED
    BY <1>1, <1>4, ChipNames DEF Programmed

LEMMA BootStepHolds == ASSUME ClockInv, BootStep PROVE ClockInv'
PROOF
  <1>1. /\ UNCHANGED rtcVars /\ UNCHANGED <<running, handler, windows, regC, keys>>
        /\ running = Boot /\ handler = "none"
    BY DEF BootStep
  <1>2. TypeInv /\ RtcInv /\ Cpu
    BY DEF ClockInv, MachineInv
  <1>3. RtcInv'
    BY <1>1, <1>2 DEF RtcInv, RtcTypeInv, CountsForReadersOnly, rtcVars
  <1>4. booted \in 0..10 /\ booted' = booted + 1 /\ booted' \in 0..Len(BootOrder)
    <2>1. booted \in 0..10 /\ booted' = booted + 1
      BY <1>2, BootEffect
    <2>2. QED
      BY <2>1 DEF BootOrder
  <1>5. /\ iflag' \in BOOLEAN /\ (iflag' => iflag \/ booted = 8)
    BY <1>2, BootEffect
  <1>6. /\ Len(BootOrder) = 11
        /\ "pic" \in Done' <=> booted' >= 3
        /\ "sti" \in Done' <=> booted' >= 9
    <2>1. Done' = {BootOrder[i] : i \in 1..booted'}
      BY DEF Done
    <2>2. QED
      BY <1>4, <2>1, DoneAt, Zenon
  <1>7. Cpu'
    <2>1. iflag => booted >= 9
      BY InvFacts
    <2>2. /\ OwnHandler' /\ handler' = "none" /\ running' = Boot
      BY <1>1 DEF OwnHandler
    <2>3. iflag' => "sti" \in Done'
      BY <1>4, <1>5, <1>6, <2>1
    <2>4. QED
      BY <2>2, <2>3 DEF Cpu
  <1>8. chip \in ChipsType /\ mask \in [Chip -> SUBSET Line] /\ (booted >= 3 => Programmed)
    BY <1>2, InvFacts DEF TypeInv
  <1>9. /\ chip' \in ChipsType /\ mask' \in [Chip -> SUBSET Line]
        /\ booted' >= 3 => Programmed'
    <2>1. CASE booted \in 0..1
      BY <1>2, <1>4, <1>8, <2>1, BootEffect
    <2>2. CASE booted = 2
      BY <1>1, <1>2, <1>4, <1>6, <1>8, <2>2, BootEffect, BootInit
    <2>3. CASE booted = 3
      BY <1>1, <1>2, <1>4, <1>6, <1>8, <2>3, BootEffect, BootRtc
    <2>4. CASE booted = 4
      BY <1>1, <1>2, <1>4, <1>6, <1>8, <2>4, BootEffect, BootKeyboard
    <2>5. CASE booted \in 5..8
      BY <1>1, <1>2, <1>4, <1>6, <1>8, <2>5, BootEffect, BootOther
    <2>6. CASE booted = 9
      BY <1>1, <1>2, <1>4, <1>6, <1>8, <2>6, BootEffect, BootMask
    <2>7. CASE booted = 10
      BY <1>1, <1>2, <1>4, <1>6, <1>8, <2>7, BootEffect, BootOut
    <2>8. QED
      BY <1>4, <2>1, <2>2, <2>3, <2>4, <2>5, <2>6, <2>7
  <1>10. TypeInv'
    BY <1>1, <1>2, <1>3, <1>4, <1>5, <1>9 DEF TypeInv, RtcInv, ChipsType, State
  <1>11. QED
    BY <1>3, <1>6, <1>7, <1>9, <1>10 DEF ClockInv, MachineInv

\* What the steps behind the boot leave to prove.
LEMMA HoldsBehindBoot ==
    ASSUME ClockInv, RtcInv', booted' = booted, mask' = mask, chip' \in ChipsType, Kept,
           booted >= 3 => /\ chip'["master"].isr \subseteq chip["master"].isr
                          /\ chip'["slave"].isr \subseteq
                               IF handler' = "rtc" THEN {RTC_IRQ - IRQ_DIFF} ELSE {},
           running' \in Context, iflag' \in BOOLEAN, regC' \in BOOLEAN,
           windows' \in [Context -> 0..MaxNest], keys' \in 0..MaxKeys,
           handler' \in {"none", "keyboard", "rtc", "pit"},
           iflag' => handler' = "none",
           booted < 9 => ~iflag' /\ handler' = "none" /\ running' = Boot,
           handler' = "rtc" => windows'[running'] < MaxNest
    PROVE  ClockInv'
PROOF
  <1>1. TypeInv'
    BY DEF ClockInv, TypeInv, RtcInv, ChipsType, State, Handler
  <1>2. "pic" \in Done' => Programmed'
    BY ProgrammedKept
  <1>3. booted >= 9 => "sti" \in Done'
    <2>1. "sti" \in Done <=> booted >= 9
      BY DoneIs DEF ClockInv, TypeInv
    <2>2. Done' = Done
      BY DEF Done
    <2>3. QED
      BY <2>1, <2>2
  <1>4. Cpu'
    <2>1. booted \in 0..11
      BY InvFacts
    <2>2. QED
      BY <1>3, <2>1 DEF Cpu, OwnHandler
  <1>5. QED
    BY <1>1, <1>2, <1>4 DEF ClockInv, MachineInv

\* What the invariant says of the variables that such a step may leave alone.
LEMMA InvParts ==
    ASSUME ClockInv
    PROVE  /\ RtcInv /\ chip \in ChipsType /\ booted \in 0..11
           /\ booted >= 3 => /\ Programmed /\ chip["slave"].isr \subseteq
                                IF handler = "rtc" THEN {RTC_IRQ - IRQ_DIFF} ELSE {}
           /\ running \in Context /\ iflag \in BOOLEAN /\ regC \in BOOLEAN
           /\ windows \in [Context -> 0..MaxNest] /\ keys \in 0..MaxKeys
           /\ handler \in {"none", "keyboard", "rtc", "pit"}
           /\ iflag => handler = "none"
           /\ booted < 9 => ~iflag /\ handler = "none" /\ running = Boot
           /\ handler = "rtc" => windows[running] < MaxNest
PROOF
  <1>1. chip \in ChipsType /\ booted \in 0..11 /\ (booted >= 3 => Programmed)
    BY InvFacts
  <1>2. booted < 9 => ~iflag /\ handler = "none" /\ running = Boot
    BY <1>1, InvFacts
  <1>3. QED
    BY <1>1, <1>2 DEF ClockInv, MachineInv, Cpu, OwnHandler, TypeInv, Programmed

LEMMA RtcUnchanged == RtcInv /\ UNCHANGED rtcVars => RtcInv'
PROOF BY DEF RtcInv, RtcTypeInv, CountsForReadersOnly, rtcVars

LEMMA DevicesHold == ASSUME ClockInv, Devices PROVE ClockInv'
PROOF
  <1>1. /\ UNCHANGED <<rtcVars, mask, booted, running, iflag, handler, windows>>
        /\ regC' \in BOOLEAN /\ keys' \in 0..MaxKeys
        /\ \E name \in Chip, line \in Line : Raise(name, line)
    <2>1. /\ KEYBOARD_IRQ \in Line /\ PIT_IRQ \in Line /\ RTC_IRQ - IRQ_DIFF \in Line
          /\ keys < MaxKeys => keys + 1 \in 0..MaxKeys
      BY InvParts, InterruptsAssumption DEF KEYBOARD_IRQ, PIT_IRQ, RTC_IRQ, IRQ_DIFF, Line
    <2>2. CASE PitRaise
      BY <2>1, <2>2, InvParts, ChipNames DEF PitRaise
    <2>3. CASE RtcRaise
      BY <2>1, <2>3, InvParts, ChipNames DEF RtcRaise
    <2>4. CASE KeyRaise
      BY <2>1, <2>4, InvParts, ChipNames DEF KeyRaise
    <2>5. QED
      BY <2>2, <2>3, <2>4 DEF Devices
  <1>2. chip' \in ChipsType /\ Kept /\ \A c \in Chip : chip'[c].isr = chip[c].isr
    BY <1>1, InvParts, RaiseKeeps
  <1>3. RtcInv'
    BY <1>1, InvParts, RtcUnchanged
  <1>4. QED
    BY <1>1, <1>2, <1>3, InvParts, ChipNames, HoldsBehindBoot

\* An interrupt comes in only behind the boot's sti, and finds its vector's gate.
LEMMA AcceptHolds ==
    ASSUME ClockInv, NEW irq \in {PIT_IRQ, KEYBOARD_IRQ, RTC_IRQ}, Accept(irq)
    PROVE  ClockInv'
PROOF
  <1>1. /\ UNCHANGED <<rtcVars, mask, booted, running, windows, regC, keys>>
        /\ iflag /\ iflag' = FALSE /\ handler' = Gate(Vector(irq))
        /\ irq = RTC_IRQ => windows[running] < MaxNest
        /\ chip' = IF irq < IRQ_DIFF
                     THEN [chip EXCEPT !["master"] = Acknowledged(@, irq)]
                     ELSE [chip EXCEPT !["master"] = Acknowledged(@, Cascade),
                                       !["slave"]  = Acknowledged(@, irq - IRQ_DIFF)]
    BY DEF Accept
  <1>2. booted >= 9 /\ Programmed /\ handler = "none" /\ chip \in ChipsType
        /\ chip["slave"].isr = {}
    BY <1>1, InvParts
  <1>3. Vector(irq) = IF irq = PIT_IRQ THEN 32 ELSE IF irq = KEYBOARD_IRQ THEN 33 ELSE 40
    BY <1>2 DEF Vector, Programmed, PIT_IRQ, KEYBOARD_IRQ, RTC_IRQ, IRQ_DIFF
  <1>4. handler' = IF irq = PIT_IRQ THEN "pit" ELSE IF irq = KEYBOARD_IRQ THEN "keyboard" ELSE "rtc"
    <2>1. "idt" \in Done
      BY <1>2, DoneIs DEF ClockInv, TypeInv
    <2>2. IdtEntry(32) = "pit" /\ IdtEntry(33) = "keyboard" /\ IdtEntry(40) = "rtc"
      BY DEF IdtEntry
    <2>3. QED
      BY <1>1, <1>3, <2>1, <2>2 DEF Gate, PIT_IRQ, KEYBOARD_IRQ, RTC_IRQ
  <1>5. /\ chip' \in ChipsType /\ Kept /\ chip'["master"].isr = {}
        /\ chip'["slave"].isr \subseteq IF irq = RTC_IRQ THEN {RTC_IRQ - IRQ_DIFF} ELSE {}
    <2>1. ASSUME NEW c \in State, NEW i \in Line
          PROVE  LET d == Acknowledged(c, i) IN
                   /\ d \in State /\ d.imr = c.imr /\ d.icw = c.icw
                   /\ d.auto = c.auto /\ d.base = c.base
                   /\ d.isr \subseteq c.isr \cup {i} /\ (c.auto => d.isr = c.isr)
      BY DEF Acknowledged, State
    <2> DEFINE m == chip["master"]
               s == chip["slave"]
               n == Acknowledged(m, IF irq < IRQ_DIFF THEN irq ELSE Cascade)
               u == IF irq < IRQ_DIFF THEN s ELSE Acknowledged(s, irq - IRQ_DIFF)
    <2>2. /\ m \in State /\ s \in State /\ chip = Pair(m, s)
          /\ m.auto = TRUE /\ m.isr = {} /\ s.isr = {}
      BY <1>2, PairOf DEF Programmed
    <2>3. /\ irq < IRQ_DIFF => irq \in Line
          /\ ~(irq < IRQ_DIFF) => irq = RTC_IRQ
          /\ Cascade \in Line /\ RTC_IRQ - IRQ_DIFF \in Line
      BY DEF PIT_IRQ, KEYBOARD_IRQ, RTC_IRQ, IRQ_DIFF, Line, Cascade
    <2>4. chip' = Pair(n, u)
      BY <1>1, <2>2 DEF Pair, Chip
    <2>5. /\ n \in State /\ n.imr = m.imr /\ n.icw = m.icw /\ n.auto = m.auto
          /\ n.base = m.base /\ n.isr = {}
      <3> HIDE DEF m
      <3> QED BY <2>1, <2>2, <2>3
    <2>6. /\ u \in State /\ u.imr = s.imr /\ u.icw = s.icw /\ u.auto = s.auto
          /\ u.base = s.base
          /\ u.isr \subseteq IF irq = RTC_IRQ THEN {RTC_IRQ - IRQ_DIFF} ELSE {}
      <3> HIDE DEF s
      <3> QED BY <2>1, <2>2, <2>3
    <2> HIDE DEF n, u
    <2>7. chip' \in ChipsType /\ chip'["master"] = n /\ chip'["slave"] = u
      BY <2>4, <2>5, <2>6, PairType
    <2>8. QED
      BY <2>5, <2>6, <2>7, ChipNames DEF Kept
  <1>6. RtcInv'
    BY <1>1, InvParts, RtcUnchanged
  <1>7. handler' = "rtc" <=> irq = RTC_IRQ
    BY <1>4 DEF PIT_IRQ, KEYBOARD_IRQ, RTC_IRQ
  <1>8. QED
    BY <1>1, <1>2, <1>4, <1>5, <1>6, <1>7, InvParts, HoldsBehindBoot

\* A handler ends its interrupt where its device's is, and lets interrupts in again.
LEMMA HandleHolds == ASSUME ClockInv, Handle PROVE ClockInv'
PROOF
  <1>1. booted >= 9 /\ Programmed /\ chip \in ChipsType
        /\ chip["slave"].isr \subseteq IF handler = "rtc" THEN {RTC_IRQ - IRQ_DIFF} ELSE {}
    BY InvParts DEF Handle, PitHandler, KeyboardHandler, RtcHandler
  <1>2. /\ UNCHANGED <<mask, booted, keys>> /\ handler' = "none" /\ iflag' = TRUE
    BY DEF Handle, PitHandler, KeyboardHandler, RtcHandler
  <1>3. CASE PitHandler
    <2>1. running' \in Context
      <3>1. running \in Int /\ MaxTerminals \in Nat \ {0}
        BY InvParts, RtcAssumption DEF Context, Term, Boot
      <3>2. (running + 1) % MaxTerminals \in 0..(MaxTerminals - 1)
        BY <3>1, SMTT(30)
      <3>3. QED
        BY <1>3, <3>2 DEF PitHandler, Context, Term
    <2>2. windows' \in [Context -> 0..MaxNest] /\ regC' \in BOOLEAN
      <3>1. windows' = [windows EXCEPT ![Boot] = 0] /\ regC' = regC
        BY <1>3 DEF PitHandler
      <3>2. 0 \in 0..MaxNest
        BY InterruptsAssumption
      <3>3. windows \in [Context -> 0..MaxNest] /\ regC \in BOOLEAN
        BY InvParts
      <3>4. QED
        BY <3>1, <3>2, <3>3
    <2>3. /\ chip' \in ChipsType /\ Kept /\ chip'["master"].isr \subseteq chip["master"].isr
          /\ chip'["slave"].isr = {}
      BY <1>1, <1>3, EoiKeeps DEF PitHandler, PIT_IRQ, RTC_IRQ
    <2>4. RtcInv'
      BY <1>3, InvParts, RtcUnchanged DEF PitHandler
    <2>5. QED
      BY <1>1, <1>2, <2>1, <2>2, <2>3, <2>4, InvParts, HoldsBehindBoot
  <1>4. CASE KeyboardHandler
    <2>1. UNCHANGED <<rtcVars, running, windows, regC>>
      BY <1>4 DEF KeyboardHandler
    <2>2. /\ chip' \in ChipsType /\ Kept /\ chip'["master"].isr \subseteq chip["master"].isr
          /\ chip'["slave"].isr = {}
      BY <1>1, <1>4, EoiKeeps DEF KeyboardHandler, KEYBOARD_IRQ, RTC_IRQ
    <2>3. RtcInv'
      BY <2>1, InvParts, RtcUnchanged
    <2>4. QED
      BY <1>1, <1>2, <2>1, <2>2, <2>3, InvParts, HoldsBehindBoot
  <1>5. CASE RtcHandler
    <2>1. /\ UNCHANGED running /\ regC' = FALSE /\ handler = "rtc"
          /\ windows' = [windows EXCEPT ![running] = @ + 1]
      BY <1>5 DEF RtcHandler
    <2>2. windows' \in [Context -> 0..MaxNest]
      BY <2>1, InvParts, InterruptsAssumption
    <2>3. /\ chip' \in ChipsType /\ Kept /\ chip'["master"].isr \subseteq chip["master"].isr
          /\ chip'["slave"].isr = {}
      BY <1>1, <1>5, EoiKeeps DEF RtcHandler
    <2>4. RtcInv'
      BY <1>5, InvParts, RtcInvTick DEF RtcHandler
    <2>5. QED
      BY <1>1, <1>2, <2>1, <2>2, <2>3, <2>4, InvParts, HoldsBehindBoot
  <1>6. QED
    BY <1>3, <1>4, <1>5 DEF Handle

LEMMA RtcReturnHolds == ASSUME ClockInv, NEW c \in Context, RtcReturn(c) PROVE ClockInv'
PROOF
  <1>1. /\ UNCHANGED <<rtcVars, chip, mask, booted, running, iflag, handler, regC, keys>>
        /\ handler = "none" /\ windows[c] > 0 /\ windows' = [windows EXCEPT ![c] = @ - 1]
    BY DEF RtcReturn
  <1>2. windows' \in [Context -> 0..MaxNest]
    BY <1>1, InvParts, InterruptsAssumption
  <1>3. Kept
    BY <1>1 DEF Kept
  <1>4. RtcInv'
    BY <1>1, InvParts, RtcUnchanged
  <1>5. QED
    BY <1>1, <1>2, <1>3, <1>4, InvParts, HoldsBehindBoot

LEMMA ThreadHolds == ASSUME ClockInv, NEW t \in Term, Thread(t) PROVE ClockInv'
PROOF
  <1>1. /\ UNCHANGED <<chip, mask, booted, running, handler, windows, regC, keys>>
        /\ running = t /\ handler = "none" /\ RtcStep(t) /\ iflag' = (rpc'[t] # "refused")
    BY DEF Thread
  <1>2. iflag' \in BOOLEAN
    BY <1>1, Zenon
  <1>3. booted >= 9
    BY <1>1, InvParts, RtcAssumption DEF Term, Boot
  <1>4. RtcInv'
    BY <1>1, InvParts, RtcInvStep
  <1>5. Kept
    BY <1>1 DEF Kept
  <1>6. QED
    <2> HIDE DEF Kept
    <2>1. UNCHANGED <<chip, mask, booted, running, handler, windows, regC, keys>>
      BY <1>1
    <2> QED BY <2>1, <1>1, <1>2, <1>3, <1>4, <1>5, InvParts, HoldsBehindBoot

\* Every step of Interrupts is one of Rtc, or leaves its variables alone.
LEMMA StepIsRtc == Next => [RtcNext]_rtcVars
PROOF BY DEF Next, RtcNext, BootStep, Devices, PitRaise, RtcRaise, KeyRaise, Accept, Handle,
             PitHandler, KeyboardHandler, RtcHandler, RtcReturn, Thread, rtcVars

\* The inductive invariant: at every instruction that an interrupt may follow, the
\* clocks, the chips and the CPU are as the boot and the handlers rely on
\* (kernel.c:110-182, i8259.c:21-174, rtc.c:51-71, scheduler.c:54-114).
THEOREM ClockInvCorrect == Spec => []ClockInv
PROOF
  <1>1. ClockInv /\ [Next]_vars => ClockInv'
    <2> SUFFICES ASSUME ClockInv, [Next]_vars PROVE ClockInv'
      OBVIOUS
    <2>1. CASE BootStep
      BY <2>1, BootStepHolds
    <2>2. CASE Devices
      BY <2>2, DevicesHold
    <2>3. CASE \E irq \in {PIT_IRQ, KEYBOARD_IRQ, RTC_IRQ} : Accept(irq)
      BY <2>3, AcceptHolds
    <2>4. CASE Handle
      BY <2>4, HandleHolds
    <2>5. CASE \E c \in Context : RtcReturn(c)
      BY <2>5, RtcReturnHolds
    <2>6. CASE \E t \in Term : Thread(t)
      BY <2>6, ThreadHolds
    <2>7. CASE UNCHANGED vars
      <3>1. UNCHANGED <<rtcVars, chip, mask, booted, running, iflag, handler, windows, regC, keys>>
        BY <2>7 DEF vars, machine
      <3>2. Kept
        BY <3>1 DEF Kept
      <3>3. RtcInv'
        BY <3>1, InvParts, RtcUnchanged
      <3> HIDE DEF Kept
      <3>4. QED
        BY <3>1, <3>2, <3>3, InvParts, HoldsBehindBoot
    <2>8. QED
      BY <2>1, <2>2, <2>3, <2>4, <2>5, <2>6, <2>7 DEF Next
  <1>2. QED
    BY <1>1, InitHolds, PTL DEF Spec

-----------------------------------------------------------------------------
(* What follows from it *)

\* Every variable has its type: no number that the kernel reads from a chip, and no
\* place where it may be, is another one.
THEOREM InterruptsTypeCorrect == Spec => []TypeInv
PROOF
  <1>1. ClockInv => TypeInv
    BY DEF ClockInv
  <1>2. QED
    BY <1>1, ClockInvCorrect, PTL

\* From power-on, the chips and the CPU are as the boot has programmed them so far.
THEOREM MachineInvCorrect == Spec => []MachineInv
PROOF
  <1>1. ClockInv => MachineInv
    BY DEF ClockInv
  <1>2. QED
    BY <1>1, ClockInvCorrect, PTL

\* No handler runs before the boot has set up what it uses.
THEOREM HandlersReadyCorrect == Spec => []HandlersReady
PROOF
  <1>1. ClockInv => HandlersReady
    <2> SUFFICES ASSUME ClockInv PROVE HandlersReady
      OBVIOUS
    <2>1. handler # "none" => "sti" \in Done
      BY DEF ClockInv, MachineInv, Cpu
    <2>2. CASE handler = "none"
      BY <2>2 DEF HandlersReady, Needs
    <2>3. CASE handler \in {"keyboard", "rtc", "pit"}
      BY <2>1, <2>3, AllReady DEF HandlersReady, ClockInv, TypeInv
    <2>4. QED
      BY <2>2, <2>3, InvParts
  <1>2. QED
    BY <1>1, ClockInvCorrect, PTL

\* Every interrupt reaches its own device's handler.
THEOREM OwnHandlerCorrect == Spec => []OwnHandler
PROOF
  <1>1. ClockInv => OwnHandler
    BY DEF ClockInv, MachineInv, Cpu
  <1>2. QED
    BY <1>1, ClockInvCorrect, PTL

\* No interrupt is in service on either chip wherever interrupts are on, however
\* deep the RTC's handlers nest, and though the master took a mask for its ICW4.
THEOREM NothingInServiceCorrect == Spec => []NothingInServiceWhenOn
PROOF
  <1>1. ClockInv => NothingInServiceWhenOn
    <2> SUFFICES ASSUME ClockInv, iflag PROVE \A c \in Chip : chip[c].isr = {}
      BY DEF NothingInServiceWhenOn
    <2>1. booted >= 9 /\ handler = "none"
      BY InvParts
    <2>2. chip["slave"].isr \subseteq {}
      BY <2>1, InvParts
    <2>3. chip["master"].isr = {}
      <3>1. Programmed
        BY <2>1, InvParts
      <3>2. QED
        BY <3>1 DEF Programmed
    <2>4. QED
      BY <2>2, <2>3, ChipNames
  <1>2. QED
    BY <1>1, ClockInvCorrect, PTL

\* When the boot is over, the chips have the masks of the kernel's variables, and these
\* leave exactly the four lines open.
THEOREM MasksMirrorCorrect == Spec => []MasksMirror
PROOF
  <1>1. ClockInv => MasksMirror
    <2> SUFFICES ASSUME ClockInv, "out" \in Done PROVE MasksMirror
      BY DEF MasksMirror
    <2>1. booted = 11 /\ booted = Len(BootOrder)
      BY DoneIs DEF ClockInv, TypeInv
    <2>2. Programmed
      BY <2>1, InvParts
    <2>3. Opened["master"] = {0, 1, 2} /\ Opened["slave"] = {0}
      BY <2>1, OpenedIs, ChipNames DEF OpenedAt
    <2>4. /\ mask["master"] = Line \ {0, 1, 2} /\ mask["slave"] = Line \ {0}
          /\ \A c \in Chip : chip[c].imr = mask[c] /\ chip[c].icw = 0
      BY <2>1, <2>2, <2>3, ChipNames DEF Programmed
    <2>5. {0, 1, 2} \subseteq Line /\ {0} \subseteq Line
      BY DEF Line
    <2>6. QED
      BY <2>4, <2>5, ChipNames
      DEF MasksMirror, PIT_IRQ, KEYBOARD_IRQ, RTC_IRQ, IRQ_DIFF, Cascade
  <1>2. QED
    BY <1>1, ClockInvCorrect, PTL

\* The kernel under all its interrupts is a behaviour of Rtc, so that what is proved
\* of any schedule holds of the one that the PIT makes.
THEOREM RtcImplemented == Spec => RtcSpec
PROOF
  <1>1. Init => RtcInit
    BY DEF Init
  <1>2. [Next]_vars => [RtcNext]_rtcVars
    BY StepIsRtc DEF vars
  <1>3. QED
    BY <1>1, <1>2, PTL DEF Spec, RtcSpec

\* Under all interrupts, with whatever nesting: only readers' counters run.
THEOREM ReadersOnlyUnderInterrupts == Spec => []CountsForReadersOnly
PROOF BY RtcImplemented, CountsForReadersOnlyCorrect, PTL

\* And every terminal has its timer.
THEOREM TimersUnderInterrupts == Spec => TimersSpec
PROOF BY RtcImplemented, TimersRefined, PTL

=============================================================================
