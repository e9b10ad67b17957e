--------------------------- MODULE SamplingProofs ---------------------------
(***************************************************************************)
(* What Sampling promises, for every slice length, width of the interval   *)
(* and set of commands.                                                    *)
(***************************************************************************)
EXTENDS Sampling, TLAPS

USE DEF TypeOK, StopIsNoticed, TickOnTime

\* How the clocks and the variables of producer_sleep go together: elapsed time is
\* the slices slept and the part of this one, and since shutdown was requested at
\* most this part has passed.
SleepInv ==
    /\ producer = "sampled" => elapsed = 0
    /\ producer = "check" => elapsed = slept
    /\ producer = "asleep" => /\ elapsed = slept + slice - left
                              /\ slept + slice <= total
                              /\ slice <= PRODUCER_SLEEP_SLICE_MS
                              /\ late <= slice - left
    /\ ~stop => late = 0

IInv == TypeOK /\ StopIsNoticed /\ TickOnTime /\ SleepInv

\* A positive argument leaves an interval that is not 0, also after the cast.
LEMMA IntervalType ==
    ASSUME TypeOK, NEW ms \in Int, ms > 0
    PROVE  SetIntervalMs(ms % Modulus) \in 1 .. Modulus - 1
  BY SamplingAssumption DEF SetIntervalMs

\* The invariant holds when the producer starts.
LEMMA InitInv == Init => IInv
<1> SUFFICES ASSUME Init PROVE IInv
  OBVIOUS
<1>1. TypeOK
  <2>1. Modulus - 1 \in Nat /\ 0 \in 0 .. Modulus - 1 /\ 0 \in 0 .. 0
    BY SamplingAssumption
  <2> QED
    BY <2>1, SamplingAssumption, Zenon DEF Init
<1>2. StopIsNoticed /\ TickOnTime /\ SleepInv
  BY SamplingAssumption DEF Init, SleepInv
<1> QED
  BY <1>1, <1>2 DEF IInv

\* Every step of the producer, of the command listener and of main keeps it.
LEMMA NextInv == IInv /\ [Next]_vars => IInv'
<1> SUFFICES ASSUME IInv, [Next]_vars PROVE IInv'
  OBVIOUS
<1> USE SamplingAssumption DEF IInv, SleepInv
<1>1. CASE SetInterval
  <2>1. interval' \in 1 .. Modulus - 1
    BY <1>1, IntervalType DEF SetInterval
  <2>2. UNCHANGED <<stop, producer, total, slept, slice, left, elapsed, late>> /\ waited' = 0
    BY <1>1 DEF SetInterval, sleep
  <2> QED
    BY <2>1, <2>2
<1>2. CASE ShutdownRequest
  BY <1>2 DEF ShutdownRequest, sleep, clocks
<1>3. CASE LoopTop
  BY <1>3 DEF LoopTop, sleep
<1>4. CASE SleepBegin
  BY <1>4 DEF SleepBegin, GetIntervalMs, clocks
<1>5. CASE SleepOn
  BY <1>5 DEF SleepOn, NextSlice, clocks
<1>6. CASE SleepEnd
  BY <1>6 DEF SleepEnd, sleep, clocks
<1>7. CASE TimePasses
  BY <1>7 DEF TimePasses
<1>8. CASE WakeUp
  BY <1>8 DEF WakeUp, clocks
<1>9. CASE UNCHANGED vars
  BY <1>9 DEF vars
<1> QED
  BY <1>1, <1>2, <1>3, <1>4, <1>5, <1>6, <1>7, <1>8, <1>9 DEF Next, Producer, Ended

\* The invariant holds throughout.
LEMMA Invariant == Spec => []IInv
  BY InitInv, NextInv, PTL DEF Spec

\* No command, whatever its argument, leaves an interval of 0 (command.c:66-75,
\* radio_control.c:44-51).
THEOREM TypeCorrect == Spec => []TypeOK
<1>1. IInv => TypeOK
  BY DEF IInv
<1> QED
  BY Invariant, <1>1, PTL

\* A shutdown request is noticed within one slice (main.c:41-53), for every slice
\* length and interval.
THEOREM StopNoticedInOneSlice == Spec => []StopIsNoticed
<1>1. IInv => StopIsNoticed
  BY DEF IInv
<1> QED
  BY Invariant, <1>1, PTL

\* The slices of producer_sleep add up to the interval, for every slice length and
\* interval.
THEOREM SlicesAddUp == Spec => []TickOnTime
<1>1. IInv => TickOnTime
  BY DEF IInv
<1> QED
  BY Invariant, <1>1, PTL
=============================================================================
