------------------------------ MODULE Sampling ------------------------------
(***************************************************************************)
(* When the producer samples: the loop of producer_routine with the sleep  *)
(* of producer_sleep (c/src/main.c), the interval of c/src/radio_control.c *)
(* and the SET_INTERVAL command of c/src/command.c that changes it.        *)
(*                                                                         *)
(* Time is counted in milliseconds and passes only while the producer is   *)
(* in nanosleep(); what it does between two sleeps takes none.  What a     *)
(* tick puts on the ingest queue is the subject of Pipeline.               *)
(***************************************************************************)
EXTENDS Integers

CONSTANTS
    PRODUCER_SLEEP_SLICE_MS,
    RADIO_CONTROL_DEFAULT_INTERVAL_MS,
    Arguments,              \* what strtol may make of a SET_INTERVAL argument
    Modulus                 \* 2^32, where uint32_t wraps

ASSUME SamplingAssumption ==
    /\ PRODUCER_SLEEP_SLICE_MS \in Nat \ {0}
    /\ Modulus \in Nat
    /\ RADIO_CONTROL_DEFAULT_INTERVAL_MS \in 1 .. Modulus - 1
    /\ Arguments \subseteq Int

VARIABLES
    stop,           \* shutdown_requested()
    interval,       \* control->interval_ms
    producer,       \* pc of the producer
    total, slept,   \* total_ms and slept_ms of producer_sleep
    slice, left,    \* slice_ms, and what is left of it
    \* History: time since the last tick, since the last tick or SET_INTERVAL, and
    \* since shutdown was requested.
    elapsed, waited, late

sleep == <<total, slept, slice, left>>
clocks == <<elapsed, waited, late>>
vars == <<stop, interval, producer, total, slept, slice, left, elapsed,
          waited, late>>

Init ==
    /\ stop = FALSE
    /\ interval = RADIO_CONTROL_DEFAULT_INTERVAL_MS
    /\ producer = "top"
    /\ total = 0 /\ slept = 0 /\ slice = 0 /\ left = 0
    /\ elapsed = 0 /\ waited = 0 /\ late = 0

-----------------------------------------------------------------------------
(* The command listener, and main's shutdown_request().                    *)

\* Mutant: what is left after the cast is stored unchecked.
StoreInterval(ms) == ms

\* radio_control_set_interval_ms ignores 0.
SetIntervalMs(ms) == IF ms = 0 THEN interval ELSE ms

\* apply_set_interval: an argument that is not positive is refused, another one
\* is cast to uint32_t.
SetInterval ==
    /\ \E ms \in Arguments : ms > 0 /\ interval' = SetIntervalMs(ms % Modulus)
    /\ waited' = 0
    /\ UNCHANGED <<stop, producer, sleep, elapsed, late>>

ShutdownRequest ==
    /\ ~stop
    /\ stop' = TRUE
    /\ UNCHANGED <<interval, producer, sleep, clocks>>

-----------------------------------------------------------------------------
(* The producer                                                            *)

LoopTop ==
    /\ producer = "top"
    /\ \/ stop /\ producer' = "done" /\ UNCHANGED <<elapsed, waited>>
       \/ ~stop /\ producer' = "sampled" /\ elapsed' = 0 /\ waited' = 0
    /\ UNCHANGED <<stop, interval, sleep, late>>

\* Mutant: the interval of the last sleep is kept.
KeepInterval == IF total = 0 THEN interval ELSE total

\* radio_control_get_interval_ms.
GetIntervalMs == interval

SleepBegin ==
    /\ producer = "sampled"
    /\ total' = GetIntervalMs /\ slept' = 0
    /\ producer' = "check"
    /\ UNCHANGED <<stop, interval, slice, left, clocks>>

\* Mutants: the last slice is a full one; the whole rest is one slice.
FullSlice == PRODUCER_SLEEP_SLICE_MS
WholeSlice == total - slept

\* slice_ms.
NextSlice ==
    IF total - slept < PRODUCER_SLEEP_SLICE_MS THEN total - slept
    ELSE PRODUCER_SLEEP_SLICE_MS

SleepOn ==
    /\ producer = "check" /\ slept < total /\ ~stop
    /\ slice' = NextSlice /\ left' = NextSlice
    /\ producer' = "asleep"
    /\ UNCHANGED <<stop, interval, total, slept, clocks>>

SleepEnd ==
    /\ producer = "check" /\ (slept >= total \/ stop)
    /\ producer' = "top"
    /\ UNCHANGED <<stop, interval, sleep, clocks>>

\* A millisecond of nanosleep().
TimePasses ==
    /\ producer = "asleep" /\ left > 0
    /\ left' = left - 1
    /\ elapsed' = elapsed + 1 /\ waited' = waited + 1
    /\ late' = IF stop THEN late + 1 ELSE late
    /\ UNCHANGED <<stop, interval, producer, total, slept, slice>>

WakeUp ==
    /\ producer = "asleep" /\ left = 0
    /\ slept' = slept + slice
    /\ producer' = "check"
    /\ UNCHANGED <<stop, interval, total, slice, left, clocks>>

Ended == producer = "done" /\ UNCHANGED vars

-----------------------------------------------------------------------------
Producer == LoopTop \/ SleepBegin \/ SleepOn \/ SleepEnd \/ TimePasses \/ WakeUp

Next == SetInterval \/ ShutdownRequest \/ Producer \/ Ended

Spec == Init /\ [][Next]_vars

\* The producer runs whenever it can and time passes; no command and no
\* shutdown is owed.
FairSpec == Spec /\ WF_vars(Producer)

-----------------------------------------------------------------------------
(* Properties                                                              *)

\* Types.  The interval is never 0, which would have the producer spin
\* (radio_control.h:24-25), although the cast of command.c:73 comes after the
\* test for a positive argument.
TypeOK ==
    /\ stop \in BOOLEAN
    /\ interval \in 1 .. Modulus - 1
    /\ producer \in {"top", "sampled", "check", "asleep", "done"}
    /\ total \in 0 .. Modulus - 1 /\ slept \in Nat
    /\ slice \in Nat /\ left \in 0 .. slice
    /\ elapsed \in Nat /\ waited \in Nat /\ late \in Nat

\* Shutdown is noticed within one slice of sleep, however long the interval and
\* whenever the request comes (main.c:36-40).
StopIsNoticed == late <= PRODUCER_SLEEP_SLICE_MS

\* From one tick to the next the producer sleeps exactly the interval read in
\* between, cut into slices as it may be (main.c:43-51, 64), and the unsigned
\* subtraction of main.c:44 never wraps.  This is about the time slept: the work
\* of a tick, and a blocked enqueue, come on top of it.
TickOnTime ==
    /\ producer = "top" /\ ~stop => elapsed = total
    /\ slept <= total

\* The interval set last is the one the producer comes to sleep, unless shutdown
\* comes first (radio_control.h:12-14: it reads the interval "every cycle").
LastIntervalIsUsed ==
    \A ms \in 1 .. Modulus - 1 :
        <>[](interval = ms /\ ~stop) => <>[](producer = "asleep" => total = ms)

\* main.c:21-23: slices are for "how promptly it notices shutdown_requested() or
\* a fresh SET_INTERVAL": after one, the producer sleeps no longer than the
\* interval it set, and a slice.
FreshIntervalIsNoticed == waited <= interval + PRODUCER_SLEEP_SLICE_MS
=============================================================================
