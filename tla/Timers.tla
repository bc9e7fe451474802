------------------------------- MODULE Timers -------------------------------
(***************************************************************************)
(* Time: the tick counter of src/arch/armv7e-m/timebase/timebase.c, the    *)
(* delays and time-outs that count on it, and hal_timer_init_freq of       *)
(* src/common/hal_timer.c with the divider searches of the STM32 and the   *)
(* ATmega328P.                                                             *)
(*                                                                         *)
(* Arithmetic kept in a uint32_t wraps at Word.  Microseconds pass one at  *)
(* a time; the tick interrupt is taken when it falls due, and the spinning *)
(* thread sees it before the next one.                                     *)
(***************************************************************************)
EXTENDS Naturals, Sequences

CONSTANTS
  Word,     \* 2^32
  Ms,       \* 1000: microseconds to the millisecond
  Periods,  \* arguments of hal_timebase_init
  Waits,    \* arguments of the delays and time-outs, in their own units
  MaxAge,   \* bound on the time a wait is followed for, past every one asked for
  Clk,      \* a timer's input clock
  Chips     \* the timers: counts to the period at most, and a fixed table of
            \* dividers, empty where any up to that many can be programmed

ASSUME TimersAssumption ==
  /\ Word \in Nat \ {0} /\ Ms \in Nat \ {0} /\ Clk \in Nat \ {0}
  /\ MaxAge \in Nat /\ \A n \in Waits : n * Ms < MaxAge
  /\ Periods \subseteq Nat /\ Waits \subseteq Nat
  /\ \A c \in DOMAIN Chips :
       /\ Chips[c].top \in Nat \ {0} /\ Chips[c].divs \in Seq(Nat \ {0})
       /\ Chips[c].divs = <<>> => Clk < Chips[c].top * Chips[c].top

VARIABLES
  systick_ticks, tick_duration_us,
  phase,    \* microseconds since the last tick
  spin,     \* the busy-wait under way, or the last one
  age,      \* history: microseconds since it began
  wrapped,  \* history: hal_timebase_get_micros has wrapped since then
  timer     \* what the last hal_timer_init_freq set

NoSpin == [kind |-> "none"]
NoTimer == [chip |-> "none"]
timevars == <<systick_ticks, tick_duration_us, phase, spin, age, wrapped, timer>>

Micros == (systick_ticks * tick_duration_us) % Word
\* mutant: a tick is taken for a millisecond
MillisTicks == systick_ticks
Millis == Micros \div Ms

-----------------------------------------------------------------------------
(* The timebase.  A thread is in one wait at a time.                       *)

Spinning == spin.kind \in {"delay", "timeout"}

\* armv7em_timebase_init; a zero period is refused
TimebaseInit(us) ==
  /\ ~Spinning /\ us # 0
  /\ systick_ticks' = 0 /\ tick_duration_us' = us /\ phase' = 0 /\ spin' = NoSpin
  /\ UNCHANGED <<age, wrapped, timer>>

\* mutant: the counter is compared with the tick to stop at
DelayOverAbsolute == systick_ticks >= (spin.start + spin.need) % Word
DelayOver == (systick_ticks - spin.start) % Word >= spin.need

TimeoutOver == (Millis - spin.start) % Word >= spin.need

StartSpin(kind, start, need, asked) ==
  /\ ~Spinning
  /\ spin' = [kind |-> kind, start |-> start, need |-> need, asked |-> asked]
  /\ age' = 0 /\ wrapped' = FALSE
  /\ UNCHANGED <<systick_ticks, tick_duration_us, phase, timer>>

\* armv7em_timebase_delay_us, called for a delay of so many microseconds
DelayFor(us, asked) ==
  LET whole == us \div tick_duration_us IN
  StartSpin("delay", systick_ticks, IF whole = 0 THEN 1 ELSE whole, asked)

Delay(us) == DelayFor(us, us)

\* armv7em_timebase_delay_ms: the product is a uint32_t
DelayMs(ms) == DelayFor((ms * Ms) % Word, ms * Ms)

\* a loop on hal_timebase_get_millis, as in sdio.c and the two boot stages
Timeout(ms) == StartSpin("timeout", Millis, ms, ms)

Over ==
  \/ spin.kind = "delay" /\ DelayOver
  \/ spin.kind = "timeout" /\ TimeoutOver

Finish ==
  /\ Over
  /\ spin' = [spin EXCEPT !.kind = IF @ = "delay" THEN "delayed" ELSE "timed out"]
  /\ UNCHANGED <<systick_ticks, tick_duration_us, phase, age, wrapped, timer>>

\* a microsecond; at the end of a period hal_timebase_tick counts it
Elapse ==
  /\ ~Over
  /\ \/ /\ phase + 1 < tick_duration_us /\ phase' = phase + 1
        /\ UNCHANGED <<systick_ticks, wrapped>>
     \/ /\ phase + 1 >= tick_duration_us /\ phase' = 0
        /\ systick_ticks' = (systick_ticks + 1) % Word
        /\ wrapped' = (wrapped \/ Micros + tick_duration_us >= Word)
  /\ age' = IF ~Spinning THEN 0 ELSE IF age < MaxAge THEN age + 1 ELSE age
  /\ spin' = IF Spinning THEN spin ELSE NoSpin
  /\ UNCHANGED <<tick_duration_us, timer>>

-----------------------------------------------------------------------------
(* A timer's divider and period for so many input clocks.                  *)

\* stm32_timer_set_timebase, a counter of 16 bits: the least divider whose
\* period fits, or the one of the next nine that leaves the least over
Searched(top, ticks) ==
  LET low  == ticks \div top
      last == IF low + 9 < top THEN low + 9 ELSE top - 1
      over(psc) == ticks % (psc + 1)
      psc == CHOOSE p \in low..last : \A q \in low..last :
               over(p) < over(q) \/ (over(p) = over(q) /\ p <= q)
  IN IF ticks <= top THEN [div |-> 1, count |-> ticks]
     ELSE [div |-> psc + 1, count |-> 1 + (((ticks \div (psc + 1)) - 1) % top)]

\* solve: the first divider of the table whose period fits
Fitting(chip, ticks) ==
  {i \in DOMAIN chip.divs : ticks \div chip.divs[i] \in 1..chip.top}
Solved(chip, ticks) ==
  LET i == CHOOSE i \in Fitting(chip, ticks) : \A j \in Fitting(chip, ticks) : i <= j
  IN [div |-> chip.divs[i], count |-> ticks \div chip.divs[i]]

\* mutant: the search starts from a divider whose period need not fit
SplitShort(chip, ticks) ==
  IF chip.divs = <<>> /\ ticks > chip.top
  THEN LET psc == (ticks \div chip.top) - 1
       IN [div |-> psc + 1, count |-> 1 + (((ticks \div (psc + 1)) - 1) % chip.top)]
  ELSE IF chip.divs = <<>> THEN Searched(chip.top, ticks) ELSE Solved(chip, ticks)

Split(chip, ticks) ==
  IF chip.divs = <<>> THEN Searched(chip.top, ticks) ELSE Solved(chip, ticks)

\* hal_timer_init_freq; a frequency of zero is refused
InitFreq(c, freq) ==
  LET whole == Clk \div freq
      ticks == IF whole = 0 THEN 1 ELSE whole
      chip  == Chips[c]
  IN /\ ~Spinning
     /\ timer' = IF chip.divs # <<>> /\ Fitting(chip, ticks) = {} THEN NoTimer
                 ELSE [chip |-> c, freq |-> freq, ticks |-> ticks, set |-> Split(chip, ticks)]
     /\ UNCHANGED <<systick_ticks, tick_duration_us, phase, spin, age, wrapped>>

\* hal_timer_get_frequency
Frequency(set) == (Clk \div set.div) \div set.count

-----------------------------------------------------------------------------
TimersInit ==
  /\ systick_ticks = 0 /\ tick_duration_us = 1 /\ phase = 0
  /\ spin = NoSpin /\ age = 0 /\ wrapped = FALSE /\ timer = NoTimer

TimebaseNext ==
  \/ \E us \in Periods : TimebaseInit(us)
  \/ \E n \in Waits : Delay(n) \/ DelayMs(n) \/ Timeout(n)
  \/ Finish \/ Elapse

FrequencyNext == \E c \in DOMAIN Chips, freq \in 1..(Clk + 1) : InitFreq(c, freq)

TimersSpec == TimersInit /\ [][TimebaseNext \/ FrequencyNext]_timevars

-----------------------------------------------------------------------------
(* timebase.c:116: wherever the counter stands when a delay begins, and    *)
(* whether or not it wraps before the end, the delay never lasts longer    *)
(* than was asked, or one tick, and is not early by two ticks, unless the  *)
(* microseconds asked for do not fit a uint32_t: hal_delay_ms multiplies   *)
(* in 32 bits (timebase.c:129), and its delay is then short.               *)
DelayLasts ==
  spin.kind = "delayed" =>
    /\ spin.asked < Word => age + 2 * tick_duration_us > spin.asked
    /\ age <= spin.asked \/ age <= tick_duration_us

(* sdio.c:1121: a time-out in milliseconds does not pass early by more     *)
(* than the millisecond and the tick under way, unless the microsecond     *)
(* count wrapped meanwhile: the milliseconds are taken from it and wrap    *)
(* with it, long before 2^32 of them.                                      *)
TimeoutLasts ==
  spin.kind = "timed out" /\ ~wrapped =>
    age + Ms + tick_duration_us > spin.asked * Ms

(* timer.c:157: a timer accepts only a period its counter and its divider  *)
(* can hold, at most one count shorter than the one asked for, and the     *)
(* frequency read back is then no lower than that asked for.               *)
PeriodFits ==
  timer # NoTimer =>
    LET set == timer.set IN
    /\ set.count \in 1..Chips[timer.chip].top
    /\ set.div * set.count <= timer.ticks /\ timer.ticks < set.div * (set.count + 1)
    /\ Chips[timer.chip].divs = <<>> => set.div <= Chips[timer.chip].top
    /\ timer.freq <= Clk => Frequency(set) >= timer.freq
=============================================================================
