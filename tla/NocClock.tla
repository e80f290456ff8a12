------------------------------ MODULE NocClock ------------------------------
(***************************************************************************)
(* The clock edges at which the NoC schedules its events.  Net device and  *)
(* applications compute them with the same formula.                        *)
(***************************************************************************)
EXTENDS Integers

CONSTANT Clock     \* the GlobalClock of NocRegistry, in ticks of time

VARIABLE now       \* Simulator::Now ()

\* GlobalClock is not zero: NocSyncApplication::GetGlobalClock asserts it, and the
\* power counters divide by it.
ASSUME GlobalClockAssumption == Clock \in Nat \ {0}

\* Mutant: one clock cycle too late.
ClockAfterNext(time) ==
  {t \in time + 2 * Clock .. time + 3 * Clock : t % Clock = 0 /\ time + 2 * Clock < t}

\* Mutant: without the `1 +'.
ClockFromNow(time) == {t \in time .. time + Clock : t % Clock = 0 /\ t < time + Clock}

\* (1 + ceil (time / Clock)) * Clock, computed in floating point: from the third
\* clock edge on the quotient may come out just above the integer it stands for.
NextClock(time) ==
  {t \in time + Clock .. time + 2 * Clock :
     t % Clock = 0 /\ (t = time + 2 * Clock => time > Clock)}

Nothing == -1           \* an event that is not pending

=============================================================================
