----------------------------- MODULE BlinkServer -----------------------------
(***************************************************************************)
(* The LED of blnk_srv.c: a flip every half second, four flips a quarter    *)
(* of a second apart once a minute.  Times are in milliseconds since the    *)
(* first call of Time.  now is the clock server's time: DelayUntil returns  *)
(* as soon as it is due, or late, or at once if its time is past.           *)
(***************************************************************************)
EXTENDS Integers

CONSTANTS MaxLag,    \* bound: how late, in units of Grain, the task may be
          Grain,     \* bound: by how much time goes on in a step
          MaxTime    \* bound: when the run ends

\* What is assumed of the constants.
BlinkAssumption == MaxLag \in Nat /\ Grain \in Nat \ {0} /\ MaxTime \in Nat

VARIABLES now, wakeup_time, dbl_wu_time, pin_state, minute_counter,
          flips,     \* i of the loop of the double blink, or -1
          flipped_at \* when the pin was last due to flip

blinkVars == <<now, wakeup_time, dbl_wu_time, pin_state, minute_counter, flips,
               flipped_at>>

BlinkInit ==
    /\ now = 0
    /\ wakeup_time = 500
    /\ dbl_wu_time = 0
    /\ pin_state = "high"
    /\ minute_counter = 0
    /\ flips = -1
    /\ flipped_at = 0

\* The time that the call of DelayUntil waits for
Due == IF flips = -1 THEN wakeup_time ELSE dbl_wu_time

TimeGoesOn ==
    /\ now < MaxTime
    /\ now < Due + MaxLag * Grain
    /\ now' = now + Grain
    /\ UNCHANGED <<wakeup_time, dbl_wu_time, pin_state, minute_counter, flips,
                   flipped_at>>

Flip == /\ now >= Due
        /\ pin_state' = IF pin_state = "high" THEN "low" ELSE "high"
        /\ flipped_at' = Due
        /\ UNCHANGED now

\* DelayUntil returns in the main loop, and it is not yet the minute.
HalfSecond ==
    /\ flips = -1 /\ minute_counter + 1 # 120
    /\ Flip
    /\ minute_counter' = minute_counter + 1
    /\ wakeup_time' = wakeup_time + 500
    /\ UNCHANGED <<dbl_wu_time, flips>>

\* It is the minute: the double blink begins.
Minute ==
    /\ flips = -1 /\ minute_counter + 1 = 120
    /\ Flip
    /\ minute_counter' = 120
    /\ dbl_wu_time' = wakeup_time + 250
    /\ flips' = 0
    /\ UNCHANGED wakeup_time

QuarterSecond ==
    /\ flips \in 0 .. 2
    /\ Flip
    /\ flips' = flips + 1
    /\ dbl_wu_time' = dbl_wu_time + 250
    /\ UNCHANGED <<wakeup_time, minute_counter>>

\* Mutant: the half seconds are counted from nothing again.
LastFlipFromZero ==
    /\ flips = 3
    /\ Flip
    /\ flips' = -1
    /\ wakeup_time' = dbl_wu_time + 500
    /\ minute_counter' = 0
    /\ UNCHANGED dbl_wu_time

\* The last flip of a double blink, and back to the main loop
LastFlip ==
    /\ flips = 3
    /\ Flip
    /\ flips' = -1
    /\ wakeup_time' = dbl_wu_time + 500
    /\ minute_counter' = 2
    /\ UNCHANGED dbl_wu_time

BlinkNext == TimeGoesOn \/ HalfSecond \/ Minute \/ QuarterSecond \/ LastFlip

BlinkSpec == BlinkInit /\ [][BlinkNext]_blinkVars

-----------------------------------------------------------------------------
(* Properties *)

\* The three asserts of the double blink: the LED is on when it begins and when
\* it ends, and it takes a second.
BlinkAssertsHold ==
    /\ flips = 0 => pin_state = "high"
    /\ flips = -1 /\ minute_counter = 2 /\ dbl_wu_time # 0 =>
          pin_state = "high" /\ wakeup_time = dbl_wu_time + 500
    /\ flips = 3 => dbl_wu_time = wakeup_time + 1000

\* "Double blink every minute": it begins at each full minute and at no other
\* time, although the task may run late.  Its asserts hold.  And the LED keeps in
\* step with the clock: it is on exactly in the half seconds of even number,
\* but for the quarter seconds of the double blink.
BlinksInTime ==
    /\ BlinkAssertsHold
    /\ flips = 0 <=> flipped_at > 0 /\ flipped_at % 60000 = 0
    /\ flips = -1 => (pin_state = "high" <=> (flipped_at \div 500) % 2 = 0)
=============================================================================
