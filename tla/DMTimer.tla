------------------------------- MODULE DMTimer -------------------------------
(***************************************************************************)
(* A dual mode timer, its driver dmtimer.c, and its two users: the clock    *)
(* server, which wants an overflow every millisecond, and timer.c, which    *)
(* wants a counter that runs for ever.  The device counts between any two   *)
(* accesses of the driver.                                                  *)
(***************************************************************************)
EXTENDS RegisterAccess

CONSTANTS TimerModulus,  \* values of the counter, 2^32 in the device
          ClocksPerMs,   \* cycles of the timer's clock in a millisecond, 24000
          MaxDmCalls

\* What is assumed of the constants.
DMTimerAssumption ==
    /\ TimerModulus \in Nat /\ ClocksPerMs \in 2 .. TimerModulus
    /\ MaxDmCalls \in Nat

CLOCK_OVF == TimerModulus - 1
CLOCK_1ms == ClocksPerMs - 1

PTV == {"PTV0", "PTV1", "PTV2"}        \* the bits of one field
IntFlags == {"MAT", "OVF", "TCAR"}

VARIABLES tmr,      \* the registers
          phase,    \* where the prescaler is
          use,      \* who uses the timer: "clock", "debug", or "any" caller
          job,      \* the accesses still to be made
          held,     \* the register that is loaded and not yet stored, if any
          kept,     \* what DMTimerContextSave kept
          wanted,    \* what the calls so far should have come to
          clocks,   \* for its users: cycles since it was last started or overflowed
          dmCalls

dmVars == <<tmr, phase, use, job, held, kept, wanted, clocks, dmCalls>>

-----------------------------------------------------------------------------
(* The functions of dmtimer.c, as the accesses they make *)

DMTimerEnable  == <<Or("TCLR", {"ST"})>>
DMTimerDisable == <<AndNot("TCLR", {"ST"})>>

\* Mutant: the old mode is not cleared.
ModeOnlyAdded(mode) == <<Or("TCLR", mode)>>

DMTimerModeConfigure(mode) == Programmed("TCLR", {"AR", "CE"}, mode)

DMTimerPreScalerClkEnable(ptv) ==
    <<AndNot("TCLR", PTV), Or("TCLR", ptv \cap (PTV \cup {"PRE"}))>>

DMTimerPreScalerClkDisable == <<AndNot("TCLR", {"PRE"})>>

DMTimerCounterSet(n) == <<Put("TCRR", n)>>
DMTimerReloadSet(n)  == <<Put("TLDR", n)>>
DMTimerCompareSet(n) == <<Put("TMAR", n)>>

DMTimerGPOConfigure(gpo) == Programmed("TCLR", {"GPO"}, gpo)

\* Writes of 1 to IRQSTATUS_RAW, IRQSTATUS, IRQENABLE_SET and IRQENABLE_CLR
DMTimerIntRawStatusSet(flags) == <<Set("RAW", flags \cap IntFlags)>>
DMTimerIntStatusClear(flags)  == <<Clear("RAW", flags \cap IntFlags)>>
DMTimerIntEnable(flags)       == <<Set("IRQENABLE", flags \cap IntFlags)>>
DMTimerIntDisable(flags)      == <<Clear("IRQENABLE", flags \cap IntFlags)>>

DMTimerResetConfigure(option) == Programmed("TSICR", {"SFT"}, option)

\* The control register comes last, when everything it starts is in place.
DMTimerContextRestore ==
    <<Put("TLDR", kept.TLDR), Put("TMAR", kept.TMAR), Set("IRQENABLE", kept.IRQENABLE),
      Put("TCRR", kept.TCRR), Put("TCLR", kept.TCLR)>>

DMTimerIntStatusGet == tmr.RAW \cap tmr.IRQENABLE

AfterReset == [TCLR |-> {}, TCRR |-> 0, TLDR |-> 0, TMAR |-> 0,
               RAW |-> {}, IRQENABLE |-> {}, TSICR |-> {}]

-----------------------------------------------------------------------------
(* The users *)

\* Mutant: as if the overflow itself took no cycle.
ReloadOneShort == CLOCK_OVF - ClocksPerMs

\* From clock_init: an overflow happens one cycle after CLOCK_OVF.
reloadValue == CLOCK_OVF - CLOCK_1ms

\* clock_init, then what clksrv_notify does once it has registered its event
StartClock == DMTimerDisable \o DMTimerPreScalerClkDisable
              \o DMTimerCounterSet(reloadValue) \o DMTimerReloadSet(reloadValue)
              \o DMTimerModeConfigure({"AR"}) \o DMTimerIntEnable({"OVF"})
              \o DMTimerEnable

clksrv_notify_cb == DMTimerIntDisable({"OVF"}) \o DMTimerIntStatusClear({"OVF"})
                    \o DMTimerIntEnable({"OVF"})

\* DMTIMER_PRESCALER_CLK_DIV_BY_8
DivBy8 == {"PTV1", "PRE"}

dbg_tmr_reset == DMTimerDisable \o DMTimerCounterSet(0) \o DMTimerReloadSet(0)
                 \o DMTimerModeConfigure({"AR"}) \o DMTimerPreScalerClkEnable(DivBy8)
                 \o DMTimerEnable

dbg_tmr_get == tmr.TCRR \div 3

-----------------------------------------------------------------------------
(* What the calls come to *)

Divisor(tclr) ==
    IF "PRE" \notin tclr THEN 1
    ELSE 2 ^ (1 + (IF "PTV0" \in tclr THEN 1 ELSE 0) + (IF "PTV1" \in tclr THEN 2 ELSE 0)
                + (IF "PTV2" \in tclr THEN 4 ELSE 0))

\* What a timer with these registers does from now on
Meaning(t) == [count |-> t.TCRR, reload |-> t.TLDR, compare |-> t.TMAR,
               running |-> "ST" \in t.TCLR, mode |-> t.TCLR \cap {"AR", "CE"},
               divisor |-> Divisor(t.TCLR), gpo |-> t.TCLR \cap {"GPO"},
               enabled |-> t.IRQENABLE, sft |-> t.TSICR]

Counts   == {0, TimerModulus - 2}
FlagSets == {{"OVF"}, {"OVF", "MAT"}}

DmCall(accesses, meaning) ==
    /\ use = "any" /\ dmCalls < MaxDmCalls /\ job = << >>
    /\ dmCalls' = dmCalls + 1
    /\ job' = accesses
    /\ wanted' = meaning
    /\ UNCHANGED <<tmr, phase, use, held, kept, clocks>>

Stopped == "ST" \notin tmr.TCLR

\* The device clears ST when a timer that does not reload overflows, and a
\* load and store of TCLR around that would start it again: like clock_init
\* and dbg_tmr_reset, callers configure a timer that they have stopped.
ConfigureCall ==
    /\ Stopped
    /\ \/ DmCall(DMTimerEnable, [wanted EXCEPT !.running = TRUE])
       \/ \E mode \in SUBSET {"AR", "CE"} :
             DmCall(DMTimerModeConfigure(mode), [wanted EXCEPT !.mode = mode])
       \/ \E ptv \in {{"PRE"}, {"PTV0", "PRE"}} :
             DmCall(DMTimerPreScalerClkEnable(ptv), [wanted EXCEPT !.divisor = Divisor(ptv)])
       \/ DmCall(DMTimerPreScalerClkDisable, [wanted EXCEPT !.divisor = 1])
       \/ \E gpo \in SUBSET {"GPO"} :
             DmCall(DMTimerGPOConfigure(gpo), [wanted EXCEPT !.gpo = gpo])
       \/ \E n \in Counts : DmCall(DMTimerCounterSet(n), [wanted EXCEPT !.count = n])
       \/ \* DMTimerTriggerSet: TTGR makes the device load its counter.
          DmCall(<<Put("TCRR", tmr.TLDR)>>, [wanted EXCEPT !.count = tmr.TLDR])

AnyTimeCall ==
    \/ DmCall(DMTimerDisable, [wanted EXCEPT !.running = FALSE])
    \/ \E n \in Counts :
          \/ DmCall(DMTimerReloadSet(n), [wanted EXCEPT !.reload = n])
          \/ DmCall(DMTimerCompareSet(n), [wanted EXCEPT !.compare = n])
    \/ \E flags \in FlagSets :
          \/ DmCall(DMTimerIntEnable(flags), [wanted EXCEPT !.enabled = @ \cup flags])
          \/ DmCall(DMTimerIntDisable(flags), [wanted EXCEPT !.enabled = @ \ flags])
          \/ DmCall(DMTimerIntRawStatusSet(flags), wanted)
          \/ DmCall(DMTimerIntStatusClear(flags), wanted)
    \/ \E option \in SUBSET {"SFT"} :
          DmCall(DMTimerResetConfigure(option), [wanted EXCEPT !.sft = option])

\* Called before the timer loses its registers, and after
DMTimerContextSave ==
    /\ use = "any" /\ dmCalls < MaxDmCalls /\ job = << >>
    /\ dmCalls' = dmCalls + 1
    /\ kept' = tmr
    /\ UNCHANGED <<tmr, phase, use, job, held, wanted, clocks>>

RestoreCall == /\ tmr = AfterReset
               /\ DmCall(DMTimerContextRestore, [Meaning(kept) EXCEPT !.sft = {}])

DMTimerReset ==
    /\ use = "any" /\ dmCalls < MaxDmCalls /\ job = << >>
    /\ dmCalls' = dmCalls + 1
    /\ tmr' = AfterReset
    /\ phase' = 0
    /\ wanted' = Meaning(AfterReset)
    /\ UNCHANGED <<use, job, held, kept, clocks>>

\* The kernel calls it when the timer raises its interrupt.
Callback ==
    /\ use = "clock" /\ job = << >> /\ DMTimerIntStatusGet # {}
    /\ job' = clksrv_notify_cb
    /\ UNCHANGED <<tmr, phase, use, held, kept, wanted, clocks, dmCalls>>

clksrv_cleanup ==
    /\ use = "clock" /\ job = << >>
    /\ job' = DMTimerDisable
    /\ use' = "nobody"
    /\ UNCHANGED <<tmr, phase, held, kept, wanted, clocks, dmCalls>>

-----------------------------------------------------------------------------
(* The accesses of a call, and the device *)

DmLoad == /\ job # << >> /\ ~ Head(job).atomic /\ held = << >>
          /\ held' = <<tmr[Head(job).reg]>>
          /\ UNCHANGED <<tmr, phase, use, job, kept, wanted, clocks, dmCalls>>

\* The prescaler starts afresh when the counter is written.
DmWrite(old) ==
    /\ tmr' = [tmr EXCEPT ![Head(job).reg] = Result(Head(job), old)]
    /\ phase' = IF Head(job).reg = "TCRR" THEN 0 ELSE phase
    /\ held' = << >>
    /\ job' = Tail(job)
    /\ clocks' = IF "ST" \in tmr'.TCLR /\ Stopped THEN 0 ELSE clocks
    /\ UNCHANGED <<use, kept, wanted, dmCalls>>

DmStore == held # << >> /\ DmWrite(held[1])

DmStrobe == job # << >> /\ Head(job).atomic /\ DmWrite(tmr[Head(job).reg])

Overflows == tmr.TCRR = CLOCK_OVF

Counted(n) == IF n # CLOCK_OVF THEN n + 1
              ELSE IF "AR" \in tmr.TCLR THEN tmr.TLDR ELSE 0

OneMoreCycle == IF use = "any" THEN 0 ELSE (clocks + 1) % (8 * TimerModulus)

\* A cycle that the prescaler lets through
CounterStep ==
    /\ ~ Stopped
    /\ phase + 1 >= Divisor(tmr.TCLR)
    /\ phase' = 0
    /\ LET n == Counted(tmr.TCRR)
           once == Overflows /\ "AR" \notin tmr.TCLR
       IN /\ tmr' = [tmr EXCEPT
                        !.TCRR = n,
                        !.TCLR = IF once THEN @ \ {"ST"} ELSE @,
                        !.RAW = @ \cup (IF Overflows THEN {"OVF"} ELSE {})
                                  \cup (IF "CE" \in tmr.TCLR /\ n = tmr.TMAR THEN {"MAT"} ELSE {})]
          /\ wanted' = [wanted EXCEPT !.count = Counted(@),
                                    !.running = @ /\ ~ once]
    /\ clocks' = IF use = "clock" /\ Overflows THEN 0 ELSE OneMoreCycle
    /\ UNCHANGED <<use, job, held, kept, dmCalls>>

PrescalerStep ==
    /\ ~ Stopped
    /\ phase + 1 < Divisor(tmr.TCLR)
    /\ phase' = phase + 1
    /\ clocks' = OneMoreCycle
    /\ UNCHANGED <<tmr, use, job, held, kept, wanted, dmCalls>>

\* As a reset or an earlier user left it, no interrupt pending; stopped, when
\* it is the clock server's or timer.c's turn
DmInit ==
    /\ tmr \in { [AfterReset EXCEPT !.TCLR = tclr, !.TCRR = 1, !.TLDR = 1] :
                   tclr \in {{}, {"AR", "CE"}, {"PTV0", "PTV2", "PRE"}, {"ST", "AR"}} }
    /\ \/ use = "any" /\ job = << >>
       \/ use = "clock" /\ job = StartClock /\ Stopped
       \/ use = "debug" /\ job = dbg_tmr_reset /\ Stopped
    /\ phase = 0
    /\ held = << >>
    /\ kept = tmr
    /\ wanted = Meaning(tmr)
    /\ clocks = 0
    /\ dmCalls = 0

DmNext ==
    \/ ConfigureCall \/ AnyTimeCall \/ DMTimerContextSave \/ RestoreCall \/ DMTimerReset
    \/ Callback \/ clksrv_cleanup
    \/ DmLoad \/ DmStore \/ DmStrobe
    \/ CounterStep \/ PrescalerStep

DmSpec == DmInit /\ [][DmNext]_dmVars

-----------------------------------------------------------------------------
(* Properties *)

\* Between calls the timer is set as they asked, although each function of
\* dmtimer.c changes a field of a register others use too, in steps between
\* which the timer counts; and after DMTimerContextRestore it goes on from
\* where DMTimerContextSave found it.
TimerAsAsked == use = "any" /\ job = << >> => Meaning(tmr) = wanted

\* However the timer was set before, the clock server's overflows are one
\* millisecond apart, the first one from the start (clock_init), also while
\* the callback runs; and the debug timer counts eighths of its clock modulo
\* the counter's range (dbg_tmr_reset).
StepKeepsTime ==
    /\ use = "clock" /\ CounterStep /\ Overflows => clocks = ClocksPerMs - 1
    /\ use = "clock" /\ CounterStep /\ clocks = ClocksPerMs - 1 => Overflows
    /\ use = "debug" /\ ~ Stopped =>
          dbg_tmr_get = ((clocks \div 8) % TimerModulus) \div 3

TimersKeepTime == [][StepKeepsTime]_dmVars
=============================================================================
