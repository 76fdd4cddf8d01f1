------------------------------ MODULE ClockTree ------------------------------
(***************************************************************************)
(* How the board's clocks come up: pll_setup, which main calls before it    *)
(* touches a device, and the clock server's configuration of its timer.     *)
(* Each is a script of writes and of loops that wait for the power and      *)
(* clock module; that module takes its time.  A register is the set of its  *)
(* flags and field values that hold.                                        *)
(***************************************************************************)
EXTENDS Integers, Sequences

VARIABLES prcm,   \* the registers
          step,   \* where the processor is in the script
          script

clkTreeVars == <<prcm, step, script>>

-----------------------------------------------------------------------------
(* Scripts *)

PutReg(r, flags) == <<[op |-> "put", reg |-> r, flags |-> flags]>>
OrReg(r, flags)  == <<[op |-> "or", reg |-> r, flags |-> flags]>>
Without(r, flags) == <<[op |-> "without", reg |-> r, flags |-> flags]>>

\* A loop that ends when one of the flags is there
AwaitAny(r, flags) == <<[op |-> "await", reg |-> r, flags |-> flags]>>

PutAndWait(r, flag) == PutReg(r, {flag}) \o AwaitAny(r, {flag})
OrAndWait(r, flag)  == OrReg(r, {flag}) \o AwaitAny(r, {flag})

SharedClocksRun(timerClock) ==
    AwaitAny("L3S", {"L3S_GCLK"}) \o AwaitAny("L3", {"L3_GCLK"})
    \o AwaitAny("OCPWP_L3", {"OCPWP_L3_GCLK", "OCPWP_L4_GCLK"})
    \o AwaitAny("L4LS", {"L4LS_GCLK", timerClock})

pll_setup_interconnect ==
    PutAndWait("L3S", "SW_WKUP") \o PutAndWait("L3", "SW_WKUP")
    \o PutAndWait("L3_INSTR", "ENABLE") \o PutAndWait("L3_MODULE", "ENABLE")
    \o PutAndWait("OCPWP_L3", "SW_WKUP") \o PutAndWait("L4LS", "SW_WKUP")
    \o PutAndWait("L4LS_MODULE", "ENABLE")
    \o SharedClocksRun("TIMER2_GCLK")
    \o AwaitAny("L3_MODULE", {"FUNC"}) \o AwaitAny("L3_INSTR", {"FUNC"})
    \o AwaitAny("L3", {"L3_GCLK"}) \o AwaitAny("OCPWP_L3", {"OCPWP_L3_GCLK"})
    \o AwaitAny("L3S", {"L3S_GCLK"})

pll_setup_wkup ==
    OrAndWait("CONTROL", "ENABLE") \o OrAndWait("WKUP", "SW_WKUP")
    \o OrAndWait("L3_AON", "SW_WKUP") \o OrAndWait("UART0", "ENABLE")
    \o AwaitAny("CONTROL", {"FUNC"}) \o AwaitAny("L3_AON", {"L3_AON_GCLK"})
    \o AwaitAny("L4WKUP", {"FUNC"}) \o AwaitAny("WKUP", {"L4_WKUP_GCLK"})
    \o AwaitAny("L4_WKUP_AON", {"L4_WKUP_AON_GCLK"})
    \o AwaitAny("WKUP", {"UART0_GFCLK"}) \o AwaitAny("UART0", {"FUNC"})

\* Clock source, module, then the clocks of the buses it is on
TimerClkConfig(source, module, clock) ==
    Without(source, {"OSC", "OTHER"}) \o OrAndWait(source, "OSC")
    \o OrAndWait(module, "ENABLE") \o AwaitAny(module, {"FUNC"})
    \o SharedClocksRun(clock)

pll_setup_timers == TimerClkConfig("CLKSEL_TIMER2", "TIMER2", "TIMER2_GCLK")

\* Mutant: the module's debounce clock is awaited but not requested.
GpioClockNotRequested ==
    OrAndWait("GPIO1", "ENABLE") \o AwaitAny("GPIO1", {"OPTFCLKEN"})
    \o AwaitAny("GPIO1", {"FUNC"}) \o AwaitAny("L4LS", {"GPIO_1_GDBCLK"})

pll_setup_gpio ==
    OrAndWait("GPIO1", "ENABLE") \o OrAndWait("GPIO1", "OPTFCLKEN")
    \o AwaitAny("GPIO1", {"FUNC"}) \o AwaitAny("L4LS", {"GPIO_1_GDBCLK"})

\* pll_setup_uart is empty.
pll_setup == pll_setup_interconnect \o pll_setup_wkup \o pll_setup_timers \o pll_setup_gpio

DMTimer3ModuleClkConfig == TimerClkConfig("CLKSEL_TIMER3", "TIMER3", "TIMER3_GCLK")

-----------------------------------------------------------------------------
(* External: the power and clock module *)

\* The registers of clock domains, and what runs once they are woken
DomainClocks == [L3S |-> {"L3S_GCLK"}, L3 |-> {"L3_GCLK"},
                 OCPWP_L3 |-> {"OCPWP_L3_GCLK", "OCPWP_L4_GCLK"}, L4LS |-> {"L4LS_GCLK"},
                 WKUP |-> {"L4_WKUP_GCLK"}, L3_AON |-> {"L3_AON_GCLK"}]

\* The domain of each module, and the clock in it that is the module's own
ModuleDomain == [L3_INSTR |-> "L3", L3_MODULE |-> "L3", L4LS_MODULE |-> "L4LS",
                 CONTROL |-> "WKUP", UART0 |-> "WKUP",
                 TIMER2 |-> "L4LS", TIMER3 |-> "L4LS", GPIO1 |-> "L4LS"]

\* A module's own clock, and the register and flag that let it run
OwnClock == [UART0 |-> <<"UART0_GFCLK", "UART0", "ENABLE">>,
             TIMER2 |-> <<"TIMER2_GCLK", "CLKSEL_TIMER2", "OSC">>,
             TIMER3 |-> <<"TIMER3_GCLK", "CLKSEL_TIMER3", "OSC">>,
             GPIO1 |-> <<"GPIO_1_GDBCLK", "GPIO1", "OPTFCLKEN">>]

PrcmRegs == DOMAIN DomainClocks \cup DOMAIN ModuleDomain
        \cup {"CLKSEL_TIMER2", "CLKSEL_TIMER3", "L4WKUP", "L4_WKUP_AON"}

\* A domain that is woken, a clock that is selected, and a module that is
\* enabled in a domain that runs: what each of them still lacks, it can get.
MayWake(d) == /\ "SW_WKUP" \in prcm[d]
              /\ ~ DomainClocks[d] \subseteq prcm[d]

MayStart(m) == /\ "ENABLE" \in prcm[m]
               /\ OwnClock[m][3] \in prcm[OwnClock[m][2]]
               /\ OwnClock[m][1] \notin prcm[ModuleDomain[m]]

\* A timer answers on its bus only with its clock running.
MayAnswer(m) == /\ "ENABLE" \in prcm[m]
                /\ DomainClocks[ModuleDomain[m]] \subseteq prcm[ModuleDomain[m]]
                /\ m \in {"TIMER2", "TIMER3"} => OwnClock[m][1] \in prcm[ModuleDomain[m]]
                /\ "FUNC" \notin prcm[m]

Add(r, flags) == prcm' = [prcm EXCEPT ![r] = @ \cup flags]

DomainWakes == \E d \in DOMAIN DomainClocks : MayWake(d) /\ Add(d, DomainClocks[d])

OwnClockStarts == \E m \in DOMAIN OwnClock :
    MayStart(m) /\ Add(ModuleDomain[m], {OwnClock[m][1]})

ModuleReady == \E m \in DOMAIN ModuleDomain : MayAnswer(m) /\ Add(m, {"FUNC"})

Prcm == (DomainWakes \/ OwnClockStarts \/ ModuleReady) /\ UNCHANGED <<step, script>>

-----------------------------------------------------------------------------
(* The processor *)

Finished == step > Len(script)

\* A write keeps what only the clock module can change.
Status(r) == prcm[r] \ {"SW_WKUP", "ENABLE", "OPTFCLKEN", "OSC", "OTHER"}

Executes(s) ==
    \/ s.op = "put" /\ prcm' = [prcm EXCEPT ![s.reg] = s.flags \cup Status(s.reg)]
    \/ s.op = "or" /\ prcm' = [prcm EXCEPT ![s.reg] = @ \cup s.flags]
    \/ s.op = "without" /\ prcm' = [prcm EXCEPT ![s.reg] = @ \ s.flags]
    \/ s.op = "await" /\ s.flags \cap prcm[s.reg] # {} /\ prcm' = prcm

Waits == /\ ~ Finished
         /\ script[step].op = "await"
         /\ script[step].flags \cap prcm[script[step].reg] = {}

Processor ==
    /\ ~ Finished
    /\ Executes(script[step])
    /\ step' = step + 1
    /\ UNCHANGED script

\* The kernel and the name server run between the two scripts.
clock_init_starts ==
    /\ Finished /\ script = pll_setup
    /\ script' = DMTimer3ModuleClkConfig
    /\ step' = 1
    /\ UNCHANGED prcm

\* A cold start, or what the boot loader left: its own console is up.
ClockTreeInit ==
    /\ \E warm \in SUBSET {"L3", "L4LS", "WKUP"}, uart \in BOOLEAN :
          prcm = [r \in PrcmRegs |->
                    IF r \in warm THEN {"SW_WKUP"} \cup DomainClocks[r]
                    ELSE IF r = "UART0" /\ uart /\ "WKUP" \in warm THEN {"ENABLE", "FUNC"}
                    ELSE IF r = "L4WKUP" THEN {"FUNC"}
                    ELSE IF r = "L4_WKUP_AON" THEN {"L4_WKUP_AON_GCLK"}
                    ELSE IF r \in {"CLKSEL_TIMER2", "CLKSEL_TIMER3"} THEN {"OTHER"} ELSE {}]
    /\ script = pll_setup
    /\ step = 1

ClockTreeNext == Prcm \/ Processor \/ clock_init_starts

ClockTreeSpec == ClockTreeInit /\ [][ClockTreeNext]_clkTreeVars

-----------------------------------------------------------------------------
(* Properties *)

Functional(modules) == \A m \in modules : "FUNC" \in prcm[m]

PrcmMayAct == \/ \E d \in DOMAIN DomainClocks : MayWake(d)
              \/ \E m \in DOMAIN OwnClock : MayStart(m)
              \/ \E m \in DOMAIN ModuleDomain : MayAnswer(m)

\* No loop of pll_setup or of DMTimer3ModuleClkConfig waits for something
\* that will not happen, since the clock module only goes forward; and each
\* ends with the devices that are used next ready, with their clocks running.
ClocksComeUp ==
    /\ Waits => PrcmMayAct
    /\ Finished /\ script = pll_setup =>
          /\ Functional({"UART0", "TIMER2", "GPIO1", "L3_MODULE", "L3_INSTR", "CONTROL"})
          /\ {"L4LS_GCLK", "TIMER2_GCLK", "GPIO_1_GDBCLK"} \subseteq prcm["L4LS"]
          /\ {"L4_WKUP_GCLK", "UART0_GFCLK"} \subseteq prcm["WKUP"]
    /\ Finished /\ script = DMTimer3ModuleClkConfig =>
          Functional({"TIMER3"}) /\ {"L4LS_GCLK", "TIMER3_GCLK"} \subseteq prcm["L4LS"]
=============================================================================
