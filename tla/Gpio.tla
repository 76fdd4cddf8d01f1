-------------------------------- MODULE Gpio --------------------------------
(***************************************************************************)
(* The GPIO driver, gpio.c: one instance, whose pins belong to several      *)
(* tasks.  A task may be preempted between any two accesses to the device,  *)
(* so a call is the sequence of its accesses, and "reg |= bits" is two      *)
(* steps, a load and a store.  Registers are sets: of pins, or of bits.     *)
(***************************************************************************)
EXTENDS RegisterAccess

CONSTANTS GpioTasks, Pins,
          Owner,         \* the task that each pin belongs to
          MaxGpioCalls   \* how many calls are made in all

\* What is assumed of the constants.
GpioAssumption == Owner \in [Pins -> GpioTasks] /\ MaxGpioCalls \in Nat

Lines == {1, 2}          \* GPIO_INT_LINE_1 and GPIO_INT_LINE_2

INTEN  == <<"IRQSTATUS_SET_0", "IRQSTATUS_SET_1">>
STATUS  == <<"IRQSTATUS_RAW_0", "IRQSTATUS_RAW_1">>
WAKEN   == <<"IRQWAKEN_0", "IRQWAKEN_1">>

PinRegs == {"OE", "DATAOUT", "LEVEL0", "LEVEL1", "RISING", "FALLING", "DEBOUNCE"}
           \cup {R[l] : R \in {INTEN, STATUS, WAKEN}, l \in Lines}
BitRegs == {"CTRL", "SYSCONFIG"}

VARIABLES gpio,      \* the registers
          todo,      \* the accesses that each task still has to make
          loaded,    \* the register it has loaded and is about to store, if any
          context,   \* what gpioContextSave kept
          want,      \* what the calls so far should have come to
          gpioCalls

gpioVars == <<gpio, todo, loaded, context, want, gpioCalls>>

-----------------------------------------------------------------------------
(* The functions, as the accesses they make *)

GPIOModuleEnable  == <<AndNot("CTRL", {0})>>
GPIOModuleDisable == <<Or("CTRL", {0})>>

GPIODirModeSet(p, dir) == <<OrIf(dir = "input", "OE", {p})>>

\* Mutant: the pin is written through the register of all outputs.
WriteThroughDataOut(p, high) == <<OrIf(high, "DATAOUT", {p})>>

GPIOPinWrite(p, high) == <<SetIf(high, "DATAOUT", {p})>>

GPIOMultiplePinsWrite(set, clr) == <<Set("DATAOUT", set), Clear("DATAOUT", clr)>>

GPIOPinIntEnable(line, p)  == <<Set(INTEN[line], {p})>>
GPIOPinIntDisable(line, p) == <<Clear(INTEN[line], {p})>>

GPIOIntTypeSet(p, type) ==
    CASE type = "NO_LEVEL"   -> <<AndNot("LEVEL0", {p}), AndNot("LEVEL1", {p})>>
      [] type = "LEVEL_LOW"  -> <<Or("LEVEL0", {p})>>
      [] type = "LEVEL_HIGH" -> <<Or("LEVEL1", {p})>>
      [] type = "BOTH_LEVEL" -> <<Or("LEVEL0", {p}), Or("LEVEL1", {p})>>
      [] type = "NO_EDGE"    -> <<AndNot("RISING", {p}), AndNot("FALLING", {p})>>
      [] type = "RISE_EDGE"  -> <<Or("RISING", {p})>>
      [] type = "FALL_EDGE"  -> <<Or("FALLING", {p})>>
      [] type = "BOTH_EDGE"  -> <<Or("RISING", {p}), Or("FALLING", {p})>>

GPIOPinIntClear(line, p)   == <<Clear(STATUS[line], {p})>>
GPIOTriggerPinInt(line, p) == <<Set(STATUS[line], {p})>>

GPIOWakeupGlobalEnable  == <<Or("SYSCONFIG", {2})>>
GPIOWakeupGlobalDisable == <<AndNot("SYSCONFIG", {2})>>

GPIOPinIntWakeUpEnable(line, p)  == <<Or(WAKEN[line], {p})>>
GPIOPinIntWakeUpDisable(line, p) == <<AndNot(WAKEN[line], {p})>>

GPIOAutoIdleModeControl(mode)  == Programmed("SYSCONFIG", {0}, mode)
GPIOIdleModeConfigure(mode)    == Programmed("SYSCONFIG", {3, 4}, mode)
GPIOGatingRatioConfigure(flag) == Programmed("CTRL", {1, 2}, flag)

GPIODebounceFuncControl(p, on) ==
    <<AndNot("DEBOUNCE", {p}), Or("DEBOUNCE", IF on THEN {p} ELSE {})>>

gpioContextRestore == <<Put("CTRL", context.ctrl), Put("OE", context.dir)>>

\* What the tests of one bit in the driver return
GPIODirModeGet(p) == IF p \in gpio["OE"] THEN "input" ELSE "output"

GPIOIntTypeGet(p) ==
    [low    |-> p \in gpio["LEVEL0"], high    |-> p \in gpio["LEVEL1"],
     rising |-> p \in gpio["RISING"], falling |-> p \in gpio["FALLING"]]

\* The device shows a status in the one register whether or not the interrupt
\* is enabled, in the other only if it is.
GPIORawIntStatus(line, mask) == gpio[STATUS[line]] \cap mask
GPIOPinIntStatus(line, p) ==
    p \in gpio[STATUS[line]] \cap gpio[INTEN[line]]

-----------------------------------------------------------------------------
(* What a call means for its pin, whatever the other tasks do *)

Means(w, p, fn, x, y) ==
    CASE fn = "DirMode"   -> [w EXCEPT ![p].dir = x]
      [] fn = "Write"     -> [w EXCEPT ![p].high = x]
      [] fn = "IntEnable" -> [w EXCEPT ![p].enabled[x] = y]
      [] fn = "WakeUp"    -> [w EXCEPT ![p].waken[x] = y]
      [] fn = "Status"    -> [w EXCEPT ![p].status[x] = y]
      [] fn = "Debounce"  -> [w EXCEPT ![p].debounce = x]
      [] fn = "IntType" -> [w EXCEPT ![p].type =
            [low     |-> x \in {"LEVEL_LOW", "BOTH_LEVEL"} \/ (@.low /\ x # "NO_LEVEL"),
             high    |-> x \in {"LEVEL_HIGH", "BOTH_LEVEL"} \/ (@.high /\ x # "NO_LEVEL"),
             rising  |-> x \in {"RISE_EDGE", "BOTH_EDGE"} \/ (@.rising /\ x # "NO_EDGE"),
             falling |-> x \in {"FALL_EDGE", "BOTH_EDGE"} \/ (@.falling /\ x # "NO_EDGE")]]

-----------------------------------------------------------------------------
(* The calls *)

\* All pins alike: inputs, everything else of theirs off or on
Registers(on) ==
    [r \in PinRegs \cup BitRegs |->
        IF r = "OE" \/ (on /\ r \in PinRegs) THEN Pins ELSE {}]

AllWant(on) ==
    [p \in Pins |-> [dir |-> "input", high |-> on, debounce |-> on,
                     enabled |-> [l \in Lines |-> on], waken |-> [l \in Lines |-> on],
                     status |-> [l \in Lines |-> on],
                     type |-> [low |-> on, high |-> on, rising |-> on, falling |-> on]]]

GpioInit ==
    /\ \E on \in BOOLEAN : gpio = Registers(on) /\ want = AllWant(on)
    /\ todo = [t \in GpioTasks |-> << >>]
    /\ loaded = [t \in GpioTasks |-> << >>]
    /\ context = [ctrl |-> gpio["CTRL"], dir |-> gpio["OE"]]
    /\ gpioCalls = 0

Idle(t) == todo[t] = << >>

\* Nothing in the driver protects a load and its store from those of another
\* task: two tasks do not configure the instance at the same time.
Call(t, accesses, w) ==
    /\ gpioCalls < MaxGpioCalls
    /\ Idle(t)
    /\ Configures(accesses) => \A u \in GpioTasks : ~ Configures(todo[u])
    /\ gpioCalls' = gpioCalls + 1
    /\ todo' = [todo EXCEPT ![t] = accesses]
    /\ want' = w
    /\ UNCHANGED <<gpio, loaded, context>>

OutputCall(t, p) ==
    \/ \E dir \in {"input", "output"} :
          Call(t, GPIODirModeSet(p, dir), Means(want, p, "DirMode", dir, 0))
    \/ \E high \in BOOLEAN :
          Call(t, GPIOPinWrite(p, high), Means(want, p, "Write", high, 0))
    \/ Call(t, GPIOMultiplePinsWrite({p}, {}), Means(want, p, "Write", TRUE, 0))
    \/ Call(t, GPIOMultiplePinsWrite({}, {p}), Means(want, p, "Write", FALSE, 0))
    \/ \E on \in BOOLEAN :
          Call(t, GPIODebounceFuncControl(p, on), Means(want, p, "Debounce", on, 0))

InterruptPinCall(t, p) ==
    \/ \E type \in {"NO_LEVEL", "LEVEL_LOW", "LEVEL_HIGH", "BOTH_LEVEL",
                    "NO_EDGE", "RISE_EDGE", "FALL_EDGE", "BOTH_EDGE"} :
          Call(t, GPIOIntTypeSet(p, type), Means(want, p, "IntType", type, 0))
    \/ \E l \in Lines :
          \/ Call(t, GPIOPinIntEnable(l, p), Means(want, p, "IntEnable", l, TRUE))
          \/ Call(t, GPIOPinIntDisable(l, p), Means(want, p, "IntEnable", l, FALSE))
          \/ Call(t, GPIOPinIntClear(l, p), Means(want, p, "Status", l, FALSE))
          \/ Call(t, GPIOTriggerPinInt(l, p), Means(want, p, "Status", l, TRUE))
          \/ Call(t, GPIOPinIntWakeUpEnable(l, p), Means(want, p, "WakeUp", l, TRUE))
          \/ Call(t, GPIOPinIntWakeUpDisable(l, p), Means(want, p, "WakeUp", l, FALSE))

\* Calls about the instance as a whole
InstanceCall(t) ==
    \/ \E accesses \in {GPIOModuleEnable, GPIOModuleDisable,
                        GPIOWakeupGlobalEnable, GPIOWakeupGlobalDisable,
                        GPIOAutoIdleModeControl({0}), GPIOIdleModeConfigure({3}),
                        GPIOGatingRatioConfigure({2})} :
          Call(t, accesses, want)
    \/ Call(t, gpioContextRestore,
            [p \in Pins |-> [want[p] EXCEPT !.dir =
                                IF p \in context.dir THEN "input" ELSE "output"]])

gpioContextSave ==
    /\ gpioCalls < MaxGpioCalls
    /\ \A t \in GpioTasks : Idle(t)
    /\ gpioCalls' = gpioCalls + 1
    /\ context' = [ctrl |-> gpio["CTRL"], dir |-> gpio["OE"]]
    /\ UNCHANGED <<gpio, todo, loaded, want>>

\* It waits until the device has reset all of its registers.
GPIOModuleReset ==
    /\ gpioCalls < MaxGpioCalls
    /\ \A t \in GpioTasks : Idle(t)
    /\ gpioCalls' = gpioCalls + 1
    /\ gpio' = Registers(FALSE)
    /\ want' = AllWant(FALSE)
    /\ UNCHANGED <<todo, loaded, context>>

-----------------------------------------------------------------------------
(* The accesses of a call *)

Load(t) ==
    /\ ~ Idle(t)
    /\ ~ Head(todo[t]).atomic
    /\ loaded[t] = << >>
    /\ loaded' = [loaded EXCEPT ![t] = <<gpio[Head(todo[t]).reg]>>]
    /\ UNCHANGED <<gpio, todo, context, want, gpioCalls>>

Writes(t, a, old) ==
    /\ gpio' = [gpio EXCEPT ![a.reg] = Result(a, old)]
    /\ loaded' = [loaded EXCEPT ![t] = << >>]
    /\ todo' = [todo EXCEPT ![t] = Tail(@)]
    /\ UNCHANGED <<context, want, gpioCalls>>

Store(t) == loaded[t] # << >> /\ Writes(t, Head(todo[t]), loaded[t][1])

Strobe(t) ==
    /\ ~ Idle(t)
    /\ Head(todo[t]).atomic
    /\ Writes(t, Head(todo[t]), gpio[Head(todo[t]).reg])

GpioNext ==
    \/ \E p \in Pins : OutputCall(Owner[p], p) \/ InterruptPinCall(Owner[p], p)
    \/ \E t \in GpioTasks : InstanceCall(t) \/ Load(t) \/ Store(t) \/ Strobe(t)
    \/ gpioContextSave \/ GPIOModuleReset

GpioSpec == GpioInit /\ [][GpioNext]_gpioVars

-----------------------------------------------------------------------------
(* Properties *)

\* No call that reaches the pin is under way.
Settled(p) ==
    /\ Idle(Owner[p])
    /\ \A t \in GpioTasks, i \in 1 .. 2 :
          i <= Len(todo[t]) => todo[t][i].op # "put"

\* A pin is as the calls for it left it, however the accesses of the tasks
\* that use other pins of the instance fall between its own: gpio.c writes
\* through the set and clear registers wherever the device has them, and
\* changes one bit wherever it has not.
PinsAsAsked ==
    \A p \in Pins : Settled(p) =>
        /\ GPIODirModeGet(p) = want[p].dir
        /\ GPIOIntTypeGet(p) = want[p].type
        /\ p \in gpio["DATAOUT"] <=> want[p].high
        /\ p \in gpio["DEBOUNCE"] <=> want[p].debounce
        /\ \A l \in Lines :
              /\ p \in gpio[INTEN[l]] <=> want[p].enabled[l]
              /\ p \in gpio[WAKEN[l]] <=> want[p].waken[l]
              /\ GPIORawIntStatus(l, {p}) = {p} <=> want[p].status[l]
              /\ GPIOPinIntStatus(l, p) <=> (want[p].enabled[l] /\ want[p].status[l])
=============================================================================
