---------------------------------- MODULE Pins ----------------------------------
(***************************************************************************)
(* Who configures which pin: GPIO_Init (gpio.c), USART_Init, CAN_Init and   *)
(* the NVIC demo all write the same port registers, each with masks and     *)
(* shifts of its own (gpio.h).  Here they run in any order and any number   *)
(* of times.  A register, and a number written to it, is the set of its     *)
(* bits that are 1.  A port ignores a write while its clock is off.         *)
(***************************************************************************)
EXTENDS Integers, Sequences

CONSTANTS
  PinCalls,   \* the calls of GPIO_Init
  UsartSides  \* the calls of USART_Init: instance, and 1 for TX or 2 for RX

Ports == {"A", "B", "C", "D"}
Pin   == 0..15

(* Modes of a pin: MODER in the low two bits, OTYPER in bit 4.              *)
INPUT     == {}
ANALOG    == {0, 1}
OUTPUT_PP == {0}
OUTPUT_OD == {0, 4}
AF_PP     == {1}
AF_OD     == {1, 4}

Driven    == {OUTPUT_PP, OUTPUT_OD, AF_PP, AF_OD}
Alternate == {AF_PP, AF_OD}

(* The arguments gpio.h has names for.  GPIO_Init masks all but the speed.  *)
Setups == [port : Ports, pins : SUBSET Pin, mode : Driven \cup {INPUT, ANALOG},
           pull : SUBSET (0..1), speed : SUBSET (0..1), af : SUBSET (0..3)]

PinBounds == PinCalls \subseteq Setups /\ UsartSides \subseteq (1..5) \X (1..2)

VARIABLES
  clock,  \* RCC AHB2ENR: the ports whose clock is on
  reg,    \* the registers of each port
  asked   \* what the last setup that touched a pin asked for it

vars == <<clock, reg, asked>>

(* Fields of w bits: the register with v written to those that begin at the *)
(* bits of at, and what is in the one that begins at bit i.                 *)
SetField(r, v, at, w) == {b \in r : \A i \in at : b \notin i..(i + w - 1)}
                           \cup {i + b : i \in at, b \in v}
Field(r, i, w)        == {b \in 0..(w - 1) : i + b \in r}

(* The MODER, AFRL, AFRH, OTYPER and PUPDR masks and sets of gpio.h.        *)
Moder(r, pins, v)   == [r EXCEPT !.moder = SetField(@, v, {2 * p : p \in pins}, 2)]
Otyper(r, pins, v)  == [r EXCEPT !.otyper = SetField(@, v, pins, 1)]
Ospeedr(r, pins, v) == [r EXCEPT !.ospeedr = SetField(@, v, {2 * p : p \in pins}, 2)]
Pupdr(r, pins, v)   == [r EXCEPT !.pupdr = SetField(@, v, {2 * p : p \in pins}, 2)]
AfrShifted(r, pins, v) ==   \* mutant: the pin is not taken modulo 8
  [r EXCEPT !.afrl = SetField(@, v, {4 * p : p \in pins \cap 0..7}, 4),
            !.afrh = SetField(@, v, {4 * p : p \in pins \cap 8..15}, 4)]

Afr(r, pins, v)     ==
  [r EXCEPT !.afrl = SetField(@, v, {4 * p : p \in pins \cap 0..7}, 4),
            !.afrh = SetField(@, v, {4 * (p - 8) : p \in pins \cap 8..15}, 4)]

AtReset(port) ==
  [moder |-> CASE port = "A" -> (0..31) \ {26, 28, 30}
               [] port = "B" -> (0..31) \ {6, 8, 22, 23}
               [] OTHER -> 0..31,
   ospeedr |-> CASE port = "A" -> {26, 27} [] port = "B" -> {6, 7} [] OTHER -> {},
   pupdr |-> CASE port = "A" -> {26, 29, 30} [] port = "B" -> {8} [] OTHER -> {},
   otyper |-> {}, afrl |-> {}, afrh |-> {}]

Decode(r, p) ==
  [moder |-> Field(r.moder, 2 * p, 2), otyper |-> Field(r.otyper, p, 1),
   speed |-> Field(r.ospeedr, 2 * p, 2), pull |-> Field(r.pupdr, 2 * p, 2),
   af |-> IF p < 8 THEN Field(r.afrl, 4 * p, 4) ELSE Field(r.afrh, 4 * (p - 8), 4)]

----------------------------------------------------------------------------
(* GPIO_Init: AFR in the AF modes only, OSPEEDR and OTYPER in the output    *)
(* and AF modes only.  Its loop writes the same values for pin after pin.   *)

Type(mode) == {b - 4 : b \in mode \cap {4}}

Written(r, g) ==
  LET af    == IF g.mode \in Alternate THEN Afr(r, g.pins, g.af) ELSE r
      moded == Moder(af, g.pins, g.mode \cap 0..1)
      out   == IF g.mode \in Driven
               THEN Otyper(Ospeedr(moded, g.pins, g.speed), g.pins, Type(g.mode))
               ELSE moded
  IN  Pupdr(out, g.pins, g.pull)

(* A setup turns the clock of a port on, writes its registers and, to those *)
(* who use its pins, promises want: a function from the pins it names.      *)
Setup(port, written, want) ==
  /\ clock' = clock \cup {port}
  /\ reg' = IF port \in clock' THEN [reg EXCEPT ![port] = written] ELSE reg
  /\ asked' = [asked EXCEPT ![port] =
                 [p \in Pin |-> IF p \in DOMAIN want THEN want[p] ELSE @[p]]]

GPIO_Init(g) ==
  LET was  == asked[g.port]
      want == [p \in g.pins |->
        [moder |-> g.mode \cap 0..1, pull |-> g.pull,
         otyper |-> IF g.mode \in Driven THEN Type(g.mode) ELSE was[p].otyper,
         speed  |-> IF g.mode \in Driven THEN g.speed ELSE was[p].speed,
         af     |-> IF g.mode \in Alternate THEN g.af ELSE was[p].af]]
  IN  Setup(g.port, Written(reg[g.port], g), want)

(* The pins of USART_Init: the port of TX and of RX, TX, RX and their AF.   *)
UsartPins ==
  <<[ports |-> <<"A", "A">>, pins |-> <<9, 10>>,  af |-> {0, 1, 2}],
    [ports |-> <<"A", "A">>, pins |-> <<2, 3>>,   af |-> {0, 1, 2}],
    [ports |-> <<"B", "B">>, pins |-> <<10, 11>>, af |-> {0, 1, 2}],
    [ports |-> <<"A", "A">>, pins |-> <<0, 1>>,   af |-> {3}],
    [ports |-> <<"C", "D">>, pins |-> <<12, 2>>,  af |-> {3}]>>

USART_Init(n, side) ==
  LET u == UsartPins[n]
      port == u.ports[side]
      p    == u.pins[side]
      want == [q \in {p} |-> [asked[port][q] EXCEPT !.moder = {1}, !.af = u.af]]
  IN  Setup(port, Afr(Moder(reg[port], {p}, {1}), {p}, u.af), want)

(* Both CAN pins are alternate function 9; only PA11 is pulled up.          *)
CAN_Init ==
  LET want == [p \in {11, 12} |-> [asked["A"][p] EXCEPT
                 !.moder = {1}, !.af = {0, 3}, !.pull = IF p = 11 THEN {0} ELSE @]]
      selected == Afr(Moder(reg["A"], {11, 12}, {1}), {11, 12}, {0, 3})
  IN  Setup("A", Pupdr(selected, {11}, {0}), want)

NvicLed ==
  LET want == [p \in {5} |-> [asked["A"][p] EXCEPT !.moder = {0}, !.otyper = {}]]
  IN  Setup("A", Otyper(Moder(reg["A"], {5}, {0}), {5}, {}), want)

NvicButton ==
  LET want == [p \in {13} |-> [asked["C"][p] EXCEPT !.moder = {}, !.pull = {0}]]
  IN  Setup("C", Pupdr(Moder(reg["C"], {13}, {}), {13}, {0}), want)

----------------------------------------------------------------------------
Init ==
  /\ clock = {}
  /\ reg = [port \in Ports |-> AtReset(port)]
  /\ asked = [port \in Ports |-> [p \in Pin |-> Decode(AtReset(port), p)]]

Next ==
  \/ \E g \in PinCalls : GPIO_Init(g)
  \/ \E u \in UsartSides : USART_Init(u[1], u[2])
  \/ CAN_Init \/ NvicLed \/ NvicButton

Spec == Init /\ [][Next]_vars
----------------------------------------------------------------------------
(* Whatever the order of the setups, every pin is configured as the last    *)
(* one that named it asked, in every field it gave; the pins and the fields *)
(* nobody named are as they were at reset (PA13 to PA15 and PB3 and PB4     *)
(* stay with the debugger).                                                 *)
PinsAsAsked == \A port \in Ports, p \in Pin : Decode(reg[port], p) = asked[port][p]
================================================================================
