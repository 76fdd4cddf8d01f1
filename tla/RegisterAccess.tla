---------------------------- MODULE RegisterAccess ----------------------------
(***************************************************************************)
(* What a driver does to a device through HWREG: writes to registers, and   *)
(* "|=" and "&=", which load a register and store it back.  A register of   *)
(* flags is the set of those that are 1; a call is a sequence of accesses.  *)
(***************************************************************************)
EXTENDS Sequences, Integers

Or(r, bits)     == [reg |-> r, op |-> "set", bits |-> bits, atomic |-> FALSE]
AndNot(r, bits) == [reg |-> r, op |-> "clear", bits |-> bits, atomic |-> FALSE]
Put(r, value)   == [reg |-> r, op |-> "put", bits |-> value, atomic |-> TRUE]

\* A write to a register such as GPIO_SETDATAOUT, which changes in another
\* register the bits that are 1, and no others
Set(r, bits)   == [reg |-> r, op |-> "set", bits |-> bits, atomic |-> TRUE]
Clear(r, bits) == [reg |-> r, op |-> "clear", bits |-> bits, atomic |-> TRUE]

SetIf(on, r, bits) == IF on THEN Set(r, bits) ELSE Clear(r, bits)
OrIf(on, r, bits)  == IF on THEN Or(r, bits) ELSE AndNot(r, bits)

\* The field is cleared, then the bits of value in it are set.
Programmed(r, field, value) == <<AndNot(r, field), Or(r, value \cap field)>>

\* What an access makes of a register that was old when it was loaded
Result(a, old) == CASE a.op = "set" -> old \cup a.bits
                    [] a.op = "clear" -> old \ a.bits
                    [] a.op = "put" -> a.bits

\* An access that another one to the same register, between its load and its
\* store, can be undone by
Exposed(a) == ~ a.atomic \/ a.op = "put"

Configures(accesses) == \E i \in 1 .. Len(accesses) : Exposed(accesses[i])
=============================================================================
