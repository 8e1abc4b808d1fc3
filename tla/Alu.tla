-------------------------------- MODULE Alu --------------------------------
(***************************************************************************)
(* The integer adder of NEMU (nemu/src/cpu/alu.c), the flags it leaves     *)
(* behind and the conditions that the branch, set and move instructions    *)
(* read from them (nemu/include/cpu/instr_helper.h).                       *)
(*                                                                         *)
(* h is 2 ^ (data_size - 1), the weight of the top bit: an operand of that *)
(* size is in 0 .. 2 * h - 1.  eflags is the record of the four flags that *)
(* the conditions combine; PF, a function of the result's low byte alone,  *)
(* is left out.  An operation returns its result and the new eflags.       *)
(***************************************************************************)
EXTENDS Integers

Operands(h) == 0 .. 2 * h - 1
Eflags == [ZF : BOOLEAN, SF : BOOLEAN, CF : BOOLEAN, OF : BOOLEAN]

\* x & (0xffffffff >> (32 - data_size)), of a difference that wrapped as well.
Masked(x, h) == x % (2 * h)

\* x >> (data_size - 1)
Top(x, h) == x >= h

Bit(flag) == IF flag THEN 1 ELSE 0

\* sign_ext, from a byte or a word (weight g) to 32 bits (weight w).
sign_ext(x, g, w) == IF Top(x, g) THEN x + 2 * w - 2 * g ELSE x

SetFlags(s, h, cf, of) == [ZF |-> s = 0, SF |-> Top(s, h), CF |-> cf, OF |-> of]

----------------------------------------------------------------------------
\* Both additions overflow when two operands of one sign give the other.
AddOverflows(d, e, s, h) ==
  \/ ~Top(d, h) /\ ~Top(e, h) /\ Top(s, h)
  \/ Top(d, h) /\ Top(e, h) /\ ~Top(s, h)

SubOverflows(d, e, s, h) ==
  \/ Top(d, h) /\ ~Top(e, h) /\ ~Top(s, h)
  \/ ~Top(d, h) /\ Top(e, h) /\ Top(s, h)

alu_add(src, dest, h) ==
  LET d == Masked(dest, h)
      e == Masked(src, h)
      s == Masked(e + d, h)
  IN [val |-> s, eflags |-> SetFlags(s, h, s < d, AddOverflows(d, e, s, h))]

alu_adc(eflags, src, dest, h) ==
  LET d == Masked(dest, h)
      e == Masked(src, h)
      s == Masked(e + d + Bit(eflags.CF), h)
  IN [val |-> s, eflags |-> SetFlags(s, h, s < d \/ (eflags.CF /\ s = d),
                                     AddOverflows(d, e, s, h))]

alu_sub(src, dest, h) ==
  LET d == Masked(dest, h)
      e == Masked(src, h)
      s == Masked(d - e, h)
  IN [val |-> s, eflags |-> SetFlags(s, h, d < e, SubOverflows(d, e, s, h))]

alu_sbb(eflags, src, dest, h) ==
  LET d == Masked(dest, h)
      e == Masked(src, h)
      s == Masked(d - e - Bit(eflags.CF), h)
  IN [val |-> s, eflags |-> SetFlags(s, h, d < e \/ (eflags.CF /\ d = e),
                                     SubOverflows(d, e, s, h))]

----------------------------------------------------------------------------
\* cmp; an immediate byte is extended to the size of the other operand.
cmp(src, dest, h) == alu_sub(src, dest, h).eflags
cmp_imm8(src, dest, g, h, w) == cmp(sign_ext(src, g, w), dest, h)

\* The macros condition_* of jcc, setcc and cmov.
condition_e(eflags)  == eflags.ZF
condition_b(eflags)  == eflags.CF
condition_a(eflags)  == ~eflags.CF /\ ~eflags.ZF
condition_be(eflags) == eflags.CF \/ eflags.ZF
condition_ae(eflags) == ~eflags.CF
condition_g(eflags)  == ~eflags.ZF /\ (eflags.SF <=> eflags.OF)
condition_ge(eflags) == eflags.SF <=> eflags.OF
condition_l(eflags)  == ~(eflags.SF <=> eflags.OF)
condition_le(eflags) == eflags.ZF \/ ~(eflags.SF <=> eflags.OF)
=============================================================================
