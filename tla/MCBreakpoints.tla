-------------------------- MODULE MCBreakpoints --------------------------
\* A small guest under the debugger: see the breakpoints*.cfg.
EXTENDS Breakpoints

\* 0 flips x; 1 jumps if x = 0; 2 is BREAK_POINT; 3 hlt; 4 a loop that ends by
\* what a device answers; 5 nemu_trap, 6 is behind it; 7 an interrupt handler, iret,
\* and 8 is behind that.
SmallAddr    == 0 .. 8
SmallOpcode  == {"flip", "jz", "loop", "jmp", "iret", "int3", "hlt", "trap"}
SmallProgram == [a \in SmallAddr |->
                   <<"flip", "jz", "int3", "hlt", "loop", "trap", "jmp", "iret", "jmp">>[a + 1]]
NoReturn     == 9
SmallData    == [x : {0, 1}, ret : SmallAddr \cup {NoReturn}]
SmallInit    == {[x |-> 0, ret |-> NoReturn]}

SmallEffect ==
  [o \in SmallOpcode |-> [a \in SmallAddr |-> [d \in SmallData |->
     CASE o = "flip" -> {<<a + 1, [d EXCEPT !.x = 1 - @]>>}
       [] o = "jz"   -> {<<IF d.x = 0 THEN 3 ELSE 2, d>>}
       [] o = "loop" -> {<<0, d>>, <<5, d>>}
       [] o = "jmp"  -> {<<0, d>>}
       [] o = "iret" -> IF d.ret = NoReturn THEN {} ELSE {<<d.ret, [d EXCEPT !.ret = NoReturn]>>}
       [] OTHER      -> {}]]]

\* The handler runs with interrupts disabled.
SmallInterrupt ==
  [a \in SmallAddr |-> [d \in SmallData |->
     IF d.ret = NoReturn THEN {<<7, [d EXCEPT !.ret = a]>>} ELSE {}]]

\* The user watches x, and whether a handler runs.
SmallExpr  == {"x", "busy"}
SmallValue == [e \in SmallExpr |-> [d \in SmallData |->
                 IF e = "x" THEN d.x ELSE IF d.ret = NoReturn THEN 0 ELSE 1]]
=============================================================================
