------------------------------ MODULE BBTraceInputs ------------------------------
(***************************************************************************)
(* Input modules for the bb-trace pass: every sequence of 1..MaxFuncs   *)
(* drawn from the templates below.  Together the templates contain every  *)
(* row of the pass's instruction table (load, store, conditional and       *)
(* unconditional br, traced call with pointer, integer, float, wide and   *)
(* aggregate arguments, indirect call, intrinsic, inline asm, a call to a *)
(* __bbtrace_ function, PHIs), nested and sibling loops, a declaration and *)
(* a defined function named __bbtrace_*.  Block successors are positions. *)
(***************************************************************************)
EXTENDS BBTraceIR

MaxFuncs == 2

\* Argument types [cls, bits, store].
I32    == [cls |-> "int",   bits |-> 32,  store |-> 32]
I128   == [cls |-> "int",   bits |-> 128, store |-> 128]
PtrTy  == [cls |-> "ptr",   bits |-> 64,  store |-> 64]
F64    == [cls |-> "float", bits |-> 64,  store |-> 64]
Agg    == [cls |-> "other", bits |-> 0,   store |-> 96]

Ld   == Src("load", "none", <<>>, <<>>)
St   == Src("store", "none", <<>>, <<>>)
Phi  == Src("phi", "none", <<>>, <<>>)
Ret  == Src("ret", "none", <<>>, <<>>)
Br(s) == Src("br", "none", <<s>>, <<>>)
CBr(s, t) == Src("br", "none", <<s, t>>, <<>>)
CallTo(c, args) == Src("call", c, <<>>, args)

Fn(sym, blocks, loops, top) ==
  [sym |-> sym, runtime |-> FALSE, decl |-> FALSE, blocks |-> blocks,
   loops |-> loops, top |-> top]

Loop(h, body, children) == [header |-> h, body |-> body, children |-> children]

Straight == Fn("straight", << <<Ld, St, Ret>> >>, <<>>, <<>>)

\* if/else with a join PHI and a user call to a __bbtrace_ function.
Diamond ==
  Fn("diamond",
     << <<Ld, CBr(2, 3)>>,
        <<CallTo("user", <<I32, PtrTy>>), Br(4)>>,
        <<CallTo("intrinsic", <<>>), CallTo("asm", <<>>), St, Br(4)>>,
        <<Phi, CallTo("bbtrace", <<>>), Ret>> >>,
     <<>>, <<>>)

\* An outer loop (blocks 2..5) with two inner single-block loops.
Nested ==
  Fn("nested",
     << <<Br(2)>>,
        <<Phi, CBr(3, 6)>>,
        <<Phi, Ld, CBr(3, 4)>>,
        <<St, CBr(4, 5)>>,
        <<CallTo("indirect", <<F64, I128, Agg>>), Br(2)>>,
        <<Ret>> >>,
     << Loop(2, {2, 3, 4, 5}, <<2, 3>>), Loop(3, {3}, <<>>),
        Loop(4, {4}, <<>>) >>,
     <<1>>)

\* Two top-level loops one after the other.
Siblings ==
  Fn("siblings",
     << <<Br(2)>>, <<Phi, Ld, CBr(2, 3)>>, <<Phi, St, CBr(3, 4)>>, <<Ret>> >>,
     << Loop(2, {2}, <<>>), Loop(3, {3}, <<>>) >>,
     <<1, 2>>)

External == Decl("external", FALSE)

RuntimeHelper ==
  [Fn("__bbtrace_helper", << <<Ld, Ret>> >>, <<>>, <<>>) EXCEPT !.runtime = TRUE]

Templates == {Straight, Diamond, Nested, Siblings, External, RuntimeHelper}

MCInputs == UNION { [1..n -> Templates] : n \in 1..MaxFuncs }
=============================================================================
