--------------------------- MODULE MC_TraceLogger ---------------------------
(* Two threads running the same loop body: enter a loop header, access   *)
(* memory, take the back edge to the header again.                       *)
EXTENDS TraceLogger

CONSTANTS t1, t2

MCThreads == {t1, t2}

LoopHeader == [hook |-> "loop", key |-> 1]
MemAccess == [hook |-> "mem", key |-> 0]
BlockEntry == [hook |-> "bb", key |-> 0]

MCScript == <<LoopHeader, MemAccess, LoopHeader>>

\* With signals and an early destructor: a loop header entered twice.
MCRaceScript == <<LoopHeader, LoopHeader>>

\* A call site passing many integer arguments (a variadic call, or a
\* function with a long parameter list): 80 i64 arguments print about
\* 4400 characters of JSON.
LongCall ==
  [hook |-> "call", key |-> 0,
   call |-> [func |-> 3, bb |-> 12, inst |-> 40, callAddr |-> 4198400,
             target |-> 4202496, ts |-> 1500000,
             args |-> [i \in 1..80 |-> [kind |-> "int", bits |-> 64,
                                          value |-> 2147483647]]]]

MCLongCallScript == <<LongCall>>
=============================================================================
