----------------------------- MODULE TraceLogger -----------------------------
(***************************************************************************)
(* The bb-trace runtime, runtime/trace_logger.cpp.                         *)
(*                                                                         *)
(* Threads of the instrumented program call the hooks.  Each hook takes a  *)
(* sequence number with a relaxed fetch_add, formats its line into a      *)
(* stack buffer, and calls TraceLogger::log, which under mu_ writes the   *)
(* payload and then "\n" to the shared fd, or returns if the fd is        *)
(* closed.  on_loop first bumps a thread_local per-(func, loop) counter.  *)
(* __bbtrace_finalize, called from the module's global destructor, closes *)
(* the fd under mu_.  A hook may also run inside a signal handler that    *)
(* interrupts a hook of the same thread (spec section 5: hooks are called *)
(* "from any context including within signal handlers").                  *)
(*                                                                         *)
(* A line is abstracted to the fields a property reads: the event, the    *)
(* seq and iter it carries, and (as history) the thread that wrote it.    *)
(* Formatting, timestamps and addresses are left out.                     *)
(***************************************************************************)
EXTENDS Naturals, Sequences, SequencesExt, FiniteSets

CONSTANTS
  Threads,         \* the program's threads calling hooks
  Script,          \* the hook calls each thread makes, in program order
  SignalEvent,     \* the hook a signal handler runs
  MaxSignals,      \* signals delivered to a thread, at most
  JoinChoices,     \* whether the program joins its threads before exit
  kJsonBufSize,    \* size of the args_buf and buf stack buffers
  NoOwner          \* mu_ not held

\* A hook call: [hook, key] with key the (func, loop) pair of on_loop.
\* An on_call call also carries its arguments: [call |-> [func, bb, inst,
\* callAddr, target, args, ts]], an address 0 standing for nullptr and
\* each argument a record [kind, bits, value].
Hooks == {"bb", "loop", "mem", "branch", "call"}

VARIABLES
  sequence,   \* TraceLogger::sequence_
  mu,         \* owner of TraceLogger::mu_
  fdOpen,     \* fd_ >= 0
  file,       \* the JSONL file: payload writes and "\n" writes, in order
  loopIters,  \* loopIters[t][key]: the thread_local loop_iters map
  next,       \* next[t]: index in Script of t's next hook call
  frames,     \* frames[t]: hooks running on t, innermost last
  signals,    \* signals delivered to t so far
  finalized,  \* __bbtrace_finalize has run
  opened,     \* history: open_stream's ::open succeeded
  join        \* the program joins its threads before exit

vars == <<sequence, mu, fdOpen, file, loopIters, next, frames, signals,
          finalized, opened, join>>

Keys == {Script[i].key : i \in DOMAIN Script} \cup {SignalEvent.key}

Init ==
  /\ sequence = 0
  /\ mu = NoOwner
  /\ fdOpen \in BOOLEAN  \* open_stream: ::open may fail, leaving fd_ = -1
  /\ opened = fdOpen
  /\ file = <<>>
  /\ loopIters = [t \in Threads |-> [k \in Keys |-> 0]]
  /\ next = [t \in Threads |-> 1]
  /\ frames = [t \in Threads |-> <<>>]
  /\ signals = [t \in Threads |-> 0]
  /\ finalized = FALSE
  /\ join \in JoinChoices

Top(t) == Last(frames[t])
SetTop(t, f) == frames' = [frames EXCEPT ![t] = Front(@) \o <<f>>]

\* Entering a hook: on_loop starts with next_loop_iter, the others with
\* next_sequence (tracing_disabled() is FALSE in every run here).
Frame(ev) == [ev |-> ev, pc |-> IF ev.hook = "loop" THEN "iter" ELSE "seq",
              seq |-> 0, iter |-> 0]

CallHook(t) ==
  /\ frames[t] = <<>>
  /\ next[t] <= Len(Script)
  /\ frames' = [frames EXCEPT ![t] = <<Frame(Script[next[t]])>>]
  /\ UNCHANGED <<sequence, mu, fdOpen, file, loopIters, next, signals,
                 finalized, opened, join>>

\* A signal handler runs a hook on top of whatever t is doing.
Signal(t) ==
  /\ frames[t] # <<>>
  /\ signals[t] < MaxSignals
  /\ frames' = [frames EXCEPT ![t] = Append(@, Frame(SignalEvent))]
  /\ signals' = [signals EXCEPT ![t] = @ + 1]
  /\ UNCHANGED <<sequence, mu, fdOpen, file, loopIters, next, finalized, opened, join>>

\* Fault variant: the counter read but never stored back.
NextLoopIterNoIncrement(t) ==
  /\ frames[t] # <<>>
  /\ Top(t).pc = "iter"
  /\ SetTop(t, [Top(t) EXCEPT !.iter = loopIters[t][Top(t).ev.key],
                              !.pc = "seq"])
  /\ UNCHANGED <<sequence, mu, fdOpen, file, loopIters, next, signals,
                 finalized, opened, join>>

\* next_loop_iter: read loop_iters[key] (0 if absent), store it + 1.
NextLoopIter(t) ==
  /\ frames[t] # <<>>
  /\ Top(t).pc = "iter"
  /\ SetTop(t, [Top(t) EXCEPT !.iter = loopIters[t][Top(t).ev.key],
                              !.pc = "seq"])
  /\ loopIters' = [loopIters EXCEPT ![t][Top(t).ev.key] = @ + 1]
  /\ UNCHANGED <<sequence, mu, fdOpen, file, next, signals, finalized, opened, join>>

\* next_sequence: sequence_.fetch_add(1, relaxed), an atomic RMW.
NextSequence(t) ==
  /\ frames[t] # <<>>
  /\ Top(t).pc = "seq"
  /\ SetTop(t, [Top(t) EXCEPT !.seq = sequence, !.pc = "lock"])
  /\ sequence' = sequence + 1
  /\ UNCHANGED <<mu, fdOpen, file, loopIters, next, signals, finalized, opened, join>>

\* Fault variant: log() without the lock_guard.
LockNoMutex(t) ==
  /\ frames[t] # <<>>
  /\ Top(t).pc = "lock"
  /\ mu' = t
  /\ SetTop(t, [Top(t) EXCEPT !.pc = "payload"])
  /\ UNCHANGED <<sequence, fdOpen, file, loopIters, next, signals, finalized, opened, join>>

\* log(): std::lock_guard on mu_ (not recursive: a thread that already
\* owns it waits for ever).
Lock(t) ==
  /\ frames[t] # <<>>
  /\ Top(t).pc = "lock"
  /\ mu = NoOwner
  /\ mu' = t
  /\ SetTop(t, [Top(t) EXCEPT !.pc = "payload"])
  /\ UNCHANGED <<sequence, fdOpen, file, loopIters, next, signals, finalized, opened, join>>

\* Leaving a hook: pop its frame; the outermost one moves t's script on.
Return(t) ==
  /\ frames' = [frames EXCEPT ![t] = Front(@)]
  /\ next' = IF Len(frames[t]) = 1 THEN [next EXCEPT ![t] = @ + 1] ELSE next

\* `if (fd_ < 0) return;` -- the lock_guard releases mu_.
LogClosed(t) ==
  /\ frames[t] # <<>>
  /\ Top(t).pc = "payload"
  /\ ~fdOpen
  /\ mu' = NoOwner
  /\ Return(t)
  /\ UNCHANGED <<sequence, fdOpen, file, loopIters, signals, finalized, opened, join>>

\* ::write(fd_, payload, len)
WritePayload(t) ==
  /\ frames[t] # <<>>
  /\ Top(t).pc = "payload"
  /\ fdOpen
  /\ file' = Append(file, [kind |-> "payload", ev |-> Top(t).ev,
                           seq |-> Top(t).seq, iter |-> Top(t).iter, by |-> t])
  /\ SetTop(t, [Top(t) EXCEPT !.pc = "nl"])
  /\ UNCHANGED <<sequence, mu, fdOpen, loopIters, next, signals, finalized, opened, join>>

\* Fault variant: a manual lock() with no unlock on the way out.
WriteNewlineNoUnlock(t) ==
  /\ frames[t] # <<>>
  /\ Top(t).pc = "nl"
  /\ file' = Append(file, [kind |-> "nl"])
  /\ Return(t)
  /\ UNCHANGED <<sequence, mu, fdOpen, loopIters, signals, finalized, opened, join>>

\* ::write(fd_, "\n", 1), then the lock_guard releases mu_ and the hook
\* returns.
WriteNewline(t) ==
  /\ frames[t] # <<>>
  /\ Top(t).pc = "nl"
  /\ file' = Append(file, [kind |-> "nl"])
  /\ mu' = NoOwner
  /\ Return(t)
  /\ UNCHANGED <<sequence, fdOpen, loopIters, signals, finalized, opened, join>>

ThreadsDone == \A t \in Threads : next[t] > Len(Script) /\ frames[t] = <<>>

\* Fault variant: the destructor runs while threads still log.
FinalizeNoJoin ==
  /\ ~finalized
  /\ mu = NoOwner
  /\ fdOpen' = FALSE
  /\ finalized' = TRUE
  /\ UNCHANGED <<sequence, mu, file, loopIters, next, frames, signals, opened,
                 join>>

\* __bbtrace_finalize from the global destructor: flush_and_close under
\* mu_.  Without a join, exit may come while threads still run hooks.
Finalize ==
  /\ ~finalized
  /\ join => ThreadsDone
  /\ mu = NoOwner
  /\ fdOpen' = FALSE
  /\ finalized' = TRUE
  /\ UNCHANGED <<sequence, mu, file, loopIters, next, frames, signals, opened,
                 join>>

Step(t) ==
  \/ CallHook(t) \/ Signal(t) \/ NextLoopIter(t) \/ NextSequence(t)
  \/ Lock(t) \/ LogClosed(t) \/ WritePayload(t) \/ WriteNewline(t)

Next == (\E t \in Threads : Step(t)) \/ Finalize

\* Every runnable thread is scheduled eventually, and the destructor runs
\* once main returns.  mu_ is not fair, so only weak fairness is assumed;
\* Signal is an environment step and gets none.
Fairness ==
  /\ \A t \in Threads :
       WF_vars(CallHook(t) \/ NextLoopIter(t) \/ NextSequence(t) \/ Lock(t)
               \/ LogClosed(t) \/ WritePayload(t) \/ WriteNewline(t))
  /\ WF_vars(Finalize)

Spec == Init /\ [][Next]_vars /\ Fairness

-----------------------------------------------------------------------------
(* The length of the line __bbtrace_on_call formats.  std::snprintf       *)
(* writes at most size - 1 characters and a NUL, and returns the length   *)
(* the whole output would have had.                                       *)

RECURSIVE Digits(_, _)
\* Characters of n printed in base b (%u, %llu, %llx).
Digits(n, b) == IF n < b THEN 1 ELSE 1 + Digits(n \div b, b)

\* call_arg_kind_to_string, by length: "int", "ptr", "float", "unknown".
KindLen(kind) == CASE kind \in {"int", "ptr"} -> 3
                   [] kind = "float"        -> 5
                   [] OTHER                 -> 7

\* pointer_to_json: null, or the address in quotes as "0x%lx".
PtrLen(a) == IF a = 0 THEN 4 ELSE 4 + Digits(a, 16)

\* The snprintf return value for argument idx (0-based):
\* [","]{"idx":I,"kind":"K","bits":B,"value":"0xV"}
EntryLen(idx, arg) ==
  (IF idx = 0 THEN 0 ELSE 1) + 39 + Digits(idx, 10) + KindLen(arg.kind)
    + Digits(arg.bits, 10) + Digits(arg.value, 16)

RECURSIVE ArgsLoop(_, _, _)
\* The argument loop from idx on, with off already added: off grows by
\* each snprintf's return value, and the loop breaks once off reaches
\* sizeof(args_buf).
ArgsLoop(args, idx, off) ==
  IF idx >= Len(args) THEN off
  ELSE LET o == off + EntryLen(idx, args[idx + 1])
       IN  IF o >= kJsonBufSize THEN o ELSE ArgsLoop(args, idx + 1, o)

\* off before the closing "]": after "[" (off = 1) and the loop.
ArgsOff(c) == ArgsLoop(c.args, 0, 1)

\* The closing snprintf is passed args_buf + off and sizeof(args_buf) -
\* off: past the end of the buffer the size_t subtraction wraps and "]"
\* and its NUL are written at args_buf[off] and args_buf[off + 1].
ArgsBufOverrun(c) == ArgsOff(c) > kJsonBufSize

\* strlen(args_buf) as the outer snprintf's %s reads it: the whole list
\* if it fit, else the truncated last entry ending at args_buf[size-1].
ArgsStrlen(c) ==
  LET off == ArgsOff(c)
  IN  IF off < kJsonBufSize
      THEN IF off + 1 < kJsonBufSize THEN off + 1 ELSE off
      ELSE kJsonBufSize - 1

\* len, the outer snprintf's return value, that log() writes from buf:
\* {"event":"call","seq":S,"func":F,"bb":B,"inst":I,"call_addr":P,
\* "target_addr":P,"num_args":N,"args":A,"ts_ns":T}
CallRecordLen(c, seq) ==
  102 + Digits(seq, 10) + Digits(c.func, 10) + Digits(c.bb, 10)
      + Digits(c.inst, 10) + PtrLen(c.callAddr) + PtrLen(c.target)
      + Digits(Len(c.args), 10) + ArgsStrlen(c) + Digits(c.ts, 10)

-----------------------------------------------------------------------------
Payloads == SelectSeq(file, LAMBDA w : w.kind = "payload")

\* log() writes the payload and the newline with two write() calls under
\* mu_; the file must still be whole lines, never one thread's payload
\* glued to another's or two newlines in a row.
WholeLines ==
  \A i \in DOMAIN file : file[i].kind = IF i % 2 = 1 THEN "payload" ELSE "nl"

\* When the program joins its threads before exit, the destructor's
\* flush_and_close comes after the last hook: every sequence number a
\* hook took is in the file exactly once (if the file could be opened).
NoEventLost ==
  finalized /\ opened /\ join =>
    /\ Len(Payloads) = sequence
    /\ {Payloads[i].seq : i \in DOMAIN Payloads} = 0..sequence - 1

\* The loop_iters counter is thread_local and read before the sequence
\* number is taken: the on_loop lines a thread writes for one loop carry
\* iter 0, 1, 2, ... in file order.
LoopIterPerThread ==
  \A t \in Threads, k \in Keys :
    LET ls == SelectSeq(Payloads, LAMBDA p : p.by = t /\ p.ev.hook = "loop"
                                           /\ p.ev.key = k)
    IN  \A i \in DOMAIN ls : ls[i].iter = i - 1

\* Every thread finishes its hook calls and the file is closed.
Termination == <>(ThreadsDone /\ finalized)

\* A signal hook that interrupts a hook of its own thread holding mu_
\* waits in log()'s lock_guard for a lock only the interrupted frame can
\* release.
SelfDeadlocked ==
  \E t \in Threads : /\ mu = t
                     /\ Len(frames[t]) > 1
                     /\ Top(t).pc = "lock"

\* Whether or not the threads are joined, the hooks and the destructor
\* run to the end unless a thread deadlocks on mu_ against itself: no
\* other schedule of the hooks, finalize and signals stops the program.
TerminatesUnlessSelfDeadlocked ==
  <>(ThreadsDone /\ finalized) \/ <>[]SelfDeadlocked


\* __bbtrace_on_call stays inside its two stack buffers: once a hook has
\* formatted its call record (it holds its seq), the closing "]" was not
\* written past args_buf, and log() is not asked to write more than the
\* kJsonBufSize bytes of buf (snprintf's len is the untruncated length).
CallRecordInBounds ==
  \A t \in Threads : \A i \in DOMAIN frames[t] :
    LET f == frames[t][i]
    IN  f.ev.hook = "call" /\ f.pc \in {"lock", "payload", "nl"} =>
          /\ ~ArgsBufOverrun(f.ev.call)
          /\ CallRecordLen(f.ev.call, f.seq) <= kJsonBufSize
=============================================================================
