---------------------------- MODULE ExternalSignal ----------------------------
(***************************************************************************)
(* gem5's external-signal path (sim/init_signals.cc, in src/unnamed/      *)
(* part_004).  An external process writes a JSON message into the shared  *)
(* memory /shared_gem5_signal_mem_<pid> and signals gem5;                  *)
(* externalProcessHandler only raises async_event/async_hypercall, and    *)
(* the event loop later runs processExternalSignal, which parses the      *)
(* message with string searches and hands the id and the payload map to   *)
(* exitSimLoopWithHypercall, then writes "done" back.                      *)
(*                                                                         *)
(* A message is a sequence of one-character strings and every position is *)
(* 0-based as in std::string: the parser's behaviour depends on absolute  *)
(* positions (isspace is applied to an index), so the text is kept.       *)
(* Npos stands for std::string::npos, and PosPlus for size_t arithmetic   *)
(* on a position that may be npos.                                        *)
(***************************************************************************)
EXTENDS Integers, Sequences, SequencesExt, FiniteSets

CONSTANTS
  Ids,       \* the ids the transmitter writes, as digit strings
  Keys,      \* payload keys (strings without whitespace or quotes)
  Vals,      \* payload values
  MaxPairs,  \* the most key/value pairs in one payload
  Indents    \* spaces per nesting level in the transmitted layout

VARIABLES
  shm,            \* the shared memory: [exists, data]
  sent,           \* the message the transmitter wrote, or NoMsg
  asyncHypercall, \* async_event && async_hypercall, raised by the handler
  hypercalls,     \* the <<id, payload map>> pairs passed to exitSimLoopWithHypercall
  crashed         \* std::stoll threw std::invalid_argument, which nothing catches

vars == <<shm, sent, asyncHypercall, hypercalls, crashed>>

Q == "\""
Space == {" ", "\t", "\n", "\r"}
Digit == {"0", "1", "2", "3", "4", "5", "6", "7", "8", "9"}
DigitValue == [c \in Digit |-> CHOOSE n \in 0..9 :
                 c = <<"0", "1", "2", "3", "4", "5", "6", "7", "8", "9">>[n + 1]]
IdField == <<Q, "i", "d", Q, ":">>
PayloadKey == <<Q, "p", "a", "y", "l", "o", "a", "d", Q, ":">>
Done == <<"d", "o", "n", "e">>
NoMsg == [id |-> <<>>, pairs |-> <<>>]

(***************************************************************************)
(* std::string searches                                                    *)
(***************************************************************************)
Npos == -1
Char(s, p) == s[p + 1]
FirstOr(hits) == IF hits = {} THEN Npos ELSE Min(hits)
Find(s, pat, from) ==
  FirstOr({p \in from..(Len(s) - Len(pat)) : SubSeq(s, p + 1, p + Len(pat)) = pat})
FindFirstOf(s, cs, from) == FirstOr({p \in from..(Len(s) - 1) : Char(s, p) \in cs})
FindFirstNotOf(s, cs, from) == FirstOr({p \in from..(Len(s) - 1) : Char(s, p) \notin cs})
PosPlus(p, k) == IF p = Npos THEN k - 1 ELSE p + k

\* isspace() applied to an integer: true for the codes of \t \n \v \f \r
\* and the blank.
IsSpaceCode(n) == n \in {9, 10, 11, 12, 13, 32}

\* Lines 599-601: the loop tests the index id_pos, not the character at it.
RECURSIVE SkipIdSpace(_, _)
SkipIdSpace(s, p) == IF p < Len(s) /\ IsSpaceCode(p) THEN SkipIdSpace(s, p + 1) ELSE p

RECURSIVE TrimBack(_)
TrimBack(str) == IF str # <<>> /\ Last(str) \in Space THEN TrimBack(Front(str)) ELSE str

\* std::stoll: leading whitespace, an optional sign, then the longest run of
\* digits; no digit at all throws std::invalid_argument.  (Ids have at most
\* a few digits, so std::out_of_range is not reachable.)
Stoll(str) ==
  LET from == FindFirstNotOf(str, Space, 0)
      signed == from # Npos /\ Char(str, from) \in {"+", "-"}
      first == IF signed THEN from + 1 ELSE from
      stop == FindFirstNotOf(str, Digit, first)
      ds == IF from = Npos THEN <<>>
            ELSE SubSeq(str, first + 1, IF stop = Npos THEN Len(str) ELSE stop)
      n == FoldLeft(LAMBDA a, c : 10 * a + DigitValue[c], 0, ds)
  IN IF ds = <<>> THEN [ok |-> FALSE, val |-> 0]
     ELSE [ok |-> TRUE, val |-> IF signed /\ Char(str, from) = "-" THEN -n ELSE n]

(***************************************************************************)
(* extractStringFromJSON(full_str, "\"", "\"", search_start): the text     *)
(* between the next two quotes, trimmed, and the updated search_start     *)
(* (left alone when a quote is missing).                                  *)
(***************************************************************************)
RECURSIVE TrimEnd(_, _, _)
TrimEnd(s, start, end) ==
  IF end > start /\ Char(s, end - 1) \in Space THEN TrimEnd(s, start, end - 1) ELSE end

extractStringFromJSON(s, from) ==
  LET open == Find(s, <<Q>>, from)
      skip == FindFirstNotOf(s, Space, open + 1)
      start == IF skip = Npos THEN Len(s) ELSE skip
      close == Find(s, <<Q>>, start)
      end == TrimEnd(s, start, close)
  IN IF open = Npos \/ close = Npos THEN [ok |-> TRUE, str |-> <<>>, next |-> from]
     ELSE [ok |-> TRUE, str |-> SubSeq(s, start + 1, end), next |-> end + 1]

\* Lines 670-684: an unquoted value runs to the next ',' or '}'.
UnquotedValue(s, p) ==
  LET valueEnd == FindFirstOf(s, {",", "}"}, p)
  IN IF valueEnd = Npos THEN [ok |-> FALSE, str |-> <<>>, next |-> p]
     ELSE [ok |-> TRUE, str |-> TrimBack(SubSeq(s, p + 1, valueEnd)), next |-> valueEnd]

PutKey(map, k, v) == [x \in DOMAIN map \cup {k} |-> IF x = k THEN v ELSE map[x]]

\* Lines 637-691: the key/value loop inside the payload object.
RECURSIVE PayloadLoop(_, _, _)
PayloadLoop(s, pos, map) ==
  LET p1 == FindFirstNotOf(s, {","} \cup Space, pos)
      key == extractStringFromJSON(s, p1)
      colon == Find(s, <<":">>, key.next)
      p4 == FindFirstNotOf(s, Space, colon + 1)
      value == IF Char(s, p4) = Q THEN extractStringFromJSON(s, p4)
               ELSE UnquotedValue(s, p4)
  IN IF ~(pos < Len(s) /\ Char(s, pos) # "}") THEN map
     ELSE IF p1 = Npos \/ Char(s, p1) = "}" THEN map
     ELSE IF colon = Npos \/ p4 = Npos THEN map
     ELSE IF ~value.ok THEN map
     ELSE PayloadLoop(s, value.next,
                      IF key.str # <<>> /\ value.str # <<>>
                      THEN PutKey(map, key.str, value.str) ELSE map)

\* Lines 582-635 and 691: what processExternalSignal makes of the text.
ParsePayload(s) ==
  LET idAt == Find(s, IdField, 0)
      idPos == SkipIdSpace(s, idAt + Len(IdField))
      idEnd == FindFirstOf(s, {",", "}"}, idPos)
      num == Stoll(TrimBack(SubSeq(s, idPos + 1, idEnd)))
      payloadPos == PosPlus(Find(s, PayloadKey, 0), Len(PayloadKey))
      objectPos == PosPlus(Find(s, <<"{">>, payloadPos), 1)
  IN CASE idAt = Npos       -> [status |-> "noId"]
       [] idEnd = Npos      -> [status |-> "badId"]
       [] ~num.ok           -> [status |-> "throws"]
       [] num.val < 0       -> [status |-> "negId"]
       [] OTHER             -> [status |-> "ok", id |-> num.val,
                                map |-> PayloadLoop(s, objectPos, <<>>)]

(***************************************************************************)
(* The documented format (the comment above externalProcessHandler), as  *)
(* the transmitter writes it: an object with "id" and a "payload" object *)
(* of quoted pairs, laid out with a newline or not, an indent of n spaces *)
(* per level and a blank after each colon or not.                         *)
(***************************************************************************)
Layouts == [nl : {<<>>, <<"\n">>}, indent : Indents, gap : {<<>>, <<" ">>}]
Spaces(n) == [i \in 1..n |-> " "]
Quoted(str) == <<Q>> \o str \o <<Q>>
Break(f, level) == f.nl \o Spaces(level * f.indent)
Member(f, level, k, v) == Break(f, level) \o Quoted(k) \o <<":">> \o f.gap \o v

RECURSIVE Members(_, _)
Members(f, pairs) ==
  IF pairs = <<>> THEN <<>>
  ELSE Member(f, 2, Head(pairs)[1], Quoted(Head(pairs)[2]))
       \o (IF Tail(pairs) = <<>> THEN <<>> ELSE <<",">>) \o Members(f, Tail(pairs))

Render(m, f) ==
  <<"{">> \o Member(f, 1, <<"i", "d">>, m.id) \o <<",">>
  \o Member(f, 1, <<"p", "a", "y", "l", "o", "a", "d">>,
            <<"{">> \o Members(f, m.pairs) \o Break(f, 1) \o <<"}">>)
  \o Break(f, 0) \o <<"}">>

PairSeqs == {ps \in BoundedSeq(Keys \X Vals, MaxPairs) :
               \A i, j \in DOMAIN ps : i # j => ps[i][1] # ps[j][1]}
Messages == [id : Ids, pairs : PairSeqs]

\* What exitSimLoopWithHypercall should receive for message m.
Expected(m) ==
  <<FoldLeft(LAMBDA a, c : 10 * a + DigitValue[c], 0, m.id),
    [k \in {m.pairs[i][1] : i \in DOMAIN m.pairs} |->
       m.pairs[CHOOSE i \in DOMAIN m.pairs : m.pairs[i][1] = k][2]]>>

Init ==
  /\ shm = [exists |-> FALSE, data |-> <<>>]
  /\ sent = NoMsg
  /\ asyncHypercall = FALSE
  /\ hypercalls = <<>>
  /\ crashed = FALSE

\* The external process (not part of the repository) creates the shared
\* memory and writes one message into it.
Transmit(m, f) ==
  /\ sent = NoMsg
  /\ shm' = [exists |-> TRUE, data |-> Render(m, f)]
  /\ sent' = m
  /\ UNCHANGED <<asyncHypercall, hypercalls, crashed>>

\* Lines 540-548: the signal handler only raises the async flags.
externalProcessHandler ==
  /\ ~crashed
  /\ ~asyncHypercall
  /\ asyncHypercall' = TRUE
  /\ UNCHANGED <<shm, sent, hypercalls, crashed>>

\* Lines 550-704: the event loop clears the flags and runs the parser.
\* shm_open fails when the transmitter has not created the memory yet, and
\* mmap may fail; both return early, as do the id errors, without writing
\* "done".
processExternalSignal ==
  /\ asyncHypercall
  /\ asyncHypercall' = FALSE
  /\ \E mapped \in BOOLEAN :
       LET r == ParsePayload(shm.data) IN
       IF ~shm.exists \/ ~mapped \/ r.status \in {"noId", "badId", "negId"}
       THEN UNCHANGED <<shm, hypercalls, crashed>>
       ELSE IF r.status = "throws"
       THEN crashed' = TRUE /\ UNCHANGED <<shm, hypercalls>>
       ELSE /\ shm' = [shm EXCEPT !.data = Done]
            /\ hypercalls' = Append(hypercalls, <<r.id, r.map>>)
            /\ UNCHANGED crashed
  /\ UNCHANGED sent

Next ==
  \/ \E m \in Messages, f \in Layouts : Transmit(m, f)
  \/ externalProcessHandler
  \/ processExternalSignal

Spec == Init /\ [][Next]_vars

TypeOK ==
  /\ shm.exists \in BOOLEAN
  /\ asyncHypercall \in BOOLEAN
  /\ crashed \in BOOLEAN
  /\ sent \in Messages \cup {NoMsg}

\* The handler's comment promises that a message in the documented format
\* (any whitespace between elements) is handled: gem5 does not die on it,
\* and exitSimLoopWithHypercall gets the id and the key/value pairs that
\* were written.
DeliveredAsWritten ==
  /\ ~crashed
  /\ \A i \in DOMAIN hypercalls : hypercalls[i] = Expected(sent)

=============================================================================
