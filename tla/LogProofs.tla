----------------------------- MODULE LogProofs -----------------------------
(***************************************************************************)
(* Theorems about the two parts of log streaming.  LogLines, for every     *)
(* bound, buffer size and stream; LogStream, for every number of streams,  *)
(* every number of lines and every capacity.  Each specification speaks of *)
(* its own variables only.                                                 *)
(***************************************************************************)
EXTENDS LogLines, LogStream, TLAPS

-----------------------------------------------------------------------------
(* LogLines.                                                               *)

\* An input is a sequence of lengths.
LEMMA InputType ==
    ASSUME input \in Inputs
    PROVE  input \in Seq(Nat)
<1>1. PICK n \in 0..MaxLines : input \in [1..n -> 0..MaxLength]
  BY DEF Inputs
<1>2. n \in Nat /\ input \in [1..n -> Nat]
  BY <1>1, LogLinesAssumption DEF LogLinesAssumption
<1> QED
  BY <1>2

\* What a fragment of n bytes makes of the slice and the flag: the bytes consumed
\* up to the bound, and the flag exactly when more were consumed or it was set.
LEMMA ExtendedFacts ==
    ASSUME LineTypeOK, NEW n \in Nat
    PROVE  /\ Extended(n) \in Line
           /\ Extended(n).length = AtMost(used + n, MaxLineBytes)
           /\ used + n > MaxLineBytes => Extended(n).truncated
           /\ Extended(n).truncated => used + n >= MaxLineBytes
<1>1. /\ used \in Nat /\ kept \in Nat /\ truncated \in BOOLEAN
      /\ kept = AtMost(used, MaxLineBytes)
      /\ used > MaxLineBytes => truncated
      /\ truncated => used >= MaxLineBytes
      /\ MaxLineBytes \in Nat
  BY LogLinesAssumption DEF LineTypeOK, LogLinesAssumption
<1>2. CASE truncated
  <2>1. Extended(n) = [length |-> kept, truncated |-> TRUE]
    BY <1>2 DEF Extended
  <2>2. kept = AtMost(used + n, MaxLineBytes)
    BY <1>1, <1>2 DEF AtMost
  <2> QED
    BY <1>1, <1>2, <2>1, <2>2 DEF Line
<1>3. CASE ~truncated
  <2>1. Extended(n) = [length |-> AtMost(kept + n, MaxLineBytes),
                       truncated |-> kept + n > MaxLineBytes]
    BY <1>3 DEF Extended
  <2>2. kept = used
    BY <1>1, <1>3 DEF AtMost
  <2>3. AtMost(used + n, MaxLineBytes) \in Nat
    BY <1>1 DEF AtMost
  <2>4. (used + n > MaxLineBytes) \in BOOLEAN
    BY <1>1
  <2>5. Extended(n) = [length |-> AtMost(used + n, MaxLineBytes),
                       truncated |-> used + n > MaxLineBytes]
    BY <2>1, <2>2
  <2>6. Extended(n) \in Line
    BY <2>3, <2>4, <2>5 DEF Line
  <2>7. Extended(n).length = AtMost(used + n, MaxLineBytes)
    BY <2>5
  <2>8. Extended(n).truncated = (used + n > MaxLineBytes)
    BY <2>5
  <2>9. used + n > MaxLineBytes => used + n >= MaxLineBytes
    BY <1>1
  <2> QED
    BY <2>6, <2>7, <2>8, <2>9
<1> QED
  BY <1>2, <1>3

\* While a line is being read there is one, and its rest is a number of bytes.
LEMMA RestType ==
    ASSUME LineTypeOK, ~AtEnd
    PROVE  /\ Current \in 1..Len(input)
           /\ Rest \in Nat
           /\ used + Rest = input[Current]
<1>1. input \in Seq(Nat) /\ emitted \in Seq(Line) /\ used \in Nat
  BY InputType DEF LineTypeOK
<1>2. Current \in 1..Len(input)
  BY <1>1 DEF AtEnd, Current
<1>3. input[Current] \in Nat /\ used <= input[Current]
  BY <1>1, <1>2 DEF LineTypeOK
<1> QED
  BY <1>1, <1>2, <1>3 DEF Rest

\* The inductive invariant.  LinesFaithful needs to know what the slice and the
\* flag say of the line under way, which is the last part of LineTypeOK.
LineInv == LineTypeOK /\ LinesFaithful

LEMMA LineInitInductive == LineInit => LineInv
<1> SUFFICES ASSUME LineInit PROVE LineInv
  OBVIOUS
<1>1. input \in Seq(Nat)
  BY InputType DEF LineInit
<1>2. emitted = <<>> /\ Len(emitted) = 0 /\ DOMAIN emitted = {}
  BY DEF LineInit
<1>3. Current = 1
  BY <1>2 DEF Current
<1>4. input[1] \in Nat \/ Len(input) < 1
  BY <1>1
<1>5. LineTypeOK
  <2>1. /\ 0 = AtMost(0, MaxLineBytes)
        /\ ~(0 > MaxLineBytes)
        /\ Len(input) \in Nat
        /\ 1 <= Len(input) + 1
        /\ 1 <= Len(input) => 0 <= input[1]
    BY <1>1, LogLinesAssumption DEF AtMost, LogLinesAssumption
  <2> QED
    <3>1. /\ input \in Inputs /\ unended \in BOOLEAN /\ broken \in BOOLEAN
          /\ lazy \in BOOLEAN /\ used = 0 /\ kept = 0 /\ truncated = FALSE
          /\ emitted = <<>> /\ outcome = "none"
      BY DEF LineInit
    <3>2. emitted \in Seq(Line)
      BY <3>1
    <3> QED
      BY <1>3, <2>1, <3>1, <3>2 DEF LineTypeOK
<1>6. LinesFaithful
  BY <1>2 DEF LinesFaithful
<1> QED
  BY <1>5, <1>6 DEF LineInv

\* A fragment that does not end its line.
LEMMA FragmentPreserves ==
    ASSUME LineInv, Fragment
    PROVE  LineInv'
<1> DEFINE line == Extended(BufferSize)
<1>1. LineTypeOK /\ LinesFaithful
  BY DEF LineInv
<1>2. /\ ~AtEnd /\ ~WholeRest
      /\ kept' = line.length
      /\ truncated' = (line.truncated \/ line.length >= MaxLineBytes)
      /\ used' = used + BufferSize
      /\ UNCHANGED <<input, unended, broken, lazy, emitted, outcome>>
  BY DEF Fragment
<1>3. BufferSize \in Nat /\ MaxLineBytes \in Nat
  BY LogLinesAssumption DEF LogLinesAssumption
<1>4. /\ line.length = AtMost(used + BufferSize, MaxLineBytes)
      /\ line.truncated \in BOOLEAN /\ line.length \in Nat
      /\ used + BufferSize > MaxLineBytes => line.truncated
      /\ line.truncated => used + BufferSize >= MaxLineBytes
  BY <1>1, <1>3, ExtendedFacts DEF Line
<1>5. /\ Current \in 1..Len(input) /\ Rest \in Nat /\ used + Rest = input[Current]
      /\ used \in Nat
  BY <1>1, <1>2, RestType DEF LineTypeOK
<1>6. Rest >= BufferSize
  BY <1>2, <1>3, <1>5 DEF WholeRest
<1>7. /\ used' \in Nat /\ used' <= input[Current]
      /\ kept' \in Nat /\ kept' = AtMost(used', MaxLineBytes)
      /\ truncated' \in BOOLEAN
      /\ used' > MaxLineBytes => truncated'
      /\ truncated' => used' >= MaxLineBytes
  BY <1>2, <1>3, <1>4, <1>5, <1>6 DEF AtMost
<1>8. Current' = Current
  BY <1>2 DEF Current
<1>9. AtMost(used, MaxLineBytes)' = AtMost(used', MaxLineBytes)
  BY DEF AtMost
<1>10. LineTypeOK'
  BY <1>1, <1>2, <1>7, <1>8, <1>9 DEF LineTypeOK
<1>11. LinesFaithful'
  BY <1>1, <1>2 DEF LinesFaithful, AtMost
<1> QED
  BY <1>10, <1>11 DEF LineInv

\* A line handed on.
LEMMA EmitPreserves ==
    ASSUME LineInv, Emit
    PROVE  LineInv'
<1> DEFINE line == Extended(Rest)
<1>1. LineTypeOK /\ LinesFaithful
  BY DEF LineInv
<1>2. /\ ~AtEnd
      /\ emitted' = Append(emitted, line)
      /\ used' = 0 /\ kept' = 0 /\ truncated' = FALSE
      /\ UNCHANGED <<input, unended, broken, lazy, outcome>>
  BY DEF Emit
<1>3. /\ Current \in 1..Len(input) /\ Rest \in Nat /\ used + Rest = input[Current]
  BY <1>1, <1>2, RestType
<1>4. /\ line \in Line
      /\ line.length = AtMost(input[Current], MaxLineBytes)
      /\ input[Current] > MaxLineBytes => line.truncated
      /\ line.truncated => input[Current] >= MaxLineBytes
  BY <1>1, <1>3, ExtendedFacts
<1>5. /\ input \in Seq(Nat) /\ emitted \in Seq(Line) /\ MaxLineBytes \in Nat
  BY <1>1, InputType, LogLinesAssumption DEF LineTypeOK, LogLinesAssumption
<1>6. /\ emitted' \in Seq(Line)
      /\ Len(emitted') = Len(emitted) + 1
      /\ emitted'[Current] = line
      /\ \A i \in 1..Len(emitted) : emitted'[i] = emitted[i]
  BY <1>2, <1>4, <1>5 DEF Current
<1>7. /\ Current' = Current + 1
      /\ Current' <= Len(input) + 1
      /\ Current' <= Len(input) => 0 <= input[Current']
  <2>1. Current = Len(emitted) + 1 /\ Len(emitted) \in Nat
    BY <1>5 DEF Current
  <2>2. Current' = Current + 1
    BY <1>6, <2>1 DEF Current
  <2> QED
    BY <1>3, <1>5, <2>1, <2>2
<1>8. LineTypeOK'
  <2>1. /\ used' \in Nat /\ kept' \in Nat
        /\ AtMost(0, MaxLineBytes) = 0
        /\ ~(0 > MaxLineBytes)
    BY <1>2, <1>5 DEF AtMost
  <2>2. truncated' \in BOOLEAN
    BY <1>2
  <2> QED
    BY <1>1, <1>2, <1>6, <1>7, <2>1, <2>2 DEF LineTypeOK, AtMost
<1>9. LinesFaithful'
  <2> SUFFICES ASSUME NEW i \in DOMAIN emitted'
               PROVE  /\ emitted'[i].length = AtMost(input[i], MaxLineBytes)
                      /\ input[i] > MaxLineBytes => emitted'[i].truncated
                      /\ emitted'[i].truncated => input[i] >= MaxLineBytes
    BY <1>2 DEF LinesFaithful, AtMost
  <2>1. i \in 1..Len(emitted) \/ i = Current
    BY <1>5, <1>6 DEF Current
  <2>2. CASE i \in 1..Len(emitted)
    BY <1>1, <1>5, <1>6, <2>2 DEF LinesFaithful
  <2>3. CASE i = Current
    BY <1>4, <1>6, <2>3
  <2> QED
    BY <2>1, <2>2, <2>3
<1> QED
  BY <1>8, <1>9 DEF LineInv

\* The steps that end the call, and stuttering, touch nothing the invariant
\* speaks of but the outcome.
LEMMA EndPreserves ==
    ASSUME LineInv, EmitRefused \/ Finish \/ UNCHANGED lineVars
    PROVE  LineInv'
<1>1. /\ UNCHANGED <<input, unended, broken, lazy, used, kept, truncated, emitted>>
      /\ outcome' \in {"none", "end", "error"}
  BY DEF EmitRefused, Finish, lineVars, LineInv, LineTypeOK
<1>2. Current' = Current
  BY <1>1 DEF Current
<1>3. LineTypeOK'
  BY <1>1, <1>2 DEF LineInv, LineTypeOK, AtMost
<1>4. LinesFaithful'
  BY <1>1 DEF LineInv, LinesFaithful, AtMost
<1> QED
  BY <1>3, <1>4 DEF LineInv

LEMMA LineInductive == LineSpec => []LineInv
<1>1. LineInit => LineInv
  BY LineInitInductive
<1>2. LineInv /\ [LineNext]_lineVars => LineInv'
  BY FragmentPreserves, EmitPreserves, EndPreserves DEF LineNext
<1> QED
  BY <1>1, <1>2, PTL DEF LineSpec

\* Types, and what "line" and "truncated" say of the line under way.
THEOREM LineTypeCorrect == LineSpec => []LineTypeOK
<1>1. LineInv => LineTypeOK
  BY DEF LineInv
<1> QED
  BY <1>1, LineInductive, PTL

\* readBoundedLogLines hands on every line in its place, cut at the bound, and
\* marks each line that lost bytes, whatever the bound and the buffer size.
THEOREM LinesAlwaysFaithful == LineSpec => []LinesFaithful
<1>1. LineInv => LinesFaithful
  BY DEF LineInv
<1> QED
  BY <1>1, LineInductive, PTL

\* Neither the slice it keeps nor a line it hands on outgrows the bound.
THEOREM AlwaysBounded == LineSpec => []Bounded
<1>1. LineInv => Bounded
  <2> SUFFICES ASSUME LineInv PROVE Bounded
    OBVIOUS
  <2>1. MaxLineBytes \in Nat /\ used \in Nat /\ kept = AtMost(used, MaxLineBytes)
    BY LogLinesAssumption DEF LogLinesAssumption, LineInv, LineTypeOK
  <2>2. kept <= MaxLineBytes
    BY <2>1 DEF AtMost
  <2>3. ASSUME NEW i \in DOMAIN emitted
        PROVE  emitted[i].length <= MaxLineBytes
    <3>1. input \in Seq(Nat) /\ emitted \in Seq(Line) /\ Len(emitted) <= Len(input)
      BY InputType DEF LineInv, LineTypeOK, Current
    <3>2. input[i] \in Nat
      BY <3>1
    <3> QED
      BY <2>1, <3>2 DEF LineInv, LinesFaithful, AtMost
  <2> QED
    BY <2>2, <2>3 DEF Bounded
<1> QED
  BY <1>1, LineInductive, PTL

\* A call that returns without an error has handed on every line that ends in a
\* newline.
THEOREM EndedLinesAlwaysEmitted == LineSpec => []EndedLinesAllEmitted
<1> DEFINE J == outcome = "end" => AtEnd
<1>1. LineInit => J
  BY DEF LineInit
<1>2. LineInv /\ J /\ [LineNext]_lineVars => J'
  <2> SUFFICES ASSUME LineInv, J, [LineNext]_lineVars PROVE J'
    OBVIOUS
  <2>1. CASE Fragment
    BY <2>1 DEF Fragment
  <2>2. CASE Emit
    BY <2>2 DEF Emit
  <2>3. CASE EmitRefused
    BY <2>3 DEF EmitRefused
  <2>4. CASE Finish
    BY <2>4 DEF Finish, AtEnd, Current, IsLast, Rest
  <2>5. CASE UNCHANGED lineVars
    BY <2>5 DEF lineVars, AtEnd, Current, IsLast, Rest
  <2> QED
    BY <2>1, <2>2, <2>3, <2>4, <2>5 DEF LineNext
<1>3. LineInv /\ J => EndedLinesAllEmitted
  <2> SUFFICES ASSUME LineInv, J, outcome = "end"
               PROVE  Len(emitted) >= Len(input) - (IF unended /\ Len(input) > 0 THEN 1 ELSE 0)
    BY DEF EndedLinesAllEmitted
  <2>1. input \in Seq(Nat) /\ emitted \in Seq(Line)
    BY InputType DEF LineInv, LineTypeOK
  <2>2. Len(input) \in Nat /\ Len(emitted) \in Nat
    BY <2>1
  <2>3. Current > Len(input) \/ (Current = Len(input) /\ unended)
    BY DEF AtEnd, IsLast
  <2> QED
    BY <2>2, <2>3 DEF Current
<1> QED
  BY <1>1, <1>2, <1>3, LineInductive, PTL DEF LineSpec

-----------------------------------------------------------------------------
(* A last line without a newline.                                          *)

LEMMA MultipleFacts ==
    ASSUME NEW b \in Nat \ {0}, NEW k \in Nat
    PROVE  /\ k * b \in Nat
           /\ k * b + b = (k + 1) * b
           /\ (k * b) % b = 0
<1>1. k * b \in Nat /\ k * b + b = (k + 1) * b
  OBVIOUS
<1>2. PICK q \in Nat, r \in 0..(b - 1) : k * b = b * q + r /\ (k * b) % b = r
  OBVIOUS
<1>3. CASE k > q
  <2>1. PICK d \in Nat : k = q + 1 + d
    <3>1. k - q - 1 \in Nat /\ k = q + 1 + (k - q - 1)
      BY <1>3
    <3> QED
      BY <3>1
  <2>2. k * b = b * q + b + d * b /\ d * b \in Nat
    BY <2>1
  <2> QED
    BY <1>2, <2>2
<1>4. CASE k < q
  <2>1. PICK d \in Nat : q = k + 1 + d
    <3>1. q - k - 1 \in Nat /\ q = k + 1 + (q - k - 1)
      BY <1>4
    <3> QED
      BY <3>1
  <2>2. b * q = k * b + b + d * b /\ d * b \in Nat
    BY <2>1
  <2> QED
    BY <1>2, <2>2
<1>5. CASE k = q
  BY <1>1, <1>2, <1>5
<1> QED
  BY <1>1, <1>3, <1>4, <1>5

\* Of a line under way only whole buffers were consumed.
WholeBuffers == \E k \in Nat : used = k * BufferSize

\* A call that returns without an error has handed on a last line without a newline
\* too, unless it fills the buffer to the brim.
THEOREM UnendedLineAlwaysEmitted == LineSpec => []UnendedLineEmitted
<1> DEFINE J == /\ WholeBuffers
                /\ outcome = "end" => AtEnd
<1>0. BufferSize \in Nat \ {0}
  BY LogLinesAssumption DEF LogLinesAssumption
<1>1. LineInit => J
  <2>1. 0 = 0 * BufferSize
    BY <1>0
  <2> QED
    BY <2>1 DEF LineInit, WholeBuffers
<1>2. LineInv /\ J /\ [LineNext]_lineVars => J'
  <2> SUFFICES ASSUME LineInv, J, [LineNext]_lineVars PROVE J'
    OBVIOUS
  <2>1. CASE Fragment
    <3>1. PICK k \in Nat : used = k * BufferSize
      BY DEF WholeBuffers
    <3>2. used' = (k + 1) * BufferSize /\ k + 1 \in Nat
      BY <1>0, <2>1, <3>1, MultipleFacts DEF Fragment
    <3> QED
      BY <2>1, <3>2 DEF Fragment, WholeBuffers
  <2>2. CASE Emit
    <3>1. 0 = 0 * BufferSize
      BY <1>0
    <3> QED
      BY <2>2, <3>1 DEF Emit, WholeBuffers
  <2>3. CASE EmitRefused
    BY <2>3 DEF EmitRefused, WholeBuffers
  <2>4. CASE Finish
    BY <2>4 DEF Finish, WholeBuffers, AtEnd, Current, IsLast, Rest
  <2>5. CASE UNCHANGED lineVars
    BY <2>5 DEF lineVars, WholeBuffers, AtEnd, Current, IsLast, Rest
  <2> QED
    BY <2>1, <2>2, <2>3, <2>4, <2>5 DEF LineNext
<1>3. LineInv /\ J => UnendedLineEmitted
  <2> SUFFICES ASSUME LineInv, J, outcome = "end", unended, Len(input) > 0,
                      input[Len(input)] % BufferSize # 0
               PROVE  Len(emitted) = Len(input)
    BY DEF UnendedLineEmitted
  <2>1. /\ input \in Seq(Nat) /\ emitted \in Seq(Line) /\ used \in Nat
        /\ Len(emitted) + 1 <= Len(input) + 1
    BY InputType DEF LineInv, LineTypeOK, Current
  <2>2. Len(input) \in Nat /\ Len(emitted) \in Nat
    BY <2>1
  <2>3. ~(IsLast /\ Rest = 0)
    <3> SUFFICES ASSUME IsLast, Rest = 0 PROVE FALSE
      OBVIOUS
    <3>1. Current = Len(input) /\ input[Current] \in Nat
      BY <2>1, <2>2 DEF IsLast
    <3>2. input[Len(input)] = used
      BY <2>1, <3>1 DEF Rest
    <3>3. PICK k \in Nat : used = k * BufferSize
      BY DEF WholeBuffers
    <3> QED
      BY <1>0, <3>2, <3>3, MultipleFacts
  <2>4. Current > Len(input)
    BY <2>3 DEF AtEnd
  <2> QED
    BY <2>1, <2>2, <2>4 DEF Current
<1> QED
  BY <1>1, <1>2, <1>3, LineInductive, PTL DEF LineSpec

-----------------------------------------------------------------------------
(* LogStream.                                                              *)

-----------------------------------------------------------------------------
(* Sequences as sets.                                                      *)

LEMMA AppendElements ==
    ASSUME NEW S, NEW q \in Seq(S), NEW e \in S
    PROVE  ToSet(Append(q, e)) = ToSet(q) \cup {e}
<1>1. Len(q) \in Nat /\ DOMAIN Append(q, e) = 1..(Len(q) + 1) /\ DOMAIN q = 1..Len(q)
  OBVIOUS
<1>2. \A i \in 1..Len(q) : Append(q, e)[i] = q[i]
  OBVIOUS
<1>3. Append(q, e)[Len(q) + 1] = e
  OBVIOUS
<1>4. 1..(Len(q) + 1) = (1..Len(q)) \cup {Len(q) + 1}
  BY <1>1
<1> QED
  BY <1>1, <1>2, <1>3, <1>4 DEF ToSet

LEMMA HeadTailElements ==
    ASSUME NEW S, NEW q \in Seq(S), q # <<>>
    PROVE  /\ ToSet(q) = {Head(q)} \cup ToSet(Tail(q))
           /\ Head(q) \in S
           /\ Tail(q) \in Seq(S)
           /\ Len(Tail(q)) = Len(q) - 1
<1>1. Len(q) \in Nat \ {0} /\ DOMAIN q = 1..Len(q)
  OBVIOUS
<1>2. DOMAIN Tail(q) = 1..(Len(q) - 1) /\ \A i \in 1..(Len(q) - 1) : Tail(q)[i] = q[i + 1]
  OBVIOUS
<1>3. Head(q) = q[1]
  OBVIOUS
<1>4. \A i \in 1..(Len(q) - 1) : i + 1 \in 1..Len(q)
  BY <1>1
<1>5. ToSet(q) = {q[i] : i \in 1..Len(q)}
  BY <1>1 DEF ToSet
<1>6. ToSet(Tail(q)) = {q[i + 1] : i \in 1..(Len(q) - 1)}
  BY <1>2 DEF ToSet
<1>7. ToSet(q) = {Head(q)} \cup ToSet(Tail(q))
  <2>1. ASSUME NEW x \in ToSet(q) PROVE x = Head(q) \/ x \in ToSet(Tail(q))
    <3>1. PICK i \in 1..Len(q) : x = q[i]
      BY <1>5, <2>1
    <3>2. CASE i = 1
      BY <1>3, <3>1, <3>2
    <3>3. CASE i # 1
      <4>1. i - 1 \in 1..(Len(q) - 1) /\ (i - 1) + 1 = i
        BY <1>1, <3>3
      <4> QED
        BY <1>6, <3>1, <4>1
    <3> QED
      BY <3>2, <3>3
  <2>2. Head(q) \in ToSet(q)
    BY <1>1, <1>3, <1>5
  <2>3. ToSet(Tail(q)) \subseteq ToSet(q)
    BY <1>4, <1>5, <1>6
  <2> QED
    BY <2>1, <2>2, <2>3
<1> QED
  BY <1>1, <1>7

LEMMA SourceFacts == Sources \subseteq Nat /\ Pods \in Nat /\ Lines \in Nat
BY LogStreamAssumption DEF Sources, LogStreamAssumption

-----------------------------------------------------------------------------
(* Types.                                                                  *)

LEMMA PushType ==
    ASSUME TypeOK, HasRoom, NEW s \in Sources, NEW m \in Failure..Lines, Push(s, m)
    PROVE  /\ chan' \in Seq(Event)
           /\ Len(chan') <= Capacity
           /\ ToSet(chan') = ToSet(chan) \cup {[source |-> s, item |-> m]}
<1>1. [source |-> s, item |-> m] \in Event
  BY DEF Event
<1>2. chan \in Seq(Event) /\ chan' = Append(chan, [source |-> s, item |-> m])
  BY DEF TypeOK, Push
<1>3. Len(chan') = Len(chan) + 1 /\ Len(chan) \in Nat /\ Capacity \in Nat
  BY <1>1, <1>2, LogStreamAssumption DEF LogStreamAssumption
<1> QED
  BY <1>1, <1>2, <1>3, AppendElements DEF HasRoom

LEMMA BecomeType ==
    ASSUME TypeOK, NEW s \in Sources, NEW state, Become(s, state),
           state \in {"reading", "holding", "failing", "done"},
           UNCHANGED <<ending, started>>,
           s <= started, ending[s] # "refused"
    PROVE  /\ reader' \in [Sources -> {"none", "reading", "holding", "failing", "done"}]
           /\ \A r \in Sources : reader'[r] # "none" => r <= started' /\ ending'[r] # "refused"
BY DEF TypeOK, Become

LEMMA SetUpType == TypeOK /\ SetUp => TypeOK'
<1> SUFFICES ASSUME TypeOK, SetUp PROVE TypeOK'
  OBVIOUS
<1> DEFINE s == started + 1
<1>1. s \in Sources /\ started \in Nat /\ started' = s
  BY SourceFacts DEF SetUp, TypeOK, Sources
<1>2. 0 \in Failure..Lines
  BY SourceFacts DEF Failure
<1>3. CASE ending[s] = "refused"
  <2>1. /\ HasRoom /\ Push(s, Failure) /\ handler' = "setup"
        /\ UNCHANGED <<reader, ending, read, closed, client, ctxDone, delivered, ended>>
    BY <1>3 DEF SetUp
  <2>2. chan' \in Seq(Event) /\ Len(chan') <= Capacity
    BY <1>1, <1>2, <2>1, PushType DEF Failure
  <2>3. \A r \in Sources : r <= started => r <= started'
    BY <1>1, SourceFacts
  <2>4. started' \in 0..Pods
    BY <1>1, SourceFacts DEF Sources
  <2> QED
    BY <2>1, <2>2, <2>3, <2>4 DEF TypeOK
<1>4. CASE ending[s] # "refused"
  <2>1. /\ reader' = [reader EXCEPT ![s] = "reading"] /\ handler' = "setup"
        /\ UNCHANGED <<chan, ending, read, closed, client, ctxDone, delivered, ended>>
    BY <1>4 DEF SetUp, Become
  <2>2. \A r \in Sources : r <= started => r <= started'
    BY <1>1, SourceFacts
  <2>3. started' \in 0..Pods
    BY <1>1, SourceFacts DEF Sources
  <2>4. reader' \in [Sources -> {"none", "reading", "holding", "failing", "done"}]
    BY <1>1, <2>1 DEF TypeOK
  <2>5. \A r \in Sources : reader'[r] # "none" => r <= started' /\ ending'[r] # "refused"
    BY <1>1, <1>4, <2>1, <2>2, SourceFacts DEF TypeOK
  <2> QED
    BY <2>1, <2>3, <2>4, <2>5 DEF TypeOK
<1> QED
  BY <1>3, <1>4

LEMMA ReaderType ==
    ASSUME TypeOK, NEW s \in Sources, Reader(s)
    PROVE  TypeOK'
<1>1. reader[s] # "none" /\ s <= started /\ ending[s] # "refused"
  BY DEF TypeOK, Reader, ReadLine, ReadEnd, ReadAborted, Send, GiveUp
<1>2. CASE ReadLine(s)
  <2>1. read' \in [Sources -> 0..Lines]
    BY <1>2, SourceFacts DEF ReadLine, TypeOK
  <2> QED
    BY <1>1, <1>2, <2>1, BecomeType DEF ReadLine, TypeOK
<1>3. CASE ReadEnd(s)
  BY <1>1, <1>3, BecomeType DEF ReadEnd, TypeOK
<1>4. CASE ReadAborted(s)
  BY <1>1, <1>4, BecomeType DEF ReadAborted, TypeOK
<1>5. CASE Send(s)
  <2>1. \E m \in Failure..Lines : Push(s, m)
    BY <1>5, SourceFacts DEF Send, TypeOK, Failure
  <2>2. chan' \in Seq(Event) /\ Len(chan') <= Capacity
    BY <1>5, <2>1, PushType DEF Send
  <2> QED
    BY <1>1, <1>5, <2>2, BecomeType DEF Send, TypeOK
<1>6. CASE GiveUp(s)
  BY <1>1, <1>6, BecomeType DEF GiveUp, TypeOK
<1> QED
  BY <1>2, <1>3, <1>4, <1>5, <1>6 DEF Reader

\* What a receive does to the channel and to what the client has.
LEMMA ReceiveFacts ==
    ASSUME TypeOK, Receive
    PROVE  /\ chan' \in Seq(Event) /\ Len(chan') <= Capacity
           /\ delivered' \in Seq(Event)
           /\ client = "here" =>
                  ToSet(delivered') \cup ToSet(chan') = ToSet(delivered) \cup ToSet(chan)
<1>1. chan \in Seq(Event) /\ delivered \in Seq(Event) /\ chan # <<>> /\ chan' = Tail(chan)
  BY DEF TypeOK, Receive
<1>2. Head(chan) \in Event /\ Tail(chan) \in Seq(Event) /\ Len(Tail(chan)) = Len(chan) - 1
      /\ ToSet(chan) = {Head(chan)} \cup ToSet(Tail(chan))
  BY <1>1, HeadTailElements
<1>3. Len(chan) \in Nat /\ Len(chan) <= Capacity /\ Capacity \in Nat
  BY <1>1, LogStreamAssumption DEF TypeOK, LogStreamAssumption
<1>4. delivered' = delivered \/ delivered' = Append(delivered, Head(chan))
  BY DEF Receive
<1>5. Append(delivered, Head(chan)) \in Seq(Event)
      /\ ToSet(Append(delivered, Head(chan))) = ToSet(delivered) \cup {Head(chan)}
  BY <1>1, <1>2, AppendElements
<1>6. client = "here" => delivered' = Append(delivered, Head(chan))
  BY DEF Receive
<1>7. chan' \in Seq(Event) /\ Len(chan') <= Capacity
  BY <1>1, <1>2, <1>3
<1>8. delivered' \in Seq(Event)
  BY <1>1, <1>4, <1>5
<1>9. client = "here" => ToSet(delivered') \cup ToSet(chan') = ToSet(delivered) \cup ToSet(chan)
  <2> DEFINE D == ToSet(delivered)
             T == ToSet(Tail(chan))
  <2> SUFFICES ASSUME client = "here" PROVE (D \cup {Head(chan)}) \cup T = D \cup ({Head(chan)} \cup T)
    BY <1>1, <1>2, <1>5, <1>6
  <2> QED
    OBVIOUS
<1> QED
  BY <1>7, <1>8, <1>9

\* Every variable keeps its type, and readers run only for sources that were set
\* up and not refused.
THEOREM TypeCorrect == Spec => []TypeOK
<1>1. Init => TypeOK
  <2> SUFFICES ASSUME Init PROVE TypeOK
    OBVIOUS
  <2>1. Len(chan) <= Capacity /\ chan \in Seq(Event) /\ delivered \in Seq(Event)
    BY LogStreamAssumption DEF Init, LogStreamAssumption
  <2>2. started \in 0..Pods /\ 0 \in 0..Lines
    BY SourceFacts DEF Init
  <2>3. read \in [Sources -> 0..Lines]
    BY <2>2 DEF Init
  <2>4. reader \in [Sources -> {"none", "reading", "holding", "failing", "done"}]
    BY DEF Init
  <2>5. \A s \in Sources : reader[s] = "none"
    BY DEF Init
  <2> QED
    BY <2>1, <2>2, <2>3, <2>4, <2>5 DEF Init, TypeOK
<1>2. TypeOK /\ [Next]_vars => TypeOK'
  <2> SUFFICES ASSUME TypeOK, [Next]_vars PROVE TypeOK'
    OBVIOUS
  <2>1. ASSUME NEW s \in Sources, Reader(s) PROVE TypeOK'
    BY <2>1, ReaderType
  <2>2. CASE SetUp
    BY <2>2, SetUpType
  <2>3. CASE StartServing
    BY <2>3 DEF StartServing, TypeOK
  <2>4. CASE Receive
    BY <2>4, ReceiveFacts DEF Receive, TypeOK
  <2>5. CASE ReceiveEnd
    BY <2>5 DEF ReceiveEnd, TypeOK
  <2>6. CASE Leave
    BY <2>6 DEF Leave, TypeOK
  <2>7. CASE Return
    BY <2>7 DEF Return, TypeOK
  <2>8. CASE Close
    BY <2>8 DEF Close, TypeOK
  <2>9. CASE ClientLeaves \/ NoticeLeave
    BY <2>9 DEF ClientLeaves, NoticeLeave, TypeOK
  <2>10. CASE UNCHANGED vars
    BY <2>10 DEF vars, TypeOK
  <2> QED
    BY <2>1, <2>2, <2>3, <2>4, <2>5, <2>6, <2>7, <2>8, <2>9, <2>10 DEF Next, Handler
<1> QED
  BY <1>1, <1>2, PTL DEF Spec

-----------------------------------------------------------------------------
(* The closer.                                                             *)

CloseInv == NoSendAfterClose /\ (closed => handler # "setup")

\* Closing waits for the set-up, which alone starts readers, and for the readers:
\* nothing is ever sent on the closed channel.
THEOREM NeverSendsAfterClose == Spec => []NoSendAfterClose
<1>1. Init => CloseInv
  BY DEF Init, CloseInv, NoSendAfterClose
<1>2. TypeOK /\ CloseInv /\ [Next]_vars => CloseInv'
  <2> SUFFICES ASSUME TypeOK, CloseInv, [Next]_vars PROVE CloseInv'
    OBVIOUS
  <2> USE DEF CloseInv, NoSendAfterClose
  <2>1. ASSUME NEW s \in Sources, Reader(s) PROVE CloseInv'
    <3>1. reader[s] \notin {"none", "done"} /\ closed' = closed
      BY <2>1 DEF Reader, ReadLine, ReadEnd, ReadAborted, Send, GiveUp
    <3> QED
      BY <3>1
  <2>2. CASE SetUp
    BY <2>2 DEF SetUp
  <2>3. CASE StartServing
    BY <2>3 DEF StartServing
  <2>4. CASE Receive
    BY <2>4 DEF Receive
  <2>5. CASE ReceiveEnd
    BY <2>5 DEF ReceiveEnd
  <2>6. CASE Leave \/ Return
    BY <2>6 DEF Leave, Return
  <2>7. CASE Close
    BY <2>7 DEF Close
  <2>8. CASE ClientLeaves \/ NoticeLeave
    BY <2>8 DEF ClientLeaves, NoticeLeave
  <2>9. CASE UNCHANGED vars
    BY <2>9 DEF vars
  <2> QED
    BY <2>1, <2>2, <2>3, <2>4, <2>5, <2>6, <2>7, <2>8, <2>9 DEF Next, Handler
<1>3. CloseInv => NoSendAfterClose
  BY DEF CloseInv
<1> QED
  BY <1>1, <1>2, <1>3, TypeCorrect, PTL DEF Spec

-----------------------------------------------------------------------------
(* What is on its way or delivered, as long as nobody gave up: of each     *)
(* source, what its reader took from the stream.                           *)

Undisturbed == client = "here" /\ handler \in {"setup", "serving"}

Items == ToSet(delivered) \cup ToSet(chan)

Account(s) ==
    IF started < s THEN {}
    ELSE IF ending[s] = "refused" THEN {Failure}
    ELSE IF reader[s] = "done" /\ ending[s] = "fail" THEN {Failure} \cup 1..Lines
    ELSE 1..Taken(s)

Progress(s) ==
    /\ reader[s] = "none" => read[s] = 0 /\ (s <= started => ending[s] = "refused")
    /\ reader[s] = "holding" => read[s] > 0
    /\ reader[s] = "failing" => read[s] = Lines /\ ending[s] = "fail"
    /\ reader[s] = "done" => read[s] = Lines /\ ending[s] \in {"eof", "fail"}

Exact(s) ==
    \A m \in Failure..Lines : [source |-> s, item |-> m] \in Items <=> m \in Account(s)

Accounted == Undisturbed => ~ctxDone /\ \A s \in Sources : Progress(s) /\ Exact(s)

\* A source that a step does not touch keeps its account.
LEMMA Untouched ==
    ASSUME NEW s \in Sources, Progress(s), Exact(s),
           reader'[s] = reader[s], read'[s] = read[s], ending' = ending,
           s <= started <=> s <= started', started \in Nat, started' \in Nat,
           \A m \in Failure..Lines : [source |-> s, item |-> m] \in Items' <=>
                                     [source |-> s, item |-> m] \in Items
    PROVE  Progress(s)' /\ Exact(s)'
<1>1. started < s <=> started' < s
  BY SourceFacts
<1>2. Account(s)' = Account(s)
  BY <1>1 DEF Account, Taken
<1>3. Progress(s)'
  BY DEF Progress
<1> QED
  BY <1>2, <1>3 DEF Exact

LEMMA PushItems ==
    ASSUME TypeOK, HasRoom, NEW s \in Sources, NEW m \in Failure..Lines, Push(s, m),
           delivered' = delivered
    PROVE  Items' = Items \cup {[source |-> s, item |-> m]}
<1> DEFINE D == ToSet(delivered)
           C == ToSet(chan)
           E == {[source |-> s, item |-> m]}
<1>1. ToSet(chan)' = C \cup E
  BY PushType
<1>2. D \cup (C \cup E) = (D \cup C) \cup E
  OBVIOUS
<1> QED
  BY <1>1, <1>2 DEF Items

LEMMA SetUpAccounted ==
    ASSUME TypeOK, Accounted, Undisturbed, SetUp
    PROVE  \A s \in Sources : Progress(s)' /\ Exact(s)'
<1>0. PICK n \in Sources : n = started + 1
  BY SourceFacts DEF SetUp, TypeOK, Sources
<1>1. started \in Nat /\ n = started + 1 /\ started' = n /\ ending' = ending /\ read' = read
  BY <1>0, SourceFacts DEF SetUp, TypeOK
<1>2. \A s \in Sources : Progress(s) /\ Exact(s)
  BY DEF Accounted
<1>3. reader[n] = "none" /\ read[n] = 0
  BY <1>1, <1>2 DEF Progress, TypeOK
<1>4. \A m \in Failure..Lines : [source |-> n, item |-> m] \notin Items
  BY <1>1, <1>2 DEF Exact, Account
<1>5. 0 \in Failure..Lines
  BY SourceFacts DEF Failure
<1>6. CASE ending[n] = "refused"
  <2>1. reader' = reader /\ Items' = Items \cup {[source |-> n, item |-> Failure]}
    BY <1>1, <1>5, <1>6, PushItems DEF SetUp, Failure
  <2>2. Progress(n)'
    BY <1>1, <1>3, <1>6, <2>1 DEF Progress
  <2>3. Account(n)' = {Failure}
    BY <1>1, <1>6 DEF Account
  <2>4. Exact(n)'
    <3> SUFFICES ASSUME NEW m \in Failure..Lines
                 PROVE  [source |-> n, item |-> m] \in Items' <=> m = Failure
      BY <2>3 DEF Exact
    <3> QED
      BY <1>4, <2>1
  <2>5. ASSUME NEW s \in Sources, s # n PROVE Progress(s)' /\ Exact(s)'
    <3>1. \A m \in Failure..Lines : [source |-> s, item |-> m] \in Items' <=>
                                    [source |-> s, item |-> m] \in Items
      BY <2>1, <2>5
    <3> QED
      BY <1>1, <1>2, <2>1, <2>5, <3>1, Untouched, SourceFacts
  <2> QED
    BY <2>2, <2>4, <2>5
<1>7. CASE ending[n] # "refused"
  <2>1. reader' = [reader EXCEPT ![n] = "reading"] /\ Items' = Items
    BY <1>1, <1>7 DEF SetUp, Become, Items
  <2>2. reader'[n] = "reading" /\ \A s \in Sources : s # n => reader'[s] = reader[s]
    BY <1>1, <2>1 DEF TypeOK
  <2>3. Progress(n)'
    BY <2>2 DEF Progress
  <2>4. Account(n)' = {}
    BY <1>1, <1>3, <1>7, <2>2 DEF Account, Taken
  <2>5. Exact(n)'
    BY <1>4, <2>1, <2>4 DEF Exact
  <2>6. ASSUME NEW s \in Sources, s # n PROVE Progress(s)' /\ Exact(s)'
    BY <1>1, <1>2, <2>1, <2>2, <2>6, Untouched, SourceFacts
  <2> QED
    BY <2>3, <2>5, <2>6
<1> QED
  BY <1>6, <1>7

\* A reader's step accounts for its own source: a line it takes is its to send, one
\* it sends is in the channel.
LEMMA ReaderAccounted ==
    ASSUME TypeOK, Accounted, Undisturbed, NEW s \in Sources, Reader(s)
    PROVE  \A r \in Sources : Progress(r)' /\ Exact(r)'
<1>1. \A r \in Sources : Progress(r) /\ Exact(r)
  BY DEF Accounted
<1>2. /\ ~ctxDone /\ handler \notin {"closing", "returned"}
      /\ s <= started /\ ending[s] # "refused" /\ reader[s] \notin {"none", "done"}
  BY DEF Accounted, Undisturbed, TypeOK, Reader, ReadLine, ReadEnd, ReadAborted, Send, GiveUp
<1>3. /\ ending' = ending /\ started' = started /\ delivered' = delivered
      /\ started \in Nat /\ s \in Nat /\ Lines \in Nat
      /\ read[s] \in 0..Lines
      /\ \A r \in Sources : r # s => reader'[r] = reader[r] /\ read'[r] = read[r]
  BY SourceFacts DEF TypeOK, Reader, ReadLine, ReadEnd, ReadAborted, Send, GiveUp, Become
<1>4. ~(started < s)
  BY <1>2, <1>3
<1>5. \A m \in Failure..Lines : [source |-> s, item |-> m] \in Items <=> m \in Account(s)
  BY <1>1 DEF Exact
<1>6. ASSUME NEW r \in Sources, r # s, Items' = Items
      PROVE  Progress(r)' /\ Exact(r)'
  BY <1>1, <1>3, <1>6, Untouched
<1>7. CASE ReadLine(s)
  <2>1. /\ reader[s] = "reading" /\ reader'[s] = "holding" /\ read'[s] = read[s] + 1
        /\ Items' = Items
    BY <1>7 DEF ReadLine, Become, TypeOK, Items
  <2>2. Account(s)' = Account(s)
    BY <1>2, <1>3, <1>4, <2>1 DEF Account, Taken
  <2>3. Progress(s)' /\ Exact(s)'
    BY <1>3, <1>5, <2>1, <2>2 DEF Progress, Exact
  <2> QED
    BY <1>6, <2>1, <2>3
<1>8. CASE ReadEnd(s)
  <2>1. /\ reader[s] = "reading" /\ read[s] = Lines /\ read' = read /\ Items' = Items
        /\ \/ ending[s] = "eof" /\ reader'[s] = "done"
           \/ ending[s] = "fail" /\ reader'[s] = "failing"
    BY <1>8 DEF ReadEnd, Become, TypeOK, Items
  <2>2. Account(s)' = Account(s)
    BY <1>2, <1>3, <1>4, <2>1 DEF Account, Taken
  <2>3. Progress(s)' /\ Exact(s)'
    BY <1>3, <1>5, <2>1, <2>2 DEF Progress, Exact
  <2> QED
    BY <1>6, <2>1, <2>3
<1>9. CASE Send(s)
  <2>1. ASSUME NEW r \in Sources, r # s, NEW k \in Failure..Lines,
               Items' = Items \cup {[source |-> s, item |-> k]}
        PROVE  Progress(r)' /\ Exact(r)'
    <3>1. \A m \in Failure..Lines : [source |-> r, item |-> m] \in Items' <=>
                                    [source |-> r, item |-> m] \in Items
      BY <2>1
    <3> QED
      BY <1>1, <1>3, <2>1, <3>1, Untouched
  <2>2. CASE reader[s] = "holding"
    <3>1. /\ reader'[s] = "reading" /\ read' = read /\ HasRoom /\ Push(s, read[s])
      BY <1>9, <2>2 DEF Send, Become, TypeOK
    <3>2. read[s] > 0 /\ read[s] \in Failure..Lines
      BY <1>1, <1>3, <2>2 DEF Progress, Failure
    <3>3. Items' = Items \cup {[source |-> s, item |-> read[s]]}
      BY <1>3, <3>1, <3>2, PushItems
    <3>4. Account(s) = 1..(read[s] - 1) /\ Account(s)' = 1..read[s]
      BY <1>2, <1>3, <1>4, <2>2, <3>1 DEF Account, Taken
    <3>5. \A m \in Failure..Lines : m \in 1..read[s] <=> m \in 1..(read[s] - 1) \/ m = read[s]
      BY <1>3, <3>2 DEF Failure
    <3>6. Exact(s)'
      <4> SUFFICES ASSUME NEW m \in Failure..Lines
                   PROVE  [source |-> s, item |-> m] \in Items' <=> m \in 1..read[s]
        BY <3>4 DEF Exact
      <4> QED
        BY <1>5, <3>3, <3>4, <3>5
    <3>7. Progress(s)'
      BY <3>1 DEF Progress
    <3> QED
      BY <2>1, <3>2, <3>3, <3>6, <3>7
  <2>3. CASE reader[s] = "failing"
    <3>1. /\ reader'[s] = "done" /\ read' = read /\ HasRoom /\ Push(s, Failure)
          /\ read[s] = Lines /\ ending[s] = "fail"
      BY <1>1, <1>9, <2>3 DEF Send, Become, TypeOK, Progress
    <3>2. Failure \in Failure..Lines
      BY <1>3 DEF Failure
    <3>3. Items' = Items \cup {[source |-> s, item |-> Failure]}
      BY <1>3, <3>1, <3>2, PushItems
    <3>4. Account(s) = 1..Lines /\ Account(s)' = {Failure} \cup 1..Lines
      BY <1>2, <1>3, <1>4, <2>3, <3>1 DEF Account, Taken
    <3>5. Exact(s)'
      <4> SUFFICES ASSUME NEW m \in Failure..Lines
                   PROVE  [source |-> s, item |-> m] \in Items' <=> m \in {Failure} \cup 1..Lines
        BY <3>4 DEF Exact
      <4> QED
        BY <1>5, <3>3, <3>4
    <3>6. Progress(s)'
      BY <1>3, <3>1 DEF Progress
    <3> QED
      BY <2>1, <3>2, <3>3, <3>5, <3>6
  <2> QED
    BY <1>9, <2>2, <2>3 DEF Send
<1>10. ~ReadAborted(s) /\ ~GiveUp(s)
  BY <1>2 DEF ReadAborted, GiveUp
<1> QED
  BY <1>7, <1>8, <1>9, <1>10 DEF Reader

LEMMA InitAccounted == Init => Accounted
<1> SUFFICES ASSUME Init PROVE Accounted
  OBVIOUS
<1>1. Items = {}
  BY DEF Init, Items, ToSet
<1>2. \A s \in Sources : started < s
  BY DEF Init, Sources
<1>3. \A s \in Sources : ~(s <= started)
  BY <1>2, SourceFacts DEF Init
<1>4. \A s \in Sources : Exact(s)
  BY <1>1, <1>2 DEF Exact, Account
<1>5. \A s \in Sources : Progress(s)
  BY <1>3 DEF Init, Progress
<1> QED
  BY <1>4, <1>5 DEF Init, Accounted

LEMMA AccountedInductive == TypeOK /\ Accounted /\ [Next]_vars => Accounted'
<1> SUFFICES ASSUME TypeOK, Accounted, [Next]_vars, Undisturbed'
             PROVE  ~ctxDone' /\ \A s \in Sources : Progress(s)' /\ Exact(s)'
  BY DEF Accounted
<1>1. ASSUME Undisturbed, UNCHANGED <<ctxDone, reader, read, ending, started>>, Items' = Items
      PROVE  ~ctxDone' /\ \A s \in Sources : Progress(s)' /\ Exact(s)'
  <2>1. started \in Nat
    BY SourceFacts DEF TypeOK
  <2>2. \A s \in Sources : Progress(s)' /\ Exact(s)'
    BY <1>1, <2>1, Untouched DEF Accounted
  <2> QED
    BY <1>1, <2>2 DEF Accounted
<1>2. ASSUME NEW s \in Sources, Reader(s)
      PROVE  ~ctxDone' /\ \A r \in Sources : Progress(r)' /\ Exact(r)'
  <2>1. Undisturbed /\ ctxDone' = ctxDone
    BY <1>2 DEF Undisturbed, Reader, ReadLine, ReadEnd, ReadAborted, Send, GiveUp
  <2> QED
    BY <1>2, <2>1, ReaderAccounted DEF Accounted
<1>3. CASE SetUp
  <2>1. Undisturbed /\ ctxDone' = ctxDone
    BY <1>3 DEF Undisturbed, SetUp
  <2> QED
    BY <1>3, <2>1, SetUpAccounted DEF Accounted
<1>4. CASE StartServing \/ Close \/ UNCHANGED vars
  BY <1>1, <1>4 DEF StartServing, Close, vars, Undisturbed, Items
<1>5. CASE Receive
  <2>1. Undisturbed /\ UNCHANGED <<ctxDone, reader, read, ending, started>>
    BY <1>5 DEF Receive, Undisturbed
  <2>2. Items' = Items
    BY <1>5, <2>1, ReceiveFacts DEF Items, Undisturbed
  <2> QED
    BY <1>1, <2>1, <2>2
<1>6. CASE ReceiveEnd \/ Leave \/ Return \/ ClientLeaves \/ NoticeLeave
  BY <1>6 DEF ReceiveEnd, Leave, Return, ClientLeaves, NoticeLeave, Undisturbed
<1> QED
  BY <1>2, <1>3, <1>4, <1>5, <1>6 DEF Next, Handler

-----------------------------------------------------------------------------
(* The end event.                                                          *)

EndInv == EndIsComplete /\ (ended => handler \in {"closing", "returned"})

\* With the channel closed and empty, what was accounted for is what was delivered.
LEMMA EndOfAccount ==
    ASSUME TypeOK, Accounted, NoSendAfterClose, ReceiveEnd
    PROVE  EndInv'
<1>1. /\ handler' = "closing" /\ ended' = (client = "here")
      /\ delivered' = delivered /\ ending' = ending
      /\ handler = "serving" /\ chan = <<>> /\ closed
  BY DEF ReceiveEnd
<1> SUFFICES ASSUME client = "here" PROVE EndIsComplete'
  BY <1>1 DEF EndInv, EndIsComplete
<1>2. \A s \in Sources : Progress(s) /\ Exact(s)
  BY <1>1 DEF Accounted, Undisturbed
<1>3. Items = ToSet(delivered) /\ ToSet(delivered) \subseteq Event
  BY <1>1 DEF Items, ToSet, TypeOK
<1> SUFFICES ASSUME NEW s \in Sources
             PROVE  LET mine == {e.item : e \in {f \in ToSet(delivered) : f.source = s}}
                    IN  CASE ending[s] = "refused" -> mine = {Failure}
                          [] ending[s] = "fail"    -> mine = Failure..Lines
                          [] OTHER                 -> mine = 1..Lines /\ ending[s] = "eof"
  BY <1>1 DEF EndIsComplete
<1> DEFINE mine == {e.item : e \in {f \in ToSet(delivered) : f.source = s}}
<1>4. mine \subseteq Failure..Lines
  BY <1>3 DEF Event
<1>5. \A m \in Failure..Lines : m \in mine <=> [source |-> s, item |-> m] \in ToSet(delivered)
  BY <1>3 DEF Event
<1>6. Account(s) \subseteq Failure..Lines
  BY SourceFacts DEF Account, Taken, TypeOK, Failure
<1>7. mine = Account(s)
  BY <1>2, <1>3, <1>4, <1>5, <1>6 DEF Exact
<1>8. s <= started /\ ~(started < s)
  BY <1>1, SourceFacts DEF TypeOK, Sources
<1>9. reader[s] \in {"none", "done"}
  BY <1>1 DEF NoSendAfterClose
<1>10. CASE ending[s] = "refused"
  BY <1>7, <1>8, <1>10 DEF Account
<1>11. CASE ending[s] # "refused"
  <2>1. reader[s] = "done" /\ read[s] = Lines /\ ending[s] \in {"eof", "fail"}
    BY <1>2, <1>8, <1>9, <1>11 DEF Progress
  <2>2. {Failure} \cup 1..Lines = Failure..Lines
    BY SourceFacts DEF Failure
  <2> QED
    BY <1>7, <1>8, <2>1, <2>2 DEF Account, Taken
<1> QED
  BY <1>10, <1>11

\* The end event is the last thing a client gets, and by then it has every line and
\* every error of every stream.
THEOREM EndAlwaysComplete == Spec => []EndIsComplete
<1>1. Init => EndInv
  BY DEF Init, EndInv, EndIsComplete
<1>2. TypeOK /\ Accounted /\ NoSendAfterClose /\ EndInv /\ [Next]_vars => EndInv'
  <2> SUFFICES ASSUME TypeOK, Accounted, NoSendAfterClose, EndInv, [Next]_vars PROVE EndInv'
    OBVIOUS
  <2>1. CASE ReceiveEnd
    BY <2>1, EndOfAccount
  <2>2. ASSUME UNCHANGED <<ended, delivered, ending>>,
               ended => handler' \in {"closing", "returned"}
        PROVE  EndInv'
    BY <2>2 DEF EndInv, EndIsComplete
  <2>3. ASSUME ~ended, ended' = ended PROVE EndInv'
    BY <2>3 DEF EndInv, EndIsComplete
  <2>4. ASSUME NEW s \in Sources, Reader(s) PROVE EndInv'
    BY <2>2, <2>4 DEF EndInv, Reader, ReadLine, ReadEnd, ReadAborted, Send, GiveUp
  <2>5. CASE SetUp \/ StartServing \/ Receive
    BY <2>3, <2>5 DEF EndInv, SetUp, StartServing, Receive
  <2>6. CASE Leave \/ Return \/ Close \/ ClientLeaves \/ NoticeLeave \/ UNCHANGED vars
    BY <2>2, <2>6 DEF EndInv, Leave, Return, Close, ClientLeaves, NoticeLeave, vars
  <2> QED
    BY <2>1, <2>4, <2>5, <2>6 DEF Next, Handler
<1>3. EndInv => EndIsComplete
  BY DEF EndInv
<1> QED
  BY <1>1, <1>2, <1>3, TypeCorrect, NeverSendsAfterClose, InitAccounted, AccountedInductive,
     PTL DEF Spec

-----------------------------------------------------------------------------
(* Order.                                                                  *)

Before(e, f) ==
    e.source = f.source => e.item # Failure /\ (f.item = Failure \/ e.item < f.item)

InOrder(q) == \A i, j \in DOMAIN q : i < j => Before(q[i], q[j])

LEMMA FlowElements ==
    ASSUME TypeOK
    PROVE  Flow \in Seq(Event) /\ ToSet(Flow) = Items
<1>1. delivered \in Seq(Event) /\ chan \in Seq(Event)
  BY DEF TypeOK
<1> DEFINE d == Len(delivered)
           c == Len(chan)
<1>2. /\ d \in Nat /\ c \in Nat
      /\ DOMAIN delivered = 1..d /\ DOMAIN chan = 1..c /\ DOMAIN Flow = 1..(d + c)
      /\ \A i \in 1..d : Flow[i] = delivered[i]
      /\ \A i \in 1..c : Flow[d + i] = chan[i]
  BY <1>1 DEF Flow
<1>3. Flow \in Seq(Event)
  BY <1>1 DEF Flow
<1>4. ASSUME NEW i \in 1..(d + c), i > d PROVE i - d \in 1..c /\ Flow[i] = chan[i - d]
  <2>1. i - d \in 1..c /\ d + (i - d) = i
    BY <1>2, <1>4
  <2> QED
    BY <1>2, <2>1
<1>5. \A i \in 1..d : i \in 1..(d + c)
  BY <1>2
<1>6. \A i \in 1..c : d + i \in 1..(d + c)
  BY <1>2
<1>7. \A i \in 1..(d + c) : i \in 1..d \/ i > d
  BY <1>2
<1>8. ToSet(Flow) = Items
  <2> HIDE DEF d, c
  <2>1. /\ ToSet(Flow) = {Flow[i] : i \in 1..(d + c)}
        /\ Items = {delivered[i] : i \in 1..d} \cup {chan[i] : i \in 1..c}
    BY <1>2 DEF ToSet, Items
  <2>2. ASSUME NEW i \in 1..(d + c) PROVE Flow[i] \in Items
    BY <1>2, <1>4, <1>7, <2>1
  <2>3. ASSUME NEW i \in 1..d PROVE delivered[i] \in ToSet(Flow)
    BY <1>2, <1>5, <2>1
  <2>4. ASSUME NEW i \in 1..c PROVE chan[i] \in ToSet(Flow)
    BY <1>2, <1>6, <2>1
  <2> QED
    BY <2>1, <2>2, <2>3, <2>4
<1> QED
  BY <1>3, <1>8

LEMMA AppendInOrder ==
    ASSUME NEW S, NEW q \in Seq(S), NEW e \in S, InOrder(q),
           \A f \in ToSet(q) : Before(f, e)
    PROVE  InOrder(Append(q, e))
<1> DEFINE r == Append(q, e)
           n == Len(q)
<1>1. /\ n \in Nat /\ DOMAIN q = 1..n /\ DOMAIN r = 1..(n + 1)
      /\ r[n + 1] = e /\ \A i \in 1..n : r[i] = q[i]
  OBVIOUS
<1>2. \A i \in 1..n : Before(q[i], e)
  BY <1>1 DEF ToSet
<1> SUFFICES ASSUME NEW i \in 1..(n + 1), NEW j \in 1..(n + 1), i < j
             PROVE  Before(r[i], r[j])
  BY <1>1 DEF InOrder
<1>3. i \in 1..n /\ r[i] = q[i]
  BY <1>1
<1>4. CASE j = n + 1
  BY <1>1, <1>2, <1>3, <1>4
<1>5. CASE j \in 1..n
  BY <1>1, <1>3, <1>5 DEF InOrder
<1> QED
  BY <1>1, <1>4, <1>5

LEMMA PushFlow ==
    ASSUME TypeOK, NEW s \in Sources, NEW m \in Failure..Lines, Push(s, m),
           delivered' = delivered
    PROVE  Flow' = Append(Flow, [source |-> s, item |-> m])
<1> DEFINE e == [source |-> s, item |-> m]
<1>1. delivered \in Seq(Event) /\ chan \in Seq(Event) /\ e \in Event
  BY DEF TypeOK, Event
<1>2. Flow' = delivered \o Append(chan, e)
  BY DEF Flow, Push
<1> HIDE DEF e
<1>3. delivered \o Append(chan, e) = Append(delivered \o chan, e)
  BY <1>1
<1> QED
  BY <1>2, <1>3 DEF Flow, e

LEMMA ReceiveFlow ==
    ASSUME TypeOK, Receive, client = "here"
    PROVE  Flow' = Flow
<1>1. delivered \in Seq(Event) /\ chan \in Seq(Event) /\ chan # <<>>
  BY DEF TypeOK, Receive
<1>2. delivered' = Append(delivered, Head(chan)) /\ chan' = Tail(chan)
  BY DEF Receive
<1>3. Append(delivered, Head(chan)) \o Tail(chan) = delivered \o chan
  BY <1>1
<1> QED
  BY <1>2, <1>3 DEF Flow

\* What a reader or the set-up sends comes after all it sent before.
LEMMA SentAfter ==
    ASSUME TypeOK, NEW s \in Sources, NEW m \in Failure..Lines, Exact(s),
           \A k \in Account(s) : k # Failure /\ (m = Failure \/ k < m)
    PROVE  \A f \in ToSet(Flow) : Before(f, [source |-> s, item |-> m])
<1> SUFFICES ASSUME NEW f \in Items, f.source = s
             PROVE  f.item # Failure /\ (m = Failure \/ f.item < m)
  BY FlowElements DEF Before
<1>1. f \in Event
  BY FlowElements, SourceFacts DEF ToSet
<1>2. f.item \in Failure..Lines /\ f = [source |-> s, item |-> f.item]
  BY <1>1 DEF Event
<1>3. f.item \in Account(s)
  BY <1>2 DEF Exact
<1> QED
  BY <1>3

-----------------------------------------------------------------------------
(* Nothing is lost, nothing is reordered.  The handler may be past its     *)
(* loop with the client still there and the context alive: then it has     *)
(* sent the end event, and no reader is left.                              *)

OrderInv ==
    client = "here" /\ ~ctxDone =>
        /\ handler # "returned"
        /\ handler = "closing" => closed
        /\ \A s \in Sources : Progress(s) /\ Exact(s)
        /\ InOrder(Flow)

LEMMA InitOrder == Init => OrderInv
<1> SUFFICES ASSUME Init PROVE OrderInv
  OBVIOUS
<1>1. \A s \in Sources : Progress(s) /\ Exact(s)
  BY InitAccounted DEF Accounted, Undisturbed, Init
<1>2. Flow = <<>>
  BY DEF Init, Flow
<1>3. InOrder(Flow)
  BY <1>2 DEF InOrder
<1> QED
  BY <1>1, <1>3 DEF Init, OrderInv

\* One more event keeps the order if it comes after what its source sent before.
LEMMA PushOrder ==
    ASSUME TypeOK, InOrder(Flow), NEW s \in Sources, NEW m \in Failure..Lines, Push(s, m),
           delivered' = delivered, Exact(s),
           \A k \in Account(s) : k # Failure /\ (m = Failure \/ k < m)
    PROVE  InOrder(Flow')
<1>1. [source |-> s, item |-> m] \in Event
  BY DEF Event
<1>2. Flow \in Seq(Event)
  BY FlowElements
<1>3. \A f \in ToSet(Flow) : Before(f, [source |-> s, item |-> m])
  BY SentAfter
<1>4. Flow' = Append(Flow, [source |-> s, item |-> m])
  BY PushFlow
<1>5. InOrder(Append(Flow, [source |-> s, item |-> m]))
  BY <1>1, <1>2, <1>3, AppendInOrder
<1> QED
  BY <1>4, <1>5

LEMMA SetUpOrder ==
    ASSUME TypeOK, SetUp, InOrder(Flow), \A s \in Sources : Exact(s)
    PROVE  InOrder(Flow')
<1>0. PICK s \in Sources : s = started + 1
  BY SourceFacts DEF SetUp, TypeOK, Sources
<1>1. started < s /\ delivered' = delivered
  BY <1>0, SourceFacts DEF SetUp, TypeOK
<1>2. CASE ending[s] = "refused"
  <2>1. Account(s) = {}
    BY <1>1 DEF Account
  <2>2. Push(s, Failure) /\ Failure \in Failure..Lines
    BY <1>0, <1>2, SourceFacts DEF SetUp, Failure
  <2> QED
    BY <1>1, <2>1, <2>2, PushOrder
<1>3. CASE ending[s] # "refused"
  BY <1>0, <1>1, <1>3 DEF SetUp, Flow
<1> QED
  BY <1>2, <1>3

LEMMA SendOrder ==
    ASSUME TypeOK, NEW s \in Sources, Send(s), InOrder(Flow), Progress(s), Exact(s)
    PROVE  InOrder(Flow')
<1>1. /\ delivered' = delivered /\ read[s] \in 0..Lines /\ Lines \in Nat
      /\ s <= started /\ ending[s] # "refused" /\ started \in Nat /\ s \in Nat
  BY SourceFacts DEF Send, TypeOK
<1>2. ~(started < s)
  BY <1>1
<1>3. CASE reader[s] = "holding"
  <2>1. Push(s, read[s]) /\ read[s] > 0 /\ read[s] \in Failure..Lines
    BY <1>1, <1>3 DEF Send, Progress, Failure
  <2>2. Account(s) = 1..(read[s] - 1)
    BY <1>1, <1>2, <1>3 DEF Account, Taken
  <2>3. \A k \in Account(s) : k # Failure /\ k < read[s]
    BY <1>1, <2>1, <2>2 DEF Failure
  <2> QED
    BY <1>1, <2>1, <2>3, PushOrder
<1>4. CASE reader[s] = "failing"
  <2>1. Push(s, Failure) /\ Failure \in Failure..Lines
    BY <1>1, <1>4 DEF Send, Failure
  <2>2. Account(s) = 1..read[s]
    BY <1>1, <1>2, <1>4 DEF Account, Taken
  <2>3. \A k \in Account(s) : k # Failure
    BY <1>1, <2>2 DEF Failure
  <2> QED
    BY <1>1, <2>1, <2>3, PushOrder
<1> QED
  BY <1>3, <1>4 DEF Send

LEMMA OrderInductive ==
    TypeOK /\ NoSendAfterClose /\ Accounted /\ Accounted' /\ OrderInv /\ [Next]_vars => OrderInv'
<1> SUFFICES ASSUME TypeOK, NoSendAfterClose, Accounted, Accounted', OrderInv, [Next]_vars,
                    client' = "here", ~ctxDone'
             PROVE  /\ handler' # "returned"
                    /\ handler' = "closing" => closed'
                    /\ \A s \in Sources : Progress(s)' /\ Exact(s)'
                    /\ InOrder(Flow')
  BY DEF OrderInv, InOrder
<1>1. client = "here" /\ ~ctxDone
  BY DEF Next, Reader, Handler, ReadLine, ReadEnd, ReadAborted, Send, GiveUp, SetUp, StartServing,
         Receive, ReceiveEnd, Leave, Return, Close, ClientLeaves, NoticeLeave, vars
<1>2. /\ handler # "returned" /\ (handler = "closing" => closed)
      /\ \A s \in Sources : Progress(s) /\ Exact(s)
      /\ InOrder(Flow)
  BY <1>1 DEF OrderInv
<1>3. handler' \in {"setup", "serving"} => \A s \in Sources : Progress(s)' /\ Exact(s)'
  BY DEF Accounted, Undisturbed
<1>4. CASE \E s \in Sources : Reader(s)
  <2>1. PICK s \in Sources : Reader(s)
    BY <1>4
  <2>2. handler' = handler /\ closed' = closed /\ reader[s] \notin {"none", "done"}
    BY <2>1 DEF Reader, ReadLine, ReadEnd, ReadAborted, Send, GiveUp
  <2>3. handler \in {"setup", "serving"}
    BY <1>2, <2>2 DEF NoSendAfterClose, TypeOK
  <2>4. CASE Send(s)
    BY <1>2, <1>3, <2>2, <2>3, <2>4, SendOrder
  <2>5. CASE ReadLine(s) \/ ReadEnd(s) \/ ReadAborted(s) \/ GiveUp(s)
    BY <1>2, <1>3, <2>2, <2>3, <2>5 DEF ReadLine, ReadEnd, ReadAborted, GiveUp, Flow
  <2> QED
    BY <2>1, <2>4, <2>5 DEF Reader
<1>5. CASE SetUp
  <2>1. handler' = "setup"
    BY <1>5 DEF SetUp
  <2> QED
    BY <1>2, <1>3, <1>5, <2>1, SetUpOrder
<1>6. CASE Receive
  <2>1. handler' = "serving"
    BY <1>1, <1>6 DEF Receive
  <2> QED
    BY <1>1, <1>2, <1>3, <1>6, <2>1, ReceiveFlow
<1>7. CASE StartServing
  <2>1. handler' = "serving" /\ Flow' = Flow
    BY <1>7 DEF StartServing, Flow
  <2> QED
    BY <1>2, <1>3, <2>1
<1>8. ASSUME UNCHANGED <<ending, started, reader, read, chan, delivered>>,
             handler' # "returned", handler' = "closing" => closed'
      PROVE  /\ \A s \in Sources : Progress(s)' /\ Exact(s)'
             /\ InOrder(Flow')
  <2>1. \A s \in Sources : Progress(s)' /\ Exact(s)'
    BY <1>2, <1>8 DEF Progress, Exact, Account, Taken, Items
  <2>2. Flow' = Flow
    BY <1>8 DEF Flow
  <2> QED
    BY <1>2, <2>1, <2>2
<1>9. CASE ReceiveEnd \/ Close \/ UNCHANGED vars
  <2>1. /\ UNCHANGED <<ending, started, reader, read, chan, delivered>>
        /\ handler' # "returned" /\ (handler' = "closing" => closed')
    BY <1>2, <1>9 DEF ReceiveEnd, Close, vars
  <2> QED
    BY <1>8, <2>1
<1>10. ~Leave /\ ~Return /\ ~ClientLeaves /\ ~NoticeLeave
  BY <1>1 DEF Leave, Return, ClientLeaves, NoticeLeave
<1> QED
  BY <1>4, <1>5, <1>6, <1>7, <1>9, <1>10 DEF Next, Handler

\* Exactness and order say what the property says.
LEMMA OrderImplies == TypeOK /\ OrderInv => NothingLostOrReordered
<1> SUFFICES ASSUME TypeOK, OrderInv, client = "here", ~ctxDone, NEW s \in Sources
             PROVE  /\ {Flow[i].item : i \in Sent(s)} \ {Failure} = 1..Taken(s)
                    /\ \A i, j \in Sent(s) : i < j =>
                          /\ Flow[i].item # Failure
                          /\ Flow[j].item = Failure \/ Flow[i].item < Flow[j].item
  BY DEF NothingLostOrReordered
<1>1. Progress(s) /\ Exact(s) /\ InOrder(Flow)
  BY DEF OrderInv
<1>2. Flow \in Seq(Event) /\ ToSet(Flow) = Items
  BY FlowElements
<1>3. \A i \in DOMAIN Flow : Flow[i] \in Event /\ Flow[i] \in Items
  BY <1>2 DEF ToSet
<1>4. \A f \in Items : \E i \in DOMAIN Flow : Flow[i] = f
  BY <1>2 DEF ToSet
<1>5. Account(s) \ {Failure} = 1..Taken(s)
  <2>1. read[s] \in Nat /\ Lines \in Nat /\ started \in Nat /\ s \in Nat
    BY SourceFacts DEF TypeOK
  <2>2. started < s \/ ending[s] = "refused" => reader[s] = "none" /\ read[s] = 0
    BY <1>1, <2>1 DEF TypeOK, Progress
  <2> QED
    BY <1>1, <2>1, <2>2 DEF Account, Taken, Progress, Failure
<1>6. Account(s) \subseteq Failure..Lines
  BY SourceFacts DEF Account, Taken, TypeOK, Failure
<1>7. \A i \in Sent(s) : Flow[i].item \in Account(s)
  BY <1>1, <1>3 DEF Exact, Sent, Event
<1>8. \A m \in Account(s) : \E i \in Sent(s) : Flow[i].item = m
  <2> TAKE m \in Account(s)
  <2>1. [source |-> s, item |-> m] \in Items
    BY <1>1, <1>6 DEF Exact
  <2>2. PICK i \in DOMAIN Flow : Flow[i] = [source |-> s, item |-> m]
    BY <1>4, <2>1
  <2>3. i \in Sent(s) /\ Flow[i].item = m
    BY <2>2 DEF Sent
  <2> QED
    BY <2>3
<1>9. {Flow[i].item : i \in Sent(s)} = Account(s)
  BY <1>7, <1>8
<1>10. \A i, j \in Sent(s) : i < j => Before(Flow[i], Flow[j]) /\ Flow[i].source = Flow[j].source
  BY <1>1 DEF InOrder, Sent
<1> QED
  BY <1>5, <1>9, <1>10 DEF Before

\* While the client is there, a full channel delays lines and errors, and neither
\* drops nor reorders any (readLogStream, serveLogStreams).
THEOREM NothingEverLostOrReordered == Spec => []NothingLostOrReordered
BY InitOrder, OrderInductive, OrderImplies, TypeCorrect, NeverSendsAfterClose, InitAccounted,
   AccountedInductive, PTL DEF Spec
=============================================================================
