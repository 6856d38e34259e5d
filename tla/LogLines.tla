------------------------------ MODULE LogLines ------------------------------
(***************************************************************************)
(* readBoundedLogLines: cutting a log stream into lines of bounded length  *)
(* through a buffered reader that hands out long lines in fragments.  A    *)
(* line is its length; its bytes do not matter.                            *)
(***************************************************************************)
EXTENDS Naturals, Sequences

CONSTANTS
    MaxLineBytes,   \* maxLogStreamLineBytes
    BufferSize,     \* of the bufio.Reader
    MaxLength,      \* bound on the lines of the input
    MaxLines        \* bound on their number

ASSUME LogLinesAssumption ==
    /\ MaxLineBytes \in Nat \ {0}
    /\ BufferSize \in Nat \ {0}
    /\ MaxLength \in Nat
    /\ MaxLines \in Nat

Inputs == UNION {[1..n -> 0..MaxLength] : n \in 0..MaxLines}
Line   == [length : Nat, truncated : BOOLEAN]

VARIABLES
    input,      \* the lengths of the stream's lines
    unended,    \* the last of them has no newline
    broken,     \* the stream ends in an error, not in an end of file
    lazy,       \* the stream reports its end after its last bytes, not with them
    used,       \* bytes consumed of line Len(emitted) + 1
    kept,       \* the length of the slice "line"
    truncated,
    emitted,
    outcome     \* of the call

lineVars == <<input, unended, broken, lazy, used, kept, truncated, emitted, outcome>>

Current == Len(emitted) + 1
IsLast  == Current = Len(input)
Rest    == input[Current] - used

AtMost(a, b) == IF a < b THEN a ELSE b

\* "line" holds the consumed bytes up to the bound.
LineTypeOK ==
    /\ input \in Inputs
    /\ unended \in BOOLEAN
    /\ broken \in BOOLEAN
    /\ lazy \in BOOLEAN
    /\ used \in Nat
    /\ kept \in Nat
    /\ truncated \in BOOLEAN
    /\ emitted \in Seq(Line)
    /\ outcome \in {"none", "end", "error"}
    /\ Current <= Len(input) + 1
    /\ Current <= Len(input) => used <= input[Current]
    /\ kept = AtMost(used, MaxLineBytes)
    /\ used > MaxLineBytes => truncated
    /\ truncated => used >= MaxLineBytes

LineInit ==
    /\ input \in Inputs
    /\ unended \in BOOLEAN
    /\ broken \in BOOLEAN
    /\ lazy \in BOOLEAN
    /\ used = 0
    /\ kept = 0
    /\ truncated = FALSE
    /\ emitted = <<>>
    /\ outcome = "none"

-----------------------------------------------------------------------------
(* What bufio.Reader.ReadLine returns.                                     *)

AtEnd == Current > Len(input) \/ (IsLast /\ unended /\ Rest = 0)

\* A newline is found as long as it lies within the buffer; the end of the stream
\* ends a line, unless the buffer is full before the end is seen.
WholeRest ==
    IF IsLast /\ unended
    THEN Rest < BufferSize \/ (Rest = BufferSize /\ ~lazy)
    ELSE Rest < BufferSize

-----------------------------------------------------------------------------
(* The loop body, by the outcome of ReadLine.                              *)

\* The slice and the flag once a fragment of n bytes is taken in.
Extended(n) ==
    IF truncated THEN [length |-> kept, truncated |-> TRUE]
    ELSE [length |-> AtMost(kept + n, MaxLineBytes), truncated |-> kept + n > MaxLineBytes]

\* A mistaken Fragment: a line that is too long ends the reader, as it ended the
\* bufio.Scanner used before.
FragmentGivingUp ==
    /\ outcome = "none"
    /\ ~AtEnd
    /\ ~WholeRest
    /\ LET line == Extended(BufferSize)
       IN  /\ kept' = line.length
           /\ truncated' = (line.truncated \/ line.length >= MaxLineBytes)
    /\ outcome' = IF truncated' THEN "end" ELSE "none"
    /\ used' = used + BufferSize
    /\ UNCHANGED <<input, unended, broken, lazy, emitted>>

\* A fragment that is not the end of its line; a slice that is full then counts
\* as cut.
Fragment ==
    /\ outcome = "none"
    /\ ~AtEnd
    /\ ~WholeRest
    /\ LET line == Extended(BufferSize)
       IN  /\ kept' = line.length
           /\ truncated' = (line.truncated \/ line.length >= MaxLineBytes)
    /\ used' = used + BufferSize
    /\ UNCHANGED <<input, unended, broken, lazy, emitted, outcome>>

EmitKeepingFlag ==
    /\ outcome = "none"
    /\ ~AtEnd
    /\ WholeRest
    /\ emitted' = Append(emitted, Extended(Rest))
    /\ kept' = 0
    /\ used' = 0
    /\ truncated' = Extended(Rest).truncated
    /\ UNCHANGED <<input, unended, broken, lazy, outcome>>

Emit ==
    /\ outcome = "none"
    /\ ~AtEnd
    /\ WholeRest
    /\ emitted' = Append(emitted, Extended(Rest))
    /\ used' = 0
    /\ kept' = 0
    /\ truncated' = FALSE
    /\ UNCHANGED <<input, unended, broken, lazy, outcome>>

\* Whatever was kept of an unfinished line goes with the end of the stream.
Finish ==
    /\ outcome = "none"
    /\ AtEnd
    /\ outcome' = IF broken THEN "error" ELSE "end"
    /\ UNCHANGED <<input, unended, broken, lazy, used, kept, truncated, emitted>>

\* The receiver of a line may refuse it, for its request is over.
EmitRefused ==
    /\ outcome = "none"
    /\ ~AtEnd
    /\ WholeRest
    /\ outcome' = "error"
    /\ UNCHANGED <<input, unended, broken, lazy, used, kept, truncated, emitted>>

LineNext == Fragment \/ Emit \/ EmitRefused \/ Finish
LineSpec == LineInit /\ [][LineNext]_lineVars

-----------------------------------------------------------------------------
(* Properties.                                                             *)

\* However long the lines are, no more than the bound is held in memory and none
\* longer than the bound is handed on.
Bounded ==
    /\ kept <= MaxLineBytes
    /\ \A i \in DOMAIN emitted : emitted[i].length <= MaxLineBytes

\* The k-th line handed on is the k-th of the stream, cut at the bound; a line
\* that lost bytes says so, and one that says so fills the bound.  A long line
\* harms none after it.
LinesFaithful ==
    \A i \in DOMAIN emitted :
        /\ emitted[i].length = AtMost(input[i], MaxLineBytes)
        /\ input[i] > MaxLineBytes => emitted[i].truncated
        /\ emitted[i].truncated => input[i] >= MaxLineBytes

\* Lines that end in a newline are all handed on before the call returns
\* without an error.
EndedLinesAllEmitted ==
    outcome = "end" => Len(emitted) >= Len(input) - (IF unended /\ Len(input) > 0 THEN 1 ELSE 0)

\* So is a last line without a newline, as log_stream_test.go expects ("after"),
\* unless it fills the buffer to the brim: then the reader cannot know yet that
\* it is the last, and what was kept of it goes with the end of the file.
UnendedLineEmitted ==
    outcome = "end" /\ unended /\ Len(input) > 0 /\ input[Len(input)] % BufferSize # 0
        => Len(emitted) = Len(input)
=============================================================================
