----------------------------- MODULE LogStream -----------------------------
(***************************************************************************)
(* Following logs: serveLogStreams fans the streams of a workload's pods   *)
(* into one bounded channel and from there to the client as server-sent    *)
(* events.  One goroutine reads each stream, one closes the channel, the   *)
(* handler starts them and then serves.                                    *)
(***************************************************************************)
EXTENDS Naturals, Sequences, SequencesExt

CONSTANTS
    Pods,       \* the number of streams, in the order they are set up
    Lines,      \* lines a stream holds
    Endings,    \* how the streams may turn out
    Capacity    \* of the channel

Sources == 1..Pods
Failure == 0    \* the event that carries an error instead of a line
Event   == [source : Sources, item : Failure..Lines]

\* "refused": there is no stream, only the error of opening it.
\* "follow": the pod lives on after its last line.
ASSUME LogStreamAssumption ==
    /\ Pods \in Nat \ {0}
    /\ Lines \in Nat
    /\ Endings \subseteq {"refused", "eof", "fail", "follow"}
    /\ Capacity \in Nat \ {0}
    /\ Capacity >= Pods

VARIABLES
    ending,     \* what becomes of each stream
    handler,    \* where serveLogStreams is
    started,    \* sources the set-up loop has dealt with
    reader,     \* the goroutine of each source
    read,       \* lines it has read
    chan,       \* the channel's buffer
    closed,     \* the channel is closed
    client,     \* the browser at the other end
    ctxDone,    \* the request's context is cancelled
    delivered,  \* events written while the client was there
    ended       \* the end event among them

vars == <<ending, handler, started, reader, read, chan, closed, client, ctxDone,
          delivered, ended>>

TypeOK ==
    /\ ending \in [Sources -> Endings]
    /\ handler \in {"setup", "serving", "closing", "returned"}
    /\ started \in 0..Pods
    /\ reader \in [Sources -> {"none", "reading", "holding", "failing", "done"}]
    /\ read \in [Sources -> 0..Lines]
    /\ chan \in Seq(Event)
    /\ Len(chan) <= Capacity
    /\ closed \in BOOLEAN
    /\ client \in {"here", "left"}
    /\ ctxDone \in BOOLEAN
    /\ delivered \in Seq(Event)
    /\ ended \in BOOLEAN
    /\ handler # "setup" => started = Pods
    /\ \A s \in Sources : reader[s] # "none" => s <= started /\ ending[s] # "refused"

Init ==
    /\ ending \in [Sources -> Endings]
    /\ handler = "setup"
    /\ started = 0
    /\ reader = [s \in Sources |-> "none"]
    /\ read = [s \in Sources |-> 0]
    /\ chan = <<>>
    /\ closed = FALSE
    /\ client = "here"
    /\ ctxDone = FALSE
    /\ delivered = <<>>
    /\ ended = FALSE

HasRoom == Len(chan) < Capacity
Push(s, item) == chan' = Append(chan, [source |-> s, item |-> item])
Become(s, state) == reader' = [reader EXCEPT ![s] = state]

-----------------------------------------------------------------------------
(* The handler sets the sources up.                                        *)

\* The send of a refused source's error waits for room, whatever the context.
SetUp ==
    /\ handler = "setup"
    /\ started < Pods
    /\ LET s == started + 1
       IN  IF ending[s] = "refused"
           THEN HasRoom /\ Push(s, Failure) /\ UNCHANGED reader
           ELSE Become(s, "reading") /\ UNCHANGED chan
    /\ started' = started + 1
    /\ UNCHANGED <<ending, handler, read, closed, client, ctxDone, delivered, ended>>

\* The closer is started, the loop entered.
StartServing ==
    /\ handler = "setup"
    /\ started = Pods
    /\ handler' = "serving"
    /\ UNCHANGED <<ending, started, reader, read, chan, closed, client, ctxDone,
                   delivered, ended>>

-----------------------------------------------------------------------------
(* A reader.                                                               *)

ReadLine(s) ==
    /\ reader[s] = "reading"
    /\ read[s] < Lines
    /\ read' = [read EXCEPT ![s] = @ + 1]
    /\ Become(s, "holding")
    /\ UNCHANGED <<ending, handler, started, chan, closed, client, ctxDone,
                   delivered, ended>>

\* The stream is over: an end of file ends the reader quietly.
ReadEnd(s) ==
    /\ reader[s] = "reading"
    /\ read[s] = Lines
    /\ \/ ending[s] = "eof" /\ Become(s, "done")
       \/ ending[s] = "fail" /\ Become(s, "failing")
    /\ UNCHANGED <<ending, handler, started, read, chan, closed, client, ctxDone,
                   delivered, ended>>

\* A read fails because the request is cancelled, or the handler closed the
\* stream; the error of the latter is one to report.
ReadAborted(s) ==
    /\ reader[s] = "reading"
    /\ \/ ctxDone /\ Become(s, "done")
       \/ handler \in {"closing", "returned"} /\ Become(s, "failing")
    /\ UNCHANGED <<ending, handler, started, read, chan, closed, client, ctxDone,
                   delivered, ended>>

\* A mistaken Send: a line that finds no room is dropped.
SendOrDrop(s) ==
    /\ \/ reader[s] = "holding" /\ Become(s, "reading")
       \/ reader[s] = "failing" /\ Become(s, "done")
    /\ IF HasRoom
       THEN Push(s, IF reader[s] = "holding" THEN read[s] ELSE Failure)
       ELSE UNCHANGED chan
    /\ UNCHANGED <<ending, handler, started, read, closed, client, ctxDone,
                   delivered, ended>>

Send(s) ==
    /\ HasRoom
    /\ \/ reader[s] = "holding" /\ Push(s, read[s]) /\ Become(s, "reading")
       \/ reader[s] = "failing" /\ Push(s, Failure) /\ Become(s, "done")
    /\ UNCHANGED <<ending, handler, started, read, closed, client, ctxDone,
                   delivered, ended>>

\* A mistaken GiveUp: an error is sent whether or not anybody receives it.
GiveUpLinesOnly(s) ==
    /\ ctxDone
    /\ reader[s] = "holding"
    /\ Become(s, "done")
    /\ UNCHANGED <<ending, handler, started, read, chan, closed, client, ctxDone,
                   delivered, ended>>

GiveUp(s) ==
    /\ ctxDone
    /\ reader[s] \in {"holding", "failing"}
    /\ Become(s, "done")
    /\ UNCHANGED <<ending, handler, started, read, chan, closed, client, ctxDone,
                   delivered, ended>>

-----------------------------------------------------------------------------
(* The closer and the handler's loop.                                      *)

\* Mistaken closers: one waits for the first reader only, one for a reader of
\* every source, the refused ones included.
CloseAfterFirst ==
    /\ handler # "setup"
    /\ ~closed
    /\ \E s \in Sources : reader[s] = "done"
    /\ closed' = TRUE
    /\ UNCHANGED <<ending, handler, started, reader, read, chan, client, ctxDone,
                   delivered, ended>>

CloseCountingRefused ==
    /\ handler # "setup"
    /\ ~closed
    /\ \A s \in Sources : reader[s] = "done"
    /\ closed' = TRUE
    /\ UNCHANGED <<ending, handler, started, reader, read, chan, client, ctxDone,
                   delivered, ended>>

Close ==
    /\ handler # "setup"
    /\ ~closed
    /\ \A s \in Sources : reader[s] \in {"none", "done"}
    /\ closed' = TRUE
    /\ UNCHANGED <<ending, handler, started, reader, read, chan, client, ctxDone,
                   delivered, ended>>

\* A write to a client that left may still succeed, into some buffer.
Receive ==
    /\ handler = "serving"
    /\ chan # <<>>
    /\ chan' = Tail(chan)
    /\ \/ delivered' = (IF client = "here" THEN Append(delivered, Head(chan)) ELSE delivered)
          /\ UNCHANGED handler
       \/ client = "left" /\ handler' = "closing" /\ UNCHANGED delivered
    /\ UNCHANGED <<ending, started, reader, read, closed, client, ctxDone, ended>>

ReceiveEnd ==
    /\ handler = "serving"
    /\ chan = <<>>
    /\ closed
    /\ ended' = (client = "here")
    /\ handler' = "closing"
    /\ UNCHANGED <<ending, started, reader, read, chan, closed, client, ctxDone, delivered>>

\* A heartbeat that cannot be written, or the end of the context.
Leave ==
    /\ handler = "serving"
    /\ client = "left" \/ ctxDone
    /\ handler' = "closing"
    /\ UNCHANGED <<ending, started, reader, read, chan, closed, client, ctxDone,
                   delivered, ended>>

\* The deferred calls: the streams are closed, then the context cancelled.
Return ==
    /\ handler = "closing"
    /\ handler' = "returned"
    /\ ctxDone' = TRUE
    /\ UNCHANGED <<ending, started, reader, read, chan, closed, client, delivered, ended>>

-----------------------------------------------------------------------------
(* The client: net/http cancels the request some time after it left.       *)

ClientLeaves ==
    /\ client = "here"
    /\ handler # "returned"
    /\ client' = "left"
    /\ UNCHANGED <<ending, handler, started, reader, read, chan, closed, ctxDone,
                   delivered, ended>>

NoticeLeave ==
    /\ client = "left"
    /\ ~ctxDone
    /\ ctxDone' = TRUE
    /\ UNCHANGED <<ending, handler, started, reader, read, chan, closed, client,
                   delivered, ended>>

-----------------------------------------------------------------------------
Reader(s) == ReadLine(s) \/ ReadEnd(s) \/ ReadAborted(s) \/ Send(s) \/ GiveUp(s)
Handler   == SetUp \/ StartServing \/ Receive \/ ReceiveEnd \/ Leave \/ Return

Next ==
    \/ \E s \in Sources : Reader(s)
    \/ Handler
    \/ Close
    \/ ClientLeaves
    \/ NoticeLeave

Spec == Init /\ [][Next]_vars

\* Goroutines are scheduled, streams deliver what they hold, net/http notices
\* a connection that is gone.  Nobody makes the client leave.
Fairness ==
    /\ \A s \in Sources : WF_vars(Reader(s))
    /\ WF_vars(Handler)
    /\ WF_vars(Close)
    /\ WF_vars(NoticeLeave)

FairSpec == Spec /\ Fairness

-----------------------------------------------------------------------------
(* Properties.                                                             *)

\* Nothing can be sent on a closed channel, which would end the process: the
\* closer closes after every reader has left the wait group.
NoSendAfterClose ==
    closed => \A s \in Sources : reader[s] \in {"none", "done"}

Flow    == delivered \o chan
Sent(s) == {i \in DOMAIN Flow : Flow[i].source = s}

\* The lines a reader has seen off: the one it holds is still to be sent.
Taken(s) == IF reader[s] = "holding" THEN read[s] - 1 ELSE read[s]

\* While the client is there, every line a reader took from its stream is on its
\* way or delivered, once and in the order it was read, and an error comes
\* after the lines: a full channel delays a line and never drops it.
NothingLostOrReordered ==
    client = "here" /\ ~ctxDone =>
        \A s \in Sources :
            /\ {Flow[i].item : i \in Sent(s)} \ {Failure} = 1..Taken(s)
            /\ \A i, j \in Sent(s) : i < j =>
                  /\ Flow[i].item # Failure
                  /\ Flow[j].item = Failure \/ Flow[i].item < Flow[j].item

\* The end event tells the whole story: the client has every line of every
\* stream, and the error of each stream that failed or was refused.
EndIsComplete ==
    ended =>
        \A s \in Sources :
            LET mine == {e.item : e \in {f \in ToSet(delivered) : f.source = s}}
            IN  CASE ending[s] = "refused" -> mine = {Failure}
                  [] ending[s] = "fail"    -> mine = Failure..Lines
                  [] OTHER                 -> mine = 1..Lines /\ ending[s] = "eof"

\* No goroutine outlives its request: when the client leaves while it is served,
\* and whenever the handler returns, the handler and every reader end, whatever
\* they are waiting for.
NothingLeftBehind ==
    (handler = "returned" \/ (client = "left" /\ handler = "serving"))
        ~> /\ handler = "returned"
           /\ \A s \in Sources : reader[s] \in {"none", "done"}

\* With pods that all end, a client that stays is told so.
FiniteStreamsEnd ==
    (handler = "serving" /\ \A s \in Sources : ending[s] # "follow")
        ~> (ended \/ client = "left")

=============================================================================
