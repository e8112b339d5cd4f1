---------------------------- MODULE EventForwarder ----------------------------
(***************************************************************************)
(* The Event Forwarder: Suricata's alerts on their way from eve.json to    *)
(* M4, through a file offset and a queue file, both on disk.               *)
(*                                                                         *)
(* A run of the forwarder is a process of its own: a forwarding pass       *)
(* (process_file) or a retry of the queue (retry_queue).  Nothing in the   *)
(* code keeps two runs apart; Overlap says whether they may coincide.  A   *)
(* process may die between any two steps, and inside the rewriting of the  *)
(* queue file.  A line of eve.json is its number.                          *)
(***************************************************************************)
EXTENDS Naturals, Sequences, SequencesExt

CONSTANTS
    Lines,          \* number of lines Suricata writes
    Wanted,         \* the lines of an allowed event type
    DedupeKey,      \* the key of a line: copies of an event have the same
    MaxQueue,       \* max_queue_size
    Attempts,       \* attempts of a retry, per event
    Overlap,        \* whether a retry may run beside a forwarding pass
    MaxCrashes      \* bound: how often the forwarder dies

Line == 1..Lines

ASSUME ConstantsAssumption ==
    /\ Lines \in Nat /\ Wanted \subseteq Line /\ DOMAIN DedupeKey = Line
    /\ MaxQueue \in Nat \ {0} /\ Attempts \in Nat \ {0}
    /\ Overlap \in BOOLEAN /\ MaxCrashes \in Nat

VARIABLES
    written,        \* complete lines in eve.json
    half,           \* whether the beginning of the next line is in the file too
    offset,         \* the position on disk
    queue,          \* the queue file
    pass,           \* the forwarding pass
    retry,          \* the retry of the queue
    received,       \* lines that have reached M4
    gone,           \* lines given up: no room, read in parts, file cut short
    crashes

vars == <<written, half, offset, queue, pass, retry, received, gone, crashes>>

\* A position: lines before it, and whether the next one has been begun.
Position == [line : 0..Lines, mid : BOOLEAN]
Top == [line |-> 0, mid |-> FALSE]

\* resume: it starts at the offset on disk and saves it again at the end.
\* seen: the keys met in this run; cut: the lines it read in parts.
Pass == [pc : {"idle", "reading", "queueing"}, resume : BOOLEAN, at : Position,
         seen : SUBSET Range(DedupeKey), cut : SUBSET Line]

NoPass == [pc |-> "idle", resume |-> FALSE, at |-> Top, seen |-> {}, cut |-> {}]

\* pending: what was in the file; remaining: what could not be sent.
Retry == [pc : {"idle", "sending"}, pending : Seq(Line), left : 0..Attempts,
          remaining : Seq(Line)]

NoRetry == [pc |-> "idle", pending |-> <<>>, left |-> 0, remaining |-> <<>>]

Init ==
    /\ written = 0 /\ half = FALSE /\ offset = Top /\ queue = <<>>
    /\ pass = NoPass /\ retry = NoRetry
    /\ received = {} /\ gone = {} /\ crashes = 0

-----------------------------------------------------------------------------
(***************************************************************************)
(* Suricata writes a line at once or, when its buffer fills, in two parts  *)
(***************************************************************************)
Write ==
    /\ written < Lines
    /\ written' = written + 1
    /\ half' = FALSE
    /\ UNCHANGED <<offset, queue, pass, retry, received, gone, crashes>>

WriteHalf ==
    /\ written < Lines /\ ~half
    /\ half' = TRUE
    /\ UNCHANGED <<written, offset, queue, pass, retry, received, gone, crashes>>

-----------------------------------------------------------------------------
(***************************************************************************)
(* process_file                                                            *)
(***************************************************************************)
Start ==
    /\ pass.pc = "idle"
    /\ Overlap \/ retry.pc = "idle"
    /\ \E resume \in BOOLEAN :
        pass' = [NoPass EXCEPT !.pc = "reading", !.resume = resume,
                               !.at = IF resume THEN offset ELSE Top]
    /\ UNCHANGED <<written, half, offset, queue, retry, received, gone, crashes>>

Upcoming == pass.at.line + 1

\* Mutated form of After: a line is skipped.
AfterNext(n) == [line |-> n + 1, mid |-> FALSE]

After(n) == [line |-> n, mid |-> FALSE]

\* There is a complete line to read, from its beginning.
Reads == pass.pc = "reading" /\ pass.at.line < written /\ ~pass.at.mid

\* An event of another type, or one met before in this run.
Skips(n) == n \notin Wanted \/ DedupeKey[n] \in pass.seen

Skip ==
    /\ Reads /\ Skips(Upcoming)
    /\ pass' = [pass EXCEPT !.at = After(Upcoming)]
    /\ UNCHANGED <<written, half, offset, queue, retry, received, gone, crashes>>

\* A line whose end is not written yet is invalid JSON, and so will be its end.
ReadBeginning ==
    /\ pass.pc = "reading" /\ pass.at = After(written) /\ half
    /\ pass' = [pass EXCEPT !.at.mid = TRUE, !.cut = @ \cup {Upcoming}]
    /\ UNCHANGED <<written, half, offset, queue, retry, received, gone, crashes>>

ReadEnd ==
    /\ pass.pc = "reading" /\ pass.at.line < written /\ pass.at.mid
    /\ pass' = [pass EXCEPT !.at = After(Upcoming)]
    /\ UNCHANGED <<written, half, offset, queue, retry, received, gone, crashes>>

\* The event is sent and the answer is good, or M4 is not reached, or it is and
\* the answer is an error or comes too late.
Sent(n) == received' = received \cup {n}
NotSent(n) == UNCHANGED received \/ Sent(n)

PassOn(pc) == [pass EXCEPT !.pc = pc, !.at = After(Upcoming),
                           !.seen = @ \cup {DedupeKey[Upcoming]}]

Forward ==
    /\ Reads /\ ~Skips(Upcoming)
    /\ Sent(Upcoming)
    /\ pass' = PassOn("reading")
    /\ UNCHANGED <<written, half, offset, queue, retry, gone, crashes>>

ForwardFails ==
    /\ Reads /\ ~Skips(Upcoming)
    /\ NotSent(Upcoming)
    /\ pass' = PassOn("queueing")
    /\ UNCHANGED <<written, half, offset, queue, retry, gone, crashes>>

\* The last n elements of a sequence, all when there are fewer.
LastN(q, n) == SubSeq(q, IF Len(q) > n THEN Len(q) - n + 1 ELSE 1, Len(q))

\* Mutated form of Kept: room is not made for the new line.
KeptTooMany(q) == LastN(q, MaxQueue)

\* lines[-(max_queue_size - 1):], where lines[-0:] is the whole list.
Kept(q) == IF MaxQueue = 1 THEN q ELSE LastN(q, MaxQueue - 1)

\* _enqueue: the oldest lines give way to the new one.
Enqueue ==
    /\ pass.pc = "queueing"
    /\ queue' = Append(Kept(queue), pass.at.line)
    /\ gone' = gone \cup (ToSet(queue) \ ToSet(Kept(queue)))
    /\ pass' = [pass EXCEPT !.pc = "reading"]
    /\ UNCHANGED <<written, half, offset, retry, received, crashes>>

\* readline finds nothing more.
AtEnd == pass.pc = "reading" /\ pass.at.line = written /\ (half => pass.at.mid)

\* The position is saved when the run resumed, and the process ends.
Finish ==
    /\ AtEnd
    /\ offset' = IF pass.resume THEN pass.at ELSE offset
    /\ gone' = IF pass.resume THEN gone \cup pass.cut ELSE gone
    /\ pass' = NoPass
    /\ UNCHANGED <<written, half, queue, retry, received, crashes>>

-----------------------------------------------------------------------------
(***************************************************************************)
(* retry_queue                                                             *)
(***************************************************************************)
StartRetry ==
    /\ retry.pc = "idle" /\ queue # <<>>
    /\ Overlap \/ pass.pc = "idle"
    /\ retry' = [pc |-> "sending", pending |-> queue, left |-> Attempts,
                 remaining |-> <<>>]
    /\ UNCHANGED <<written, half, offset, queue, pass, received, gone, crashes>>

Resend ==
    /\ retry.pending # <<>>
    /\ Sent(Head(retry.pending))
    /\ retry' = [retry EXCEPT !.pending = Tail(@), !.left = Attempts]
    /\ UNCHANGED <<written, half, offset, queue, pass, gone, crashes>>

\* Mutated form of PutOff: what could not be sent is not kept.
PutOffForgets == [retry EXCEPT !.pending = Tail(@), !.left = Attempts]

PutOff == [retry EXCEPT !.pending = Tail(@), !.left = Attempts,
                        !.remaining = Append(@, Head(retry.pending))]

ResendFails ==
    /\ retry.pending # <<>>
    /\ NotSent(Head(retry.pending))
    /\ retry' = IF retry.left > 1 THEN [retry EXCEPT !.left = @ - 1] ELSE PutOff
    /\ UNCHANGED <<written, half, offset, queue, pass, gone, crashes>>

\* The file is written anew with what remains, and the process ends.
Rewrite ==
    /\ retry.pc = "sending" /\ retry.pending = <<>>
    /\ queue' = retry.remaining
    /\ retry' = NoRetry
    /\ UNCHANGED <<written, half, offset, pass, received, gone, crashes>>

-----------------------------------------------------------------------------
\* write_text empties the file before it writes: dying in between leaves nothing,
\* and an offset that cannot be read is 0.
Rewriting ==
    \/ pass.pc = "queueing"
    \/ retry.pc = "sending" /\ retry.pending = <<>>

Crash ==
    /\ crashes < MaxCrashes
    /\ pass.pc # "idle" \/ retry.pc # "idle"
    /\ pass' = NoPass /\ retry' = NoRetry
    /\ crashes' = crashes + 1
    /\ \/ UNCHANGED <<offset, queue, gone>>
       \/ /\ Rewriting
          /\ queue' = <<>> /\ gone' = gone \cup ToSet(queue)
          /\ UNCHANGED offset
       \/ /\ AtEnd /\ pass.resume
          /\ offset' = Top
          /\ UNCHANGED <<queue, gone>>
    /\ UNCHANGED <<written, half, received>>

Next ==
    \/ Write \/ WriteHalf
    \/ Start \/ Skip \/ ReadBeginning \/ ReadEnd
    \/ Forward \/ ForwardFails \/ Enqueue \/ Finish
    \/ StartRetry \/ Resend \/ ResendFails \/ Rewrite
    \/ Crash

Spec == Init /\ [][Next]_vars

-----------------------------------------------------------------------------
(***************************************************************************)
(* Properties                                                              *)
(***************************************************************************)
\* Every variable keeps its shape.
TypeOK ==
    /\ written \in 0..Lines /\ half \in BOOLEAN /\ offset \in Position
    /\ queue \in Seq(Line) /\ pass \in Pass /\ retry \in Retry
    /\ received \subseteq Line /\ gone \subseteq Line
    /\ crashes \in 0..MaxCrashes

\* The event of a line, or a copy of it, has reached M4, waits in the queue file
\* or was given up.
Accounted(n) ==
    \E m \in Line : /\ DedupeKey[m] = DedupeKey[n]
                   /\ m \in received \cup ToSet(queue) \cup gone

\* No event before the offset on disk is lost: wherever the forwarder dies, what
\* it will not read again has reached M4, is queued, or was given up where the
\* code gives lines up (forwarder.py:86-146).
NoEventLost == \A n \in Wanted : n <= offset.line => Accounted(n)

\* The queue file does not outgrow max_queue_size (forwarder.py:112-118).
QueueBounded == Len(queue) <= MaxQueue

Copies(m, n) == DedupeKey[m] = DedupeKey[n]
Promise == INSTANCE AlertDelivery WITH
               Alerts <- Line, SameAlert <- Copies, committed <- offset.line,
               buffer <- ToSet(queue), lost <- gone

\* Delivered: the forwarder implements AlertDelivery. Whatever order the passes,
\* the retries and the crashes come in, an alert leaves the queue file only when M4
\* has received it or it is given up (forwarder.py:120-146), and the offset moves
\* only past alerts that are accounted for (108-110).
Delivered == Promise!Spec
=============================================================================
