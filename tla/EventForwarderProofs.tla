-------------------------- MODULE EventForwarderProofs --------------------------
(***************************************************************************)
(* Theorems about EventForwarder, for any file, keys, size of the queue and *)
(* number of attempts and crashes; and the proof that it implements        *)
(* AlertDelivery.                                                          *)
(***************************************************************************)
EXTENDS EventForwarder, SequenceTheorems, TLAPS

-----------------------------------------------------------------------------
(***************************************************************************)
(* Sequences of lines and the set of their elements                        *)
(***************************************************************************)
LEMMA ToSetOfEmpty == ToSet(<<>>) = {}
BY DEF ToSet

LEMMA ToSetInLine == ASSUME NEW s \in Seq(Line) PROVE ToSet(s) \subseteq Line
BY DEF ToSet

\* Appending adds the element.
LEMMA ToSetOfAppend ==
    ASSUME NEW s \in Seq(Line), NEW n \in Line
    PROVE  ToSet(Append(s, n)) = ToSet(s) \cup {n}
<1>1. DOMAIN s = 1..Len(s) /\ DOMAIN Append(s, n) = 1..(Len(s) + 1) /\ Len(s) \in Nat
    OBVIOUS
<1>2. \A i \in 1..Len(s) : Append(s, n)[i] = s[i]
    OBVIOUS
<1>3. Append(s, n)[Len(s) + 1] = n
    OBVIOUS
<1>4. 1..(Len(s) + 1) = 1..Len(s) \cup {Len(s) + 1}
    BY <1>1
<1> QED BY <1>1, <1>2, <1>3, <1>4, Zenon DEF ToSet

\* A sequence is its head and its tail.
LEMMA ToSetOfTail ==
    ASSUME NEW s \in Seq(Line), s # <<>>
    PROVE  /\ Head(s) \in Line /\ Tail(s) \in Seq(Line) /\ Len(s) = Len(Tail(s)) + 1
           /\ ToSet(s) = {Head(s)} \cup ToSet(Tail(s))
<1>1. /\ Head(s) \in Line /\ Tail(s) \in Seq(Line) /\ Len(s) = Len(Tail(s)) + 1
      /\ Len(Tail(s)) \in Nat /\ Head(s) = s[1]
    OBVIOUS
<1>2. DOMAIN s = 1..Len(s) /\ DOMAIN Tail(s) = 1..Len(Tail(s))
    BY <1>1
<1>3. \A i \in 1..Len(Tail(s)) : Tail(s)[i] = s[i + 1]
    BY <1>1
<1>4. \A i \in 1..Len(s) : i = 1 \/ (i - 1 \in 1..Len(Tail(s)) /\ i = (i - 1) + 1)
    BY <1>1
<1>5. \A i \in 1..Len(Tail(s)) : i + 1 \in 1..Len(s)
    BY <1>1
<1>6. 1 \in 1..Len(s)
    BY <1>1
<1>7. ASSUME NEW x \in ToSet(s) PROVE x \in {Head(s)} \cup ToSet(Tail(s))
    <2>1. PICK i \in 1..Len(s) : x = s[i]
        BY <1>2 DEF ToSet
    <2>2. CASE i = 1
        BY <1>1, <2>1, <2>2
    <2>3. CASE i - 1 \in 1..Len(Tail(s)) /\ i = (i - 1) + 1
        BY <1>2, <1>3, <2>1, <2>3 DEF ToSet
    <2> QED BY <1>4, <2>2, <2>3
<1>8. ASSUME NEW x \in {Head(s)} \cup ToSet(Tail(s)) PROVE x \in ToSet(s)
    BY <1>1, <1>2, <1>3, <1>5, <1>6 DEF ToSet
<1> QED BY <1>1, <1>7, <1>8

\* What _enqueue keeps is a part of the queue, and short unless it keeps everything.
LEMMA KeptFact ==
    ASSUME NEW q \in Seq(Line)
    PROVE  /\ Kept(q) \in Seq(Line)
           /\ ToSet(Kept(q)) \subseteq ToSet(q)
           /\ MaxQueue # 1 => Len(Kept(q)) <= MaxQueue - 1
<1>1. CASE MaxQueue = 1
    BY <1>1 DEF Kept
<1>2. CASE MaxQueue # 1
    <2> DEFINE k == MaxQueue - 1
               m == IF Len(q) > k THEN Len(q) - k + 1 ELSE 1
    <2>1. k \in Nat \ {0} /\ Len(q) \in Nat
        BY <1>2, ConstantsAssumption
    <2>2. m \in 1..(Len(q) + 1) /\ Len(q) - m + 1 <= k
        BY <2>1
    <2>3. Kept(q) = SubSeq(q, m, Len(q))
        BY <1>2 DEF Kept, LastN
    <2>4. \A i \in m..Len(q) : q[i] \in ToSet(q) /\ q[i] \in Line
        BY <2>1, <2>2 DEF ToSet
    <2> HIDE DEF k, m
    <2>5. /\ SubSeq(q, m, Len(q)) \in Seq(Line)
          /\ Len(SubSeq(q, m, Len(q))) = IF m <= Len(q) THEN Len(q) - m + 1 ELSE 0
          /\ \A i \in 1..(Len(q) - m + 1) : SubSeq(q, m, Len(q))[i] = q[m + i - 1]
        BY <2>1, <2>2, <2>4, SubSeqProperties
    <2>6. ToSet(Kept(q)) \subseteq ToSet(q)
        <3>1. \A i \in 1..(Len(q) - m + 1) : m + i - 1 \in m..Len(q)
            BY <2>1, <2>2
        <3>2. DOMAIN SubSeq(q, m, Len(q)) \subseteq 1..(Len(q) - m + 1)
            BY <2>1, <2>2, <2>5
        <3> QED BY <2>3, <2>4, <2>5, <3>1, <3>2 DEF ToSet
    <2>7. Len(Kept(q)) <= k
        BY <2>1, <2>2, <2>3, <2>5
    <2> QED BY <2>3, <2>5, <2>6, <2>7 DEF k
<1> QED BY <1>1, <1>2

-----------------------------------------------------------------------------
(***************************************************************************)
(* Type correctness                                                        *)
(***************************************************************************)
\* What the positions are worth: none is past the file, a line that has been begun
\* is not past the last, and the event to be queued is the line just read.
Positions ==
    /\ half => written < Lines
    /\ offset.line <= written
    /\ pass.at.line <= written
    /\ pass.pc = "queueing" => pass.at.line \in Line
    /\ retry.pc = "idle" => retry.pending = <<>>

TInv == TypeOK /\ Positions

LEMMA TypeInit == Init => TInv
<1> SUFFICES ASSUME Init PROVE TInv
    OBVIOUS
<1>1. Top \in Position
    BY ConstantsAssumption DEF Top, Position
<1>2. <<>> \in Seq(Line)
    OBVIOUS
<1>3. NoPass \in Pass
    BY <1>1 DEF NoPass, Pass
<1>4. NoRetry \in Retry
    BY <1>2, ConstantsAssumption DEF NoRetry, Retry
<1>5. 0 \in 0..Lines /\ 0 \in 0..MaxCrashes
    BY ConstantsAssumption
<1>6. TypeOK
    BY <1>1, <1>2, <1>3, <1>4, <1>5 DEF Init, TypeOK
<1>7. Positions
    BY ConstantsAssumption DEF Init, Positions, Top, NoPass, NoRetry
<1> QED BY <1>6, <1>7 DEF TInv

\* After reading the upcoming line the pass is well formed.
LEMMA AfterFact ==
    ASSUME TInv, pass.at.line < written
    PROVE  /\ Upcoming \in Line /\ Upcoming <= written
           /\ After(Upcoming) \in Position
           /\ DedupeKey[Upcoming] \in Range(DedupeKey)
           /\ After(Upcoming).line = Upcoming /\ ~After(Upcoming).mid
<1>1. pass.at.line \in Nat /\ written \in Nat /\ written <= Lines /\ Lines \in Nat
    BY ConstantsAssumption DEF TInv, TypeOK, Pass, Position
<1>2. Upcoming \in Line /\ Upcoming <= written /\ Upcoming \in 0..Lines
    BY <1>1 DEF Upcoming, Line
<1>3. DedupeKey[Upcoming] \in Range(DedupeKey)
    BY <1>2, ConstantsAssumption DEF Range
<1> QED BY <1>2, <1>3 DEF After, Position

LEMMA TypeStep == TInv /\ [Next]_vars => TInv'
<1> SUFFICES ASSUME TInv, [Next]_vars PROVE TInv'
    OBVIOUS
<1> USE DEF TInv
<1>0. /\ written \in Nat /\ written <= Lines /\ Lines \in Nat
      /\ pass.at.line \in Nat /\ pass.at.line <= Lines /\ offset.line \in Nat
    BY ConstantsAssumption DEF TypeOK, Pass, Position
<1>1. CASE Write
    <2>1. written' \in 0..Lines /\ ~half' /\ written <= written'
        <3>1. written + 1 \in 0..Lines /\ written <= written + 1
            BY <1>0, <1>1 DEF Write
        <3> QED BY <1>1, <3>1 DEF Write
    <2>2. TypeOK'
        BY <1>1, <2>1 DEF Write, TypeOK
    <2>3. Positions'
        BY <1>0, <1>1, <2>1 DEF Write, Positions
    <2> QED BY <2>2, <2>3
<1>2. CASE WriteHalf
    BY <1>2 DEF WriteHalf, TypeOK, Positions
<1>3. CASE Start
    <2>1. PICK resume \in BOOLEAN :
             pass' = [NoPass EXCEPT !.pc = "reading", !.resume = resume,
                                    !.at = IF resume THEN offset ELSE Top]
        BY <1>3 DEF Start
    <2>2. pass' = [pc |-> "reading", resume |-> resume,
                   at |-> IF resume THEN offset ELSE Top, seen |-> {}, cut |-> {}]
        BY <2>1 DEF NoPass
    <2>3. Top \in Position /\ Top.line = 0
        BY <1>0 DEF Top, Position
    <2>4. pass' \in Pass
        BY <2>2, <2>3 DEF Pass, TypeOK
    <2>5. pass'.at.line <= written /\ pass'.pc = "reading"
        BY <1>0, <2>2, <2>3 DEF Positions
    <2> QED BY <1>3, <2>4, <2>5 DEF Start, TypeOK, Positions
<1>4. CASE Skip
    <2>1. After(Upcoming) \in Position /\ After(Upcoming).line <= written
        BY <1>4, AfterFact DEF Skip, Reads
    <2>2. pass' \in Pass
        BY <1>4, <2>1 DEF Skip, Pass, TypeOK
    <2>3. pass'.at.line <= written /\ pass'.pc = "reading"
        BY <1>4, <2>1 DEF Skip, Reads, Pass, TypeOK
    <2> QED BY <1>4, <2>2, <2>3 DEF Skip, TypeOK, Positions
<1>5. CASE ReadBeginning
    <2>1. pass.at.line = written /\ written < Lines
        BY <1>5 DEF ReadBeginning, After, Positions
    <2>2. Upcoming \in Line
        BY <1>0, <2>1 DEF Upcoming, Line
    <2>3. /\ pass' \in Pass /\ pass'.at.line = pass.at.line
          /\ pass'.pc = pass.pc
        BY <1>5, <2>2 DEF ReadBeginning, Pass, Position, TypeOK
    <2> QED BY <1>5, <2>3 DEF ReadBeginning, TypeOK, Positions
<1>6. CASE ReadEnd
    <2>1. After(Upcoming) \in Position /\ After(Upcoming).line <= written
        BY <1>6, AfterFact DEF ReadEnd
    <2>2. pass' \in Pass
        BY <1>6, <2>1 DEF ReadEnd, Pass, TypeOK
    <2>3. pass'.at.line <= written /\ pass'.pc = "reading"
        BY <1>6, <2>1 DEF ReadEnd, Pass, TypeOK
    <2> QED BY <1>6, <2>2, <2>3 DEF ReadEnd, TypeOK, Positions
<1>7. ASSUME Reads, NEW pc \in {"reading", "queueing"}, pass' = PassOn(pc),
             received' = received \/ Sent(Upcoming),
             UNCHANGED <<written, half, offset, queue, retry, gone, crashes>>
      PROVE  TInv'
    <2>1. /\ Upcoming \in Line /\ After(Upcoming) \in Position
          /\ DedupeKey[Upcoming] \in Range(DedupeKey)
          /\ After(Upcoming).line = Upcoming /\ Upcoming <= written
        BY <1>7, AfterFact DEF Reads
    <2>2. pass' \in Pass
        BY <1>7, <2>1 DEF PassOn, Pass, TypeOK
    <2>3. pass'.at.line = Upcoming
        BY <1>7, <2>1 DEF PassOn, Pass, TypeOK
    <2>4. received' \subseteq Line
        BY <1>7, <2>1 DEF Sent, TypeOK
    <2> QED BY <1>7, <2>1, <2>2, <2>3, <2>4 DEF TypeOK, Positions
<1>8. CASE Forward
    BY <1>7, <1>8 DEF Forward
<1>9. CASE ForwardFails
    BY <1>7, <1>9 DEF ForwardFails, NotSent
<1>10. CASE Enqueue
    <2>1. pass.at.line \in Line /\ Kept(queue) \in Seq(Line)
        BY <1>10, KeptFact DEF Enqueue, TypeOK, Positions
    <2>2. queue' \in Seq(Line)
        BY <1>10, <2>1 DEF Enqueue
    <2>3. gone' \subseteq Line
        BY <1>10, ToSetInLine DEF Enqueue, TypeOK
    <2>4. pass' \in Pass /\ pass'.at = pass.at /\ pass'.pc = "reading"
        BY <1>10 DEF Enqueue, TypeOK, Pass
    <2> QED BY <1>10, <2>2, <2>3, <2>4 DEF Enqueue, TypeOK, Positions
<1>11. NoPass \in Pass /\ NoPass.at.line = 0 /\ NoPass.pc = "idle"
    BY <1>0 DEF NoPass, Pass, Top, Position
<1>12. NoRetry \in Retry /\ NoRetry.pending = <<>>
    BY ConstantsAssumption DEF NoRetry, Retry
<1>13. CASE Finish
    <2>1. offset' \in Position /\ offset'.line <= written
        BY <1>13 DEF Finish, TypeOK, Pass, Positions
    <2>2. gone' \subseteq Line
        BY <1>13 DEF Finish, TypeOK, Pass
    <2> QED BY <1>0, <1>11, <1>13, <2>1, <2>2 DEF Finish, TypeOK, Positions
<1>14. CASE StartRetry
    <2>1. retry' \in Retry /\ retry'.pc = "sending"
        BY <1>14, ConstantsAssumption DEF StartRetry, Retry, TypeOK
    <2> QED BY <1>14, <2>1 DEF StartRetry, TypeOK, Positions
<1>15. ASSUME retry.pending # <<>>
       PROVE  /\ retry.pending \in Seq(Line) /\ retry.remaining \in Seq(Line)
              /\ retry.pc = "sending"
              /\ Head(retry.pending) \in Line /\ Tail(retry.pending) \in Seq(Line)
    <2>1. retry.pending \in Seq(Line) /\ retry.remaining \in Seq(Line)
        BY DEF TypeOK, Retry
    <2>2. Head(retry.pending) \in Line /\ Tail(retry.pending) \in Seq(Line)
        BY <1>15, <2>1, ToSetOfTail
    <2> QED BY <1>15, <2>1, <2>2 DEF TypeOK, Retry, Positions
<1>15a. Attempts \in 0..Attempts
    BY ConstantsAssumption
<1>16. CASE Resend
    <2>1. retry' \in Retry /\ retry'.pc = "sending"
        <3>1. retry' = [retry EXCEPT !.pending = Tail(@), !.left = Attempts]
            BY <1>16 DEF Resend
        <3>2. Tail(retry.pending) \in Seq(Line) /\ retry.pc = "sending"
            BY <1>15, <1>16 DEF Resend
        <3> QED BY <1>15a, <3>1, <3>2 DEF Retry, TypeOK
    <2>2. received' \subseteq Line
        BY <1>15, <1>16 DEF Resend, Sent, TypeOK
    <2> QED BY <1>16, <2>1, <2>2 DEF Resend, TypeOK, Positions
<1>17. CASE ResendFails
    <2>1. received' \subseteq Line
        BY <1>15, <1>17 DEF ResendFails, NotSent, Sent, TypeOK
    <2>2. CASE retry.left > 1
        <3>1. retry' = [retry EXCEPT !.left = @ - 1] /\ retry.left - 1 \in 0..Attempts
            BY <1>17, <2>2, ConstantsAssumption DEF ResendFails, TypeOK, Retry
        <3>2. retry' \in Retry /\ retry'.pc = "sending"
            BY <1>15, <1>17, <3>1 DEF ResendFails, Retry, TypeOK
        <3> QED BY <1>17, <2>1, <3>2 DEF ResendFails, TypeOK, Positions
    <2>3. CASE ~(retry.left > 1)
        <3>1. retry' = PutOff
            BY <1>17, <2>3 DEF ResendFails
        <3>2. Append(retry.remaining, Head(retry.pending)) \in Seq(Line)
            BY <1>15, <1>17 DEF ResendFails
        <3>3. retry' \in Retry /\ retry'.pc = "sending"
            <4>1. Tail(retry.pending) \in Seq(Line) /\ retry.pc = "sending"
                BY <1>15, <1>17 DEF ResendFails
            <4> QED BY <1>15a, <3>1, <3>2, <4>1 DEF PutOff, Retry, TypeOK
        <3> QED BY <1>17, <2>1, <3>3 DEF ResendFails, TypeOK, Positions
    <2> QED BY <2>2, <2>3
<1>18. CASE Rewrite
    <2>1. queue' \in Seq(Line)
        BY <1>18 DEF Rewrite, TypeOK, Retry
    <2> QED BY <1>12, <1>18, <2>1 DEF Rewrite, TypeOK, Positions
<1>19. CASE Crash
    <2>1. crashes' \in 0..MaxCrashes
        BY <1>19, ConstantsAssumption DEF Crash, TypeOK
    <2>2. Top \in Position /\ Top.line <= written /\ <<>> \in Seq(Line)
        BY <1>0 DEF Top, Position
    <2>3. gone \cup ToSet(queue) \subseteq Line
        BY ToSetInLine DEF TypeOK
    <2>4. \/ offset' = offset /\ queue' = queue /\ gone' = gone
          \/ offset' = offset /\ queue' = <<>> /\ gone' = gone \cup ToSet(queue)
          \/ offset' = Top /\ queue' = queue /\ gone' = gone
        BY <1>19 DEF Crash
    <2>5. /\ queue' \in Seq(Line) /\ gone' \subseteq Line
          /\ offset' \in Position /\ offset'.line <= written
        BY <2>2, <2>3, <2>4 DEF TypeOK, Positions
    <2> QED BY <1>0, <1>11, <1>12, <1>19, <2>1, <2>5
            DEF Crash, TypeOK, Positions
<1>20. CASE UNCHANGED vars
    BY <1>20 DEF vars, TypeOK, Positions
<1> QED
    BY <1>1, <1>2, <1>3, <1>4, <1>5, <1>6, <1>8, <1>9, <1>10, <1>13, <1>14,
       <1>16, <1>17, <1>18, <1>19, <1>20 DEF Next

\* Every variable of the forwarder keeps its shape (forwarder.py:86-146).
THEOREM TypeCorrect == Spec => []TypeOK
<1>1. Spec => []TInv
    BY TypeInit, TypeStep, PTL DEF Spec
<1> QED BY <1>1, PTL DEF TInv
-----------------------------------------------------------------------------
(***************************************************************************)
(* Every event is accounted for                                            *)
(***************************************************************************)
\* Two runs of the forwarder do not coincide.
Apart == pass.pc = "idle" \/ retry.pc = "idle"

\* Lines that have reached M4, wait in the file, or were given up.
Kin == received \cup ToSet(queue) \cup gone

HasKey(k) == \E m \in Kin : DedupeKey[m] = k

\* The key of the event that the pass has read and is about to queue.
Carried(k) == pass.pc = "queueing" /\ k = DedupeKey[pass.at.line]

\* An event met before in this run is accounted for, or about to be queued.
SeenIsKnown == \A k \in pass.seen : HasKey(k) \/ Carried(k)

\* So is an event the pass is past, unless its line was read in parts.
PassedIsKnown ==
    pass.pc # "idle" =>
        \A n \in Wanted : n <= pass.at.line =>
            HasKey(DedupeKey[n]) \/ Carried(DedupeKey[n]) \/ n \in pass.cut

CommittedIsKnown == \A n \in Wanted : n <= offset.line => HasKey(DedupeKey[n])

\* A line whose beginning was read is given up when the pass ends.
HalfIsKnown ==
    /\ offset.mid => offset.line + 1 \in gone
    /\ pass.pc # "idle" /\ pass.at.mid => Upcoming \in pass.cut \cup gone

\* While the retry sends, the file stays as it was read; what has left its list has
\* been sent or will be put back.
RetryIsKnown ==
    retry.pc = "sending" =>
        /\ ToSet(retry.pending) \cup ToSet(retry.remaining) \subseteq ToSet(queue)
        /\ ToSet(queue) \subseteq
               received \cup ToSet(retry.pending) \cup ToSet(retry.remaining)

IInv ==
    /\ TInv /\ Apart /\ SeenIsKnown /\ PassedIsKnown /\ CommittedIsKnown
    /\ HalfIsKnown /\ RetryIsKnown

LEMMA KnownInit == Init => IInv
<1> SUFFICES ASSUME Init PROVE IInv
    OBVIOUS
<1>1. TInv
    BY TypeInit
<1>2. Wanted \subseteq Nat \ {0}
    BY ConstantsAssumption DEF Line
<1> QED
    BY <1>1, <1>2 DEF Init, IInv, NoPass, NoRetry, Top, Apart, SeenIsKnown,
       PassedIsKnown, CommittedIsKnown, HalfIsKnown, RetryIsKnown

\* What is accounted for stays accounted for while nothing leaves the three sets.
LEMMA KeysKept == ASSUME Kin \subseteq Kin', NEW k PROVE HasKey(k) => HasKey(k)'
BY DEF HasKey

LEMMA WantedFact == Wanted \subseteq Line /\ Line \subseteq Nat /\ 0 \notin Line
BY ConstantsAssumption DEF Line

\* Start: a resumed pass begins where the offset says, any other at the top.
LEMMA StartKeeps == ASSUME IInv, TInv', ~Overlap, Start PROVE IInv'
<1>1. PICK resume \in BOOLEAN :
         pass' = [NoPass EXCEPT !.pc = "reading", !.resume = resume,
                                !.at = IF resume THEN offset ELSE Top]
    BY DEF Start
<1>2. /\ pass'.pc = "reading" /\ pass'.seen = {} /\ pass'.cut = {}
      /\ pass'.at = IF resume THEN offset ELSE Top
    BY <1>1 DEF NoPass
<1>3. /\ retry.pc = "idle"
      /\ UNCHANGED <<written, half, offset, queue, retry, received, gone, crashes>>
    BY DEF Start
<1>4. Kin' = Kin
    BY <1>3 DEF Kin
<1>5. \A k : HasKey(k) => HasKey(k)'
    BY <1>4, KeysKept
<1>6. Apart' /\ SeenIsKnown' /\ CommittedIsKnown' /\ RetryIsKnown'
    BY <1>2, <1>3, <1>5 DEF IInv, Apart, SeenIsKnown, CommittedIsKnown, RetryIsKnown
<1>7. PassedIsKnown'
    <2>1. CASE resume
        BY <1>2, <1>5, <2>1 DEF IInv, PassedIsKnown, CommittedIsKnown
    <2>2. CASE ~resume
        BY <1>2, <2>2, WantedFact DEF PassedIsKnown, Top
    <2> QED BY <2>1, <2>2
<1>8. HalfIsKnown'
    BY <1>2, <1>3 DEF IInv, HalfIsKnown, Upcoming, Top
<1> QED BY <1>6, <1>7, <1>8 DEF IInv

\* Reading on past a line that is known, or was read in parts.
LEMMA PassOver ==
    ASSUME IInv, pass.pc = "reading", pass.at.line < written,
           \/ Upcoming \notin Wanted
           \/ HasKey(DedupeKey[Upcoming])
           \/ Upcoming \in pass.cut
           \/ pass.at.mid,
           pass' = [pass EXCEPT !.at = After(Upcoming)],
           UNCHANGED <<written, half, offset, queue, retry, received, gone, crashes>>,
           TInv'
    PROVE  IInv'
<1>1. /\ pass'.pc = "reading" /\ pass'.seen = pass.seen /\ pass'.cut = pass.cut
      /\ pass'.at.line = Upcoming /\ ~pass'.at.mid
    BY DEF IInv, TInv, TypeOK, Pass, After
<1>2. Kin' = Kin
    BY DEF Kin
<1>3. \A k : HasKey(k) => HasKey(k)'
    BY <1>2, KeysKept
<1>4. \A k : ~Carried(k)
    BY DEF Carried
<1>5. pass.at.line \in Nat
    BY DEF IInv, TInv, TypeOK, Pass, Position
<1>6. \A n \in Wanted : n <= Upcoming => n <= pass.at.line \/ n = Upcoming
    BY <1>5, WantedFact DEF Upcoming
<1>7. pass.at.mid /\ Upcoming \notin pass.cut => HasKey(DedupeKey[Upcoming])
    BY DEF IInv, HalfIsKnown, HasKey, Kin
<1>8. PassedIsKnown'
    BY <1>1, <1>3, <1>4, <1>6, <1>7 DEF IInv, PassedIsKnown
<1>9. SeenIsKnown'
    BY <1>1, <1>3, <1>4 DEF IInv, SeenIsKnown
<1>10. /\ Apart' /\ CommittedIsKnown' /\ HalfIsKnown' /\ RetryIsKnown'
    BY <1>1, <1>3 DEF IInv, Apart, CommittedIsKnown, HalfIsKnown, RetryIsKnown
<1> QED BY <1>8, <1>9, <1>10 DEF IInv

LEMMA SkipKeeps == ASSUME IInv, TInv', Skip PROVE IInv'
<1>1. Upcoming \notin Wanted \/ DedupeKey[Upcoming] \in pass.seen
    BY DEF Skip, Skips
<1>2. pass.pc = "reading"
    BY DEF Skip, Reads
<1>3. Upcoming \notin Wanted \/ HasKey(DedupeKey[Upcoming])
    BY <1>1, <1>2 DEF IInv, SeenIsKnown, Carried
<1> QED BY <1>3, PassOver DEF Skip, Reads

LEMMA ReadBeginningKeeps == ASSUME IInv, TInv', ReadBeginning PROVE IInv'
<1>1. /\ pass'.pc = pass.pc /\ pass'.seen = pass.seen /\ pass'.at.line = pass.at.line
      /\ pass'.cut = pass.cut \cup {Upcoming} /\ pass.pc = "reading"
    BY DEF ReadBeginning, IInv, TInv, TypeOK, Pass, Position
<1>2. UNCHANGED <<offset, queue, retry, received, gone>>
    BY DEF ReadBeginning
<1>3. Kin' = Kin
    BY <1>2 DEF Kin
<1>4. \A k : HasKey(k) => HasKey(k)'
    BY <1>3, KeysKept
<1>5. \A k : Carried(k) => Carried(k)'
    BY <1>1 DEF Carried
<1>6. /\ Apart' /\ SeenIsKnown' /\ PassedIsKnown' /\ CommittedIsKnown'
      /\ RetryIsKnown'
    BY <1>1, <1>2, <1>4, <1>5 DEF IInv, Apart, SeenIsKnown, PassedIsKnown,
       CommittedIsKnown, RetryIsKnown
<1>7. HalfIsKnown'
    BY <1>1, <1>2 DEF IInv, HalfIsKnown, Upcoming
<1> QED BY <1>6, <1>7 DEF IInv

\* Reading an event that is sent, or that is to be queued.
LEMMA PassOnKeeps ==
    ASSUME IInv, TInv', Reads, NEW pc \in {"reading", "queueing"}, pass' = PassOn(pc),
           pc = "reading" => Sent(Upcoming),
           NotSent(Upcoming),
           UNCHANGED <<written, half, offset, queue, retry, gone, crashes>>
    PROVE  IInv'
<1> PICK u : u = Upcoming
    OBVIOUS
<1>1. /\ pass'.pc = pc /\ pass'.seen = pass.seen \cup {DedupeKey[u]}
      /\ pass'.cut = pass.cut /\ pass'.at.line = u /\ ~pass'.at.mid
    BY DEF PassOn, IInv, TInv, TypeOK, Pass, After
<1>2. received \subseteq received' /\ (pc = "reading" => u \in received')
    BY DEF Sent, NotSent
<1>3. Kin \subseteq Kin'
    BY <1>2 DEF Kin
<1>4. \A k : HasKey(k) => HasKey(k)'
    BY <1>3, KeysKept
<1>5. \A k : ~Carried(k)
    BY DEF Carried, Reads
<1>6. HasKey(DedupeKey[u])' \/ Carried(DedupeKey[u])'
    <2>1. CASE pc = "reading"
        BY <1>2, <2>1 DEF Kin, HasKey
    <2>2. CASE pc = "queueing"
        BY <1>1, <2>2 DEF Carried
    <2> QED BY <2>1, <2>2
<1>7. \A n \in Wanted : n <= u => n <= pass.at.line \/ n = u
    <2>1. pass.at.line \in Nat
        BY DEF IInv, TInv, TypeOK, Pass, Position
    <2>2. u = pass.at.line + 1
        BY DEF Upcoming
    <2> QED BY <2>1, <2>2, WantedFact
<1>8. SeenIsKnown'
    BY <1>1, <1>4, <1>5, <1>6 DEF IInv, SeenIsKnown
<1>9. PassedIsKnown'
    BY <1>1, <1>4, <1>5, <1>6, <1>7 DEF IInv, PassedIsKnown, Reads
<1>10. RetryIsKnown'
    BY <1>2 DEF IInv, RetryIsKnown
<1>11. /\ Apart' /\ CommittedIsKnown' /\ HalfIsKnown'
    BY <1>1, <1>4 DEF IInv, Apart, CommittedIsKnown, HalfIsKnown, Reads
<1> QED BY <1>8, <1>9, <1>10, <1>11 DEF IInv

LEMMA ForwardKeeps == ASSUME IInv, TInv', Forward \/ ForwardFails PROVE IInv'
<1>1. CASE Forward
    BY <1>1, PassOnKeeps DEF Forward, NotSent
<1>2. CASE ForwardFails
    BY <1>2, PassOnKeeps DEF ForwardFails
<1> QED BY <1>1, <1>2

\* What leaves the queue to make room is given up; the event that was carried is in.
LEMMA EnqueueKeeps == ASSUME IInv, TInv', Enqueue PROVE IInv'
<1> PICK u : u = pass.at.line
    OBVIOUS
<1>1. /\ u \in Line /\ queue \in Seq(Line) /\ Kept(queue) \in Seq(Line)
      /\ retry.pc = "idle" /\ pass.pc = "queueing"
    BY KeptFact DEF IInv, TInv, TypeOK, Positions, Apart, Enqueue
<1>2. ToSet(queue') = ToSet(Kept(queue)) \cup {u}
    BY <1>1, ToSetOfAppend DEF Enqueue
<1>3. /\ gone' = gone \cup (ToSet(queue) \ ToSet(Kept(queue)))
      /\ UNCHANGED <<written, half, offset, retry, received, crashes>>
    BY DEF Enqueue
<1>4. Kin \subseteq Kin' /\ u \in Kin'
    BY <1>2, <1>3 DEF Kin
<1>5. \A k : HasKey(k) => HasKey(k)'
    BY <1>4, KeysKept
<1>6. \A k : Carried(k) => HasKey(k)'
    BY <1>4 DEF Carried, HasKey
<1>7. pass'.pc = "reading" /\ pass' = [pass EXCEPT !.pc = "reading"]
    BY DEF Enqueue, IInv, TInv, TypeOK, Pass
<1>8. pass'.at = pass.at /\ pass'.seen = pass.seen /\ pass'.cut = pass.cut
    BY <1>7 DEF IInv, TInv, TypeOK, Pass
<1>9. SeenIsKnown'
    BY <1>5, <1>6, <1>8 DEF IInv, SeenIsKnown
<1>10. PassedIsKnown'
    BY <1>1, <1>5, <1>6, <1>8 DEF IInv, PassedIsKnown
<1>11. CommittedIsKnown'
    BY <1>3, <1>5 DEF IInv, CommittedIsKnown
<1>12. HalfIsKnown'
    BY <1>1, <1>3, <1>8 DEF IInv, HalfIsKnown, Upcoming
<1>13. Apart' /\ RetryIsKnown'
    BY <1>1, <1>3 DEF Apart, RetryIsKnown
<1> QED BY <1>9, <1>10, <1>11, <1>12, <1>13 DEF IInv

\* A resumed pass moves the offset past lines that are known, and gives up those
\* it read in parts.
LEMMA FinishKeeps == ASSUME IInv, TInv', Finish PROVE IInv'
<1>1. /\ pass'.pc = "idle" /\ pass'.seen = {} /\ pass.pc = "reading"
      /\ UNCHANGED <<written, half, queue, retry, received, crashes>>
    BY DEF Finish, NoPass, AtEnd
<1>2. gone \subseteq gone' /\ (pass.resume => gone' = gone \cup pass.cut)
    BY DEF Finish
<1>3. Kin \subseteq Kin'
    BY <1>1, <1>2 DEF Kin
<1>4. \A k : HasKey(k) => HasKey(k)'
    BY <1>3, KeysKept
<1>5. CASE pass.resume
    <2>1. offset' = pass.at
        BY <1>5 DEF Finish
    <2>2. \A n \in Wanted : n \in pass.cut => HasKey(DedupeKey[n])'
        BY <1>2, <1>5 DEF HasKey, Kin
    <2>3. \A k : ~Carried(k)
        BY <1>1 DEF Carried
    <2>4. CommittedIsKnown'
        BY <1>1, <1>4, <2>1, <2>2, <2>3 DEF IInv, PassedIsKnown, CommittedIsKnown
    <2>5. HalfIsKnown'
        BY <1>1, <1>2, <1>5, <2>1 DEF IInv, HalfIsKnown, Upcoming
    <2> QED BY <1>1, <2>4, <2>5 DEF IInv, Apart, SeenIsKnown, PassedIsKnown,
            RetryIsKnown
<1>6. CASE ~pass.resume
    <2>1. offset' = offset
        BY <1>6 DEF Finish
    <2> QED BY <1>1, <1>2, <1>4, <2>1 DEF IInv, Apart, SeenIsKnown, PassedIsKnown,
            RetryIsKnown, CommittedIsKnown, HalfIsKnown
<1> QED BY <1>5, <1>6

LEMMA StartRetryKeeps == ASSUME IInv, TInv', ~Overlap, StartRetry PROVE IInv'
<1>1. /\ retry'.pc = "sending" /\ retry'.pending = queue /\ retry'.remaining = <<>>
      /\ pass.pc = "idle"
      /\ UNCHANGED <<written, half, offset, queue, pass, received, gone, crashes>>
    BY DEF StartRetry
<1>2. Kin' = Kin
    BY <1>1 DEF Kin
<1>3. \A k : HasKey(k) => HasKey(k)'
    BY <1>2, KeysKept
<1>4. \A k : ~Carried(k)
    BY <1>1 DEF Carried
<1>5. RetryIsKnown'
    BY <1>1, ToSetOfEmpty DEF RetryIsKnown
<1> QED
    BY <1>1, <1>3, <1>4, <1>5 DEF IInv, Apart, SeenIsKnown, PassedIsKnown,
       CommittedIsKnown, HalfIsKnown

\* A step of the retry that leaves the file alone: the lines in hand are those
\* before, but for one that M4 has received.
LEMMA RetryPart ==
    ASSUME IInv, TInv', retry.pc = "sending", retry'.pc = "sending",
           received \subseteq received',
           ToSet(retry'.pending) \cup ToSet(retry'.remaining)
               \subseteq ToSet(retry.pending) \cup ToSet(retry.remaining),
           ToSet(retry.pending) \cup ToSet(retry.remaining)
               \subseteq received' \cup ToSet(retry'.pending) \cup ToSet(retry'.remaining),
           UNCHANGED <<written, half, offset, queue, pass, gone, crashes>>
    PROVE  IInv'
<1>1. Kin \subseteq Kin'
    BY DEF Kin
<1>2. \A k : HasKey(k) => HasKey(k)'
    BY <1>1, KeysKept
<1>3. pass.pc = "idle"
    BY DEF IInv, Apart
<1>4. \A k : ~Carried(k)
    BY <1>3 DEF Carried
<1>5. RetryIsKnown'
    BY DEF IInv, RetryIsKnown
<1> QED
    BY <1>2, <1>3, <1>4, <1>5 DEF IInv, Apart, SeenIsKnown, PassedIsKnown,
       CommittedIsKnown, HalfIsKnown

\* The retry's list as a head and a tail.
LEMMA PendingFact ==
    ASSUME TInv, retry.pending # <<>>
    PROVE  /\ retry.pc = "sending"
           /\ retry.pending \in Seq(Line) /\ retry.remaining \in Seq(Line)
           /\ Head(retry.pending) \in Line /\ Tail(retry.pending) \in Seq(Line)
           /\ Len(retry.pending) = Len(Tail(retry.pending)) + 1
           /\ ToSet(retry.pending) = {Head(retry.pending)} \cup ToSet(Tail(retry.pending))
<1>1. retry.pending \in Seq(Line) /\ retry.remaining \in Seq(Line)
    BY DEF TInv, TypeOK, Retry
<1>2. retry.pc = "sending"
    BY DEF TInv, TypeOK, Retry, Positions
<1> QED BY <1>1, <1>2, ToSetOfTail

\* Putting off the head of the list moves it to the lines that remain.
LEMMA PutOffFact ==
    ASSUME TInv, retry.pending # <<>>, retry' = PutOff
    PROVE  /\ retry'.pc = "sending"
           /\ retry'.pending = Tail(retry.pending)
           /\ retry'.remaining = Append(retry.remaining, Head(retry.pending))
           /\ ToSet(retry'.remaining) = ToSet(retry.remaining) \cup {Head(retry.pending)}
<1>1. /\ retry'.pc = retry.pc
      /\ retry'.pending = Tail(retry.pending)
      /\ retry'.remaining = Append(retry.remaining, Head(retry.pending))
    BY DEF PutOff, TInv, TypeOK, Retry
<1> QED BY <1>1, PendingFact, ToSetOfAppend

LEMMA ResendKeeps == ASSUME IInv, TInv', Resend PROVE IInv'
<1>1. /\ retry'.pc = retry.pc /\ retry'.pending = Tail(retry.pending)
      /\ retry'.remaining = retry.remaining
    BY DEF Resend, IInv, TInv, TypeOK, Retry
<1>2. received' = received \cup {Head(retry.pending)}
    BY DEF Resend, Sent
<1>3. /\ retry.pc = "sending"
      /\ ToSet(retry.pending) = {Head(retry.pending)} \cup ToSet(Tail(retry.pending))
    BY PendingFact DEF Resend, IInv
<1> QED BY <1>1, <1>2, <1>3, RetryPart DEF Resend

LEMMA ResendFailsKeeps == ASSUME IInv, TInv', ResendFails PROVE IInv'
<1>1. received \subseteq received'
    BY DEF ResendFails, NotSent, Sent
<1>2. /\ retry.pc = "sending" /\ retry.pending # <<>> /\ TInv
      /\ ToSet(retry.pending) = {Head(retry.pending)} \cup ToSet(Tail(retry.pending))
    BY PendingFact DEF ResendFails, IInv
<1>3. CASE retry.left > 1
    <2>1. retry' = [retry EXCEPT !.left = @ - 1]
        BY <1>3 DEF ResendFails
    <2>2. /\ retry'.pc = retry.pc /\ retry'.pending = retry.pending
          /\ retry'.remaining = retry.remaining
        BY <2>1 DEF IInv, TInv, TypeOK, Retry
    <2> QED BY <1>1, <1>2, <2>2, RetryPart DEF ResendFails
<1>4. CASE ~(retry.left > 1)
    <2>1. retry' = PutOff
        BY <1>4 DEF ResendFails
    <2>2. /\ retry'.pc = "sending" /\ retry'.pending = Tail(retry.pending)
          /\ ToSet(retry'.remaining) = ToSet(retry.remaining) \cup {Head(retry.pending)}
        BY <1>2, <2>1, PutOffFact
    <2> QED BY <1>1, <1>2, <2>2, RetryPart DEF ResendFails
<1> QED BY <1>3, <1>4

\* What leaves the file with the rewriting has been received.
LEMMA RewriteKeeps == ASSUME IInv, TInv', Rewrite PROVE IInv'
<1>1. /\ retry'.pc = "idle" /\ queue' = retry.remaining /\ pass.pc = "idle"
      /\ UNCHANGED <<written, half, offset, pass, received, gone, crashes>>
    BY DEF Rewrite, NoRetry, IInv, Apart
<1>2. ToSet(queue) \subseteq received \cup ToSet(queue')
    BY ToSetOfEmpty, <1>1 DEF Rewrite, IInv, RetryIsKnown
<1>3. Kin \subseteq Kin'
    BY <1>1, <1>2 DEF Kin
<1>4. \A k : HasKey(k) => HasKey(k)'
    BY <1>3, KeysKept
<1>5. \A k : ~Carried(k)
    BY <1>1 DEF Carried
<1> QED
    BY <1>1, <1>4, <1>5 DEF IInv, Apart, SeenIsKnown, PassedIsKnown,
       CommittedIsKnown, HalfIsKnown, RetryIsKnown

\* A crash leaves the files alone, empties the queue, or sends the offset back.
LEMMA CrashCases ==
    ASSUME Crash
    PROVE  \/ offset' = offset /\ queue' = queue /\ gone' = gone
           \/ offset' = offset /\ queue' = <<>> /\ gone' = gone \cup ToSet(queue)
           \/ offset' = Top /\ queue' = queue /\ gone' = gone
BY DEF Crash

LEMMA CrashKeeps == ASSUME IInv, TInv', Crash PROVE IInv'
<1>1. /\ pass'.pc = "idle" /\ pass'.seen = {} /\ retry'.pc = "idle"
      /\ received' = received
    BY DEF Crash, NoPass, NoRetry
<1>2. Kin \subseteq Kin' /\ gone \subseteq gone'
    BY <1>1, CrashCases DEF Kin
<1>3. \A k : HasKey(k) => HasKey(k)'
    BY <1>2, KeysKept
<1>4. offset' = offset \/ (offset'.line = 0 /\ ~offset'.mid)
    BY CrashCases DEF Top
<1>5. CommittedIsKnown'
    BY <1>3, <1>4, WantedFact DEF IInv, CommittedIsKnown
<1>6. HalfIsKnown'
    BY <1>1, <1>2, <1>4 DEF IInv, HalfIsKnown
<1> QED
    BY <1>1, <1>5, <1>6 DEF IInv, Apart, SeenIsKnown, PassedIsKnown, RetryIsKnown

\* A step that leaves the forwarder and its files alone.
LEMMA UntouchedKeeps ==
    ASSUME IInv, TInv', UNCHANGED <<offset, queue, pass, retry, received, gone>>
    PROVE  IInv'
<1>1. Kin' = Kin
    BY DEF Kin
<1>2. \A k : HasKey(k) => HasKey(k)'
    BY <1>1, KeysKept
<1>3. \A k : Carried(k) => Carried(k)'
    BY DEF Carried
<1> QED
    BY <1>2, <1>3 DEF IInv, Apart, SeenIsKnown, PassedIsKnown, CommittedIsKnown,
       HalfIsKnown, RetryIsKnown, Upcoming

LEMMA KnownStep == ~Overlap /\ IInv /\ [Next]_vars => IInv'
<1> SUFFICES ASSUME ~Overlap, IInv, [Next]_vars PROVE IInv'
    OBVIOUS
<1>1. TInv'
    BY TypeStep DEF IInv
<1>2. CASE Write \/ WriteHalf
    BY <1>1, <1>2, UntouchedKeeps DEF Write, WriteHalf
<1>3. CASE Start
    BY <1>1, <1>3, StartKeeps
<1>4. CASE Skip
    BY <1>1, <1>4, SkipKeeps
<1>5. CASE ReadBeginning
    BY <1>1, <1>5, ReadBeginningKeeps
<1>6. CASE ReadEnd
    BY <1>1, <1>6, PassOver DEF ReadEnd
<1>7. CASE Forward \/ ForwardFails
    BY <1>1, <1>7, ForwardKeeps
<1>8. CASE Enqueue
    BY <1>1, <1>8, EnqueueKeeps
<1>9. CASE Finish
    BY <1>1, <1>9, FinishKeeps
<1>10. CASE StartRetry
    BY <1>1, <1>10, StartRetryKeeps
<1>11. CASE Resend
    BY <1>1, <1>11, ResendKeeps
<1>12. CASE ResendFails
    BY <1>1, <1>12, ResendFailsKeeps
<1>13. CASE Rewrite
    BY <1>1, <1>13, RewriteKeeps
<1>14. CASE Crash
    BY <1>1, <1>14, CrashKeeps
<1>15. CASE UNCHANGED vars
    BY <1>1, <1>15, UntouchedKeeps DEF vars
<1> QED
    BY <1>2, <1>3, <1>4, <1>5, <1>6, <1>7, <1>8, <1>9, <1>10, <1>11, <1>12,
       <1>13, <1>14, <1>15 DEF Next

LEMMA Known == ASSUME ~Overlap PROVE Spec => []IInv
BY KnownInit, KnownStep, PTL DEF Spec

\* While no two runs of the forwarder coincide, no event before the offset on disk
\* is lost, wherever the forwarder dies (forwarder.py:86-146).
THEOREM NothingLost == ASSUME ~Overlap PROVE Spec => []NoEventLost
<1>1. IInv => NoEventLost
    <2> SUFFICES ASSUME IInv, NEW n \in Wanted, n <= offset.line PROVE Accounted(n)
        BY DEF NoEventLost
    <2>1. PICK m \in Kin : DedupeKey[m] = DedupeKey[n]
        BY DEF IInv, CommittedIsKnown, HasKey
    <2>2. Kin \subseteq Line
        BY ToSetInLine DEF Kin, IInv, TInv, TypeOK
    <2> QED BY <2>1, <2>2 DEF Accounted, Kin
<1> QED BY <1>1, Known, PTL

-----------------------------------------------------------------------------
(***************************************************************************)
(* The queue is bounded                                                    *)
(***************************************************************************)
\* The file and what a retry has in hand are both within max_queue_size.
Within ==
    /\ Len(queue) <= MaxQueue
    /\ Len(retry.pending) + Len(retry.remaining) <= MaxQueue

LEMMA WithinInit == Init => Within
BY ConstantsAssumption DEF Init, NoRetry, Within

LEMMA WithinStep ==
    ASSUME MaxQueue # 1, TInv, TInv', Within, [Next]_vars PROVE Within'
<1>1. /\ queue \in Seq(Line) /\ MaxQueue \in Nat /\ MaxQueue > 1 /\ Len(<<>>) = 0
      /\ retry.pending \in Seq(Line) /\ retry.remaining \in Seq(Line)
    BY ConstantsAssumption DEF TInv, TypeOK, Retry
<1>2. /\ MaxQueue \in Nat
      /\ Len(retry.pending) \in Nat /\ Len(retry.remaining) \in Nat
      /\ Len(retry.pending) + Len(retry.remaining) <= MaxQueue
    <2>1. Len(retry.pending) \in Nat
        BY <1>1, LenProperties
    <2>2. Len(retry.remaining) \in Nat
        BY <1>1, LenProperties
    <2>3. Len(retry.pending) + Len(retry.remaining) <= MaxQueue
        BY DEF Within
    <2> QED BY <1>1, <2>1, <2>2, <2>3
<1>3. ASSUME retry.pending # <<>>
      PROVE  /\ Len(Tail(retry.pending)) + Len(retry.remaining) <= MaxQueue
             /\ Len(Tail(retry.pending)) + (Len(retry.remaining) + 1) <= MaxQueue
    <2>1. Len(Tail(retry.pending)) \in Nat /\ Len(retry.pending) = Len(Tail(retry.pending)) + 1
        BY <1>3, PendingFact, LenProperties
    <2>2. \A p, r, t, b \in Nat : p + r <= b /\ p = t + 1 => t + r <= b /\ t + (r + 1) <= b
        OBVIOUS
    <2> QED BY <1>2, <2>1, <2>2, Zenon
<1>4. CASE Enqueue
    <2>1. Kept(queue) \in Seq(Line) /\ Len(Kept(queue)) <= MaxQueue - 1
        BY <1>1, KeptFact
    <2>2. pass.at.line \in Line
        BY <1>4 DEF Enqueue, TInv, Positions
    <2>3. Len(Append(Kept(queue), pass.at.line)) = Len(Kept(queue)) + 1
        BY <2>1, <2>2
    <2>4. Len(queue') <= MaxQueue
        BY <1>1, <1>4, <2>1, <2>3 DEF Enqueue
    <2> QED BY <1>4, <2>4 DEF Enqueue, Within
<1>5. CASE StartRetry
    BY <1>1, <1>5 DEF StartRetry, Within
<1>6. CASE Resend
    <2>1. /\ retry'.pending = Tail(retry.pending) /\ retry'.remaining = retry.remaining
          /\ queue' = queue
        BY <1>6 DEF Resend, TInv, TypeOK, Retry
    <2>2. Len(retry'.pending) + Len(retry'.remaining) <= MaxQueue
        BY <1>3, <1>6, <2>1 DEF Resend
    <2> QED BY <2>1, <2>2 DEF Within
<1>7. CASE ResendFails
    <2>1. /\ Len(retry.pending) = Len(Tail(retry.pending)) + 1 /\ retry.pending # <<>>
          /\ Tail(retry.pending) \in Seq(Line) /\ queue' = queue
          /\ Head(retry.pending) \in Line
        BY <1>7, PendingFact DEF ResendFails
    <2>2. CASE retry.left > 1
        <3>1. retry'.pending = retry.pending /\ retry'.remaining = retry.remaining
            BY <1>7, <2>2 DEF ResendFails, TInv, TypeOK, Retry
        <3> QED BY <2>1, <3>1 DEF Within
    <2>3. CASE ~(retry.left > 1)
        <3>1. /\ retry'.pending = Tail(retry.pending)
              /\ retry'.remaining = Append(retry.remaining, Head(retry.pending))
            BY <1>7, <2>1, <2>3, PutOffFact DEF ResendFails
        <3>2. Len(retry'.remaining) = Len(retry.remaining) + 1
            BY <1>1, <2>1, <3>1
        <3>3. Len(Tail(retry.pending)) + (Len(retry.remaining) + 1) <= MaxQueue
            BY <1>3, <2>1
        <3>4. Len(retry'.pending) + Len(retry'.remaining) <= MaxQueue
            BY <3>1, <3>2, <3>3
        <3> QED BY <2>1, <3>4 DEF Within
    <2> QED BY <2>2, <2>3
<1>8. CASE Rewrite
    <2>1. queue' = retry.remaining /\ retry' = NoRetry /\ retry.pending = <<>>
        BY <1>8 DEF Rewrite
    <2>2. Len(retry.remaining) <= MaxQueue
        BY <1>1, <2>1 DEF Within
    <2> QED BY <1>1, <2>1, <2>2 DEF Within, NoRetry
<1>9. CASE Crash
    <2>1. queue' = queue \/ queue' = <<>>
        BY <1>9, CrashCases
    <2> QED BY <1>1, <1>9, <2>1 DEF Crash, NoRetry, Within
<1>10. CASE UNCHANGED <<queue, retry>>
    BY <1>10 DEF Within
<1> QED
    BY <1>4, <1>5, <1>6, <1>7, <1>8, <1>9, <1>10 DEF Next, vars, Write, WriteHalf,
       Start, Skip, ReadBeginning, ReadEnd, Forward, ForwardFails, Finish

\* The queue file stays within max_queue_size, whatever coincides with whatever,
\* unless the size is 1, where the code keeps the whole file (forwarder.py:112-118).
THEOREM QueueStaysBounded == ASSUME MaxQueue # 1 PROVE Spec => []QueueBounded
<1>1. Init => TInv /\ Within
    BY TypeInit, WithinInit
<1>2. TInv /\ Within /\ [Next]_vars => (TInv /\ Within)'
    BY TypeStep, WithinStep
<1>3. Within => QueueBounded
    BY DEF Within, QueueBounded
<1> QED BY <1>1, <1>2, <1>3, PTL DEF Spec

-----------------------------------------------------------------------------
(***************************************************************************)
(* The forwarder implements AlertDelivery                                  *)
(***************************************************************************)
LEMMA DeliveryInit == Init => Promise!Init
BY ToSetOfEmpty DEF Init, Promise!Init, Top

\* A step that sends an alert delivers it, or leaves everything as it was.
LEMMA SendDelivers ==
    ASSUME NEW n \in Line, NotSent(n) \/ Sent(n), UNCHANGED <<offset, queue, gone>>
    PROVE  Promise!Deliver \/ UNCHANGED Promise!vars
BY DEF NotSent, Sent, Promise!Deliver, Promise!vars

LEMMA EnqueueBuffers == ASSUME IInv, Enqueue PROVE Promise!Buffer
<1>1. pass.at.line \in Line /\ queue \in Seq(Line) /\ Kept(queue) \in Seq(Line)
    BY KeptFact DEF Enqueue, IInv, TInv, TypeOK, Positions
<1>2. ToSet(queue') = ToSet(Kept(queue)) \cup {pass.at.line}
    BY <1>1, ToSetOfAppend DEF Enqueue
<1>3. ToSet(Kept(queue)) \subseteq ToSet(queue)
    BY <1>1, KeptFact
<1> DEFINE out == ToSet(queue) \ ToSet(Kept(queue))
<1>4. out \in SUBSET ToSet(queue)
    OBVIOUS
<1>5. ToSet(queue') = (ToSet(queue) \ out) \cup {pass.at.line}
    BY <1>2, <1>3
<1>6. gone' = gone \cup out /\ UNCHANGED <<offset, received>>
    BY DEF Enqueue
<1> QED BY <1>1, <1>4, <1>5, <1>6 DEF Promise!Buffer

LEMMA FinishCommits ==
    ASSUME IInv, IInv', Finish PROVE Promise!Commit \/ UNCHANGED Promise!vars
<1>1. UNCHANGED <<queue, received>>
    BY DEF Finish
<1>2. CASE pass.resume
    <2>1. offset' = pass.at /\ gone' = gone \cup pass.cut
        BY <1>2 DEF Finish
    <2>2. pass.at.line \in Line \cup {0} /\ pass.cut \in SUBSET Line
        BY ConstantsAssumption DEF IInv, TInv, TypeOK, Pass, Position, Line
    <2>3. ASSUME NEW a \in Wanted, a <= pass.at.line
          PROVE  Promise!SettledIn(a, received \cup ToSet(queue) \cup gone')
        <3>1. PICK m \in Kin' : DedupeKey[m] = DedupeKey[a]
            BY <2>1, <2>3 DEF IInv, CommittedIsKnown, HasKey
        <3> QED BY <1>1, <3>1 DEF Kin, Promise!SettledIn, Copies
    <2> QED BY <1>1, <2>1, <2>2, <2>3 DEF Promise!Commit
<1>3. CASE ~pass.resume
    BY <1>1, <1>3 DEF Finish, Promise!vars
<1> QED BY <1>2, <1>3

LEMMA RewriteReleases == ASSUME IInv, Rewrite PROVE Promise!Release
<1>1. /\ queue' = retry.remaining /\ retry.pending = <<>> /\ retry.pc = "sending"
      /\ UNCHANGED <<offset, received, gone>>
    BY DEF Rewrite
<1>2. /\ ToSet(queue') \subseteq ToSet(queue)
      /\ ToSet(queue) \subseteq received \cup ToSet(queue')
    BY <1>1, ToSetOfEmpty DEF IInv, RetryIsKnown
<1> DEFINE out == ToSet(queue) \ ToSet(queue')
<1>3. out \in SUBSET (ToSet(queue) \cap received) /\ ToSet(queue') = ToSet(queue) \ out
    BY <1>2
<1> QED BY <1>1, <1>3 DEF Promise!Release

LEMMA CrashForgets ==
    ASSUME Crash
    PROVE  Promise!LoseBuffer \/ Promise!Forget \/ UNCHANGED Promise!vars
<1>1. received' = received
    BY DEF Crash
<1> QED BY <1>1, CrashCases, ToSetOfEmpty
        DEF Promise!LoseBuffer, Promise!Forget, Promise!vars, Top

LEMMA DeliveryStep ==
    ASSUME IInv, IInv', [Next]_vars PROVE [Promise!Next]_(Promise!vars)
<1>1. CASE Forward
    <2>1. Upcoming \in Line
        BY <1>1, AfterFact DEF Forward, Reads, IInv
    <2> QED BY <1>1, <2>1, SendDelivers DEF Forward, Promise!Next
<1>2. CASE ForwardFails
    <2>1. Upcoming \in Line
        BY <1>2, AfterFact DEF ForwardFails, Reads, IInv
    <2> QED BY <1>2, <2>1, SendDelivers DEF ForwardFails, Promise!Next
<1>3. CASE Enqueue
    BY <1>3, EnqueueBuffers DEF Promise!Next
<1>4. CASE Finish
    BY <1>4, FinishCommits DEF Promise!Next
<1>5. CASE Resend \/ ResendFails
    <2>1. Head(retry.pending) \in Line
        BY <1>5, PendingFact DEF Resend, ResendFails, IInv
    <2> QED BY <1>5, <2>1, SendDelivers DEF Resend, ResendFails, Promise!Next
<1>6. CASE Rewrite
    BY <1>6, RewriteReleases DEF Promise!Next
<1>7. CASE Crash
    BY <1>7, CrashForgets DEF Promise!Next
<1>8. CASE UNCHANGED <<offset, queue, received, gone>>
    BY <1>8 DEF Promise!vars
<1> QED
    BY <1>1, <1>2, <1>3, <1>4, <1>5, <1>6, <1>7, <1>8 DEF Next, vars, Write,
       WriteHalf, Start, Skip, ReadBeginning, ReadEnd, StartRetry

\* The forwarder keeps the promise of AlertDelivery while no two of its runs
\* coincide: an alert leaves the queue file only when M4 has received it or it is
\* given up, and the offset moves only past alerts that are accounted for
\* (forwarder.py:86-146).
THEOREM Implements == ASSUME ~Overlap PROVE Spec => Delivered
<1>1. IInv /\ IInv' /\ [Next]_vars => [Promise!Next]_(Promise!vars)
    BY DeliveryStep
<1> QED BY <1>1, Known, DeliveryInit, PTL DEF Spec, Delivered, Promise!Spec
=============================================================================
