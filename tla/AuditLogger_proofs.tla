------------------------- MODULE AuditLogger_proofs -------------------------
(***************************************************************************)
(* The safety properties of AuditLogger for any number of emitters,        *)
(* closers and events and any capacity.                                    *)
(***************************************************************************)
EXTENDS AuditLogger, SequenceTheorems, TLAPS

(***************************************************************************)
(* Why the mutex is enough.  Whoever is between its RLock and its RUnlock  *)
(* is a reader; nobody who passed the check of closed is beside a Close;   *)
(* and the channel is closed by the goroutine that set the flag.           *)
(***************************************************************************)
ReadersHold ==
  readers = {e \in Emitter : emit[e] \in {"locked", "send", "unlock", "panicked"}}

SendersSawOpen == \A e \in Emitter : emit[e] = "send" => ~closed

OneWriter ==
  \A k, l \in Closer :
    close[k] \in {"locked", "closing"} /\ close[l] \in {"locked", "closing"} => k = l

FlagThenChannel ==
  /\ chanClosed => closed
  /\ \A k \in Closer :
       /\ close[k] \in {"closing", "await", "drained"} => closed
       /\ close[k] \in {"await", "drained"} => chanClosed

Numbered == \A e \in Emitter : emit[e] # "idle" => emitted[e] \in 1..Events

\* What the goroutine has in hand, and when it is done.
DrainHolds ==
  /\ drain = "record" \/ current = <<>>
  /\ drain = "done" => chanClosed /\ queue = <<>>
  /\ \A k \in Closer : close[k] = "drained" => drain = "done"

AuditInv ==
  /\ AuditTypeOK
  /\ NeverPanics
  /\ HandledInOrder
  /\ ReadersHold
  /\ SendersSawOpen
  /\ OneWriter
  /\ FlagThenChannel
  /\ Numbered
  /\ DrainHolds

-----------------------------------------------------------------------------
(* Sequences.                                                              *)

\* An event that is appended to the buffer is appended to the whole.
AppendsLast(s, t, u, x) == Append(s \o t \o u, x) = s \o t \o Append(u, x)

LEMMA AppendToLast ==
  ASSUME NEW s \in Seq(Event), NEW t \in Seq(Event), NEW u \in Seq(Event), NEW x \in Event
  PROVE  AppendsLast(s, t, u, x)
<1>1. ASSUME NEW a \in Seq(Event)
      PROVE  Append(a \o u, x) = a \o Append(u, x)
  <2> DEFINE l == Append(a \o u, x)
             r == a \o Append(u, x)
             n == Len(a) + Len(u) + 1
  <2>1. l \in Seq(Event) /\ r \in Seq(Event) /\ Len(l) = n /\ Len(r) = n
    OBVIOUS
  <2>2. ASSUME NEW i \in 1..n PROVE l[i] = r[i]
    <3>1. CASE i \in 1..Len(a)
      BY <3>1
    <3>2. CASE i \in (Len(a) + 1)..(Len(a) + Len(u))
      BY <3>2
    <3>3. CASE i = n
      BY <3>3
    <3> QED BY <3>1, <3>2, <3>3
  <2> HIDE DEF l, r, n
  <2>3. l = r
    BY <2>1, <2>2, SeqEqual
  <2> QED BY <2>3 DEF l, r
<1>2. s \o t \in Seq(Event)
  OBVIOUS
<1> QED BY <1>1, <1>2 DEF AppendsLast

\* The head that is taken into the empty hand leaves the whole as it was.
LEMMA HeadInHand ==
  ASSUME NEW S, NEW s \in Seq(S), NEW u \in Seq(S), u # <<>>
  PROVE  s \o <<>> \o u = s \o <<Head(u)>> \o Tail(u)
<1>1. Head(u) \in S /\ Tail(u) \in Seq(S) /\ <<Head(u)>> \in Seq(S)
  BY HeadTailProperties
<1>2. <<Head(u)>> \o Tail(u) = u
  BY <1>1, HeadTailProperties
<1>3. s \o <<>> = s
  BY ConcatEmptySeq
<1> QED BY <1>1, <1>2, <1>3, ConcatAssociative
-----------------------------------------------------------------------------
LEMMA AuditInvInit == Init => AuditInv
<1> SUFFICES ASSUME Init PROVE AuditInv
  OBVIOUS
<1>1. AuditTypeOK
  <2>1. <<>> \in Seq(Event) /\ Len(<<>>) = 0
    BY EmptySeq
  <2>2. {queue, current, sink, accepted, handled} \subseteq Seq(Event) /\ Len(queue) <= Capacity
    BY <2>1, AuditAssumption DEF Init
  <2>3. /\ emit \in [Emitter -> {"idle"}] /\ emitted \in [Emitter -> 0..Events]
        /\ close \in [Closer -> {"idle"}]
    BY AuditAssumption DEF Init
  <2> QED
    BY <2>2, <2>3 DEF Init, AuditTypeOK, WriterHolds
<1>2. HandledInOrder
  BY EmptySeq, ConcatEmptySeq DEF Init, HandledInOrder
<1> QED
  BY <1>1, <1>2 DEF Init, AuditInv, NeverPanics, ReadersHold, SendersSawOpen,
     OneWriter, FlagThenChannel, Numbered, DrainHolds

\* A call of Emit that does not reach the channel.
LEMMA EmitBesideChannel ==
  ASSUME AuditInv, NEW e \in Emitter,
         EmitCalled(e) \/ RLock(e) \/ CheckClosed(e) \/ RUnlock(e)
  PROVE  AuditInv'
<1> USE DEF AuditInv
<1>1. AuditTypeOK'
  <2>1. CASE EmitCalled(e)
    BY <2>1, AuditAssumption
    DEF AuditTypeOK, EmitCalled, mutexVars, chanVars, drainVars, WriterHolds
  <2>2. CASE RLock(e)
    BY <2>2 DEF AuditTypeOK, RLock, chanVars, drainVars, WriterHolds, WriterPresent
  <2>3. CASE CheckClosed(e)
    BY <2>3 DEF AuditTypeOK, CheckClosed, mutexVars, chanVars, drainVars, WriterHolds
  <2>4. CASE RUnlock(e)
    BY <2>4 DEF AuditTypeOK, RUnlock, chanVars, drainVars, WriterHolds
  <2> QED BY <2>1, <2>2, <2>3, <2>4
<1>2. UNCHANGED <<close, closed, chanClosed, queue, drain, current, accepted, handled>>
  BY DEF EmitCalled, RLock, CheckClosed, RUnlock, mutexVars, chanVars, drainVars
<1>3. NeverPanics' /\ SendersSawOpen'
  BY <1>2 DEF AuditTypeOK, NeverPanics, SendersSawOpen,
     EmitCalled, RLock, CheckClosed, RUnlock
<1>4. Numbered'
  BY AuditAssumption DEF AuditTypeOK, Numbered, EmitCalled, RLock, CheckClosed, RUnlock
<1>5. ReadersHold'
  <2>1. CASE EmitCalled(e)
    BY <2>1 DEF AuditTypeOK, ReadersHold, EmitCalled, mutexVars
  <2>2. CASE RLock(e)
    BY <2>2 DEF AuditTypeOK, ReadersHold, RLock
  <2>3. CASE CheckClosed(e)
    BY <2>3 DEF AuditTypeOK, ReadersHold, CheckClosed, mutexVars
  <2>4. CASE RUnlock(e)
    BY <2>4 DEF AuditTypeOK, ReadersHold, RUnlock
  <2> QED BY <2>1, <2>2, <2>3, <2>4
<1> QED
  BY <1>1, <1>2, <1>3, <1>4, <1>5 DEF HandledInOrder, OneWriter, FlagThenChannel, DrainHolds

\* A send finds the channel open: the flag is set before the channel is
\* closed, and the flag was not set when the sender, a reader, looked.
LEMMA SendKeeps ==
  ASSUME AuditInv, NEW e \in Emitter, Send(e)
  PROVE  AuditInv'
<1> USE DEF AuditInv
<1> DEFINE sent == <<e, emitted[e]>>
<1>1. ~chanClosed /\ sent \in Event
  BY DEF Send, SendersSawOpen, FlagThenChannel, Numbered, Event
<1>2. /\ emit' = [emit EXCEPT ![e] = "unlock"]
      /\ UNCHANGED <<emitted, close, readers, closed, chanClosed, drain, current, sink, handled>>
      /\ \/ /\ Len(queue) < Capacity
            /\ queue' = Append(queue, sent)
            /\ accepted' = Append(accepted, sent)
         \/ UNCHANGED <<queue, accepted>>
  BY <1>1 DEF Send, mutexVars, chanVars, drainVars
<1> HIDE DEF sent
<1> /\ queue \in Seq(Event) /\ current \in Seq(Event)
    /\ handled \in Seq(Event) /\ accepted \in Seq(Event)
  BY DEF AuditTypeOK
<1>3. AuditTypeOK'
  <2>1. /\ Append(queue, sent) \in Seq(Event) /\ Len(Append(queue, sent)) = Len(queue) + 1
        /\ Append(accepted, sent) \in Seq(Event) /\ Len(queue) \in Nat
    BY <1>1, AppendProperties, LenProperties
  <2>2. Len(queue) <= Capacity
    BY DEF AuditTypeOK
  <2>3. queue' \in Seq(Event) /\ accepted' \in Seq(Event) /\ Len(queue') <= Capacity
    <3>1. CASE /\ Len(queue) < Capacity
               /\ queue' = Append(queue, sent) /\ accepted' = Append(accepted, sent)
      <4>1. Len(queue) + 1 <= Capacity
        BY <2>1, <3>1, AuditAssumption
      <4> QED BY <2>1, <3>1, <4>1, Zenon
    <3>2. CASE UNCHANGED <<queue, accepted>>
      BY <2>2, <3>2
    <3> QED BY <1>2, <3>1, <3>2
  <2> QED BY <1>2, <2>3 DEF AuditTypeOK, WriterHolds
<1>4. HandledInOrder'
  <2>1. Append(handled \o current \o queue, sent) = handled \o current \o Append(queue, sent)
    <3> HIDE DEF AuditInv
    <3>1. handled \in Seq(Event) /\ current \in Seq(Event) /\ queue \in Seq(Event) /\ sent \in Event
      BY <1>1
    <3>2. AppendsLast(handled, current, queue, sent)
      BY <3>1, AppendToLast
    <3> QED BY <3>2 DEF AppendsLast
  <2>2. accepted = handled \o current \o queue
    BY DEF HandledInOrder
  <2> QED BY <1>2, <2>1, <2>2 DEF HandledInOrder
<1>5. NeverPanics' /\ Numbered' /\ SendersSawOpen' /\ ReadersHold'
  BY <1>2 DEF AuditTypeOK, NeverPanics, Numbered, SendersSawOpen, ReadersHold, Send
<1> QED
  BY <1>1, <1>2, <1>3, <1>4, <1>5 DEF OneWriter, FlagThenChannel, DrainHolds

\* The writer that tests and sets the flag has no reader beside it.
LEMMA CloseKeeps ==
  ASSUME AuditInv, NEW k \in Closer, Close(k)
  PROVE  AuditInv'
<1> USE DEF AuditInv, Close
<1>1. UNCHANGED <<emit, emitted, readers, queue, drain, current, sink, handled, accepted>>
  BY DEF CloseCalled, Lock, TestClosed, CloseEvents, AwaitDone, emitVars, drainVars
<1>2. AuditTypeOK'
  <2>1. CASE CloseCalled(k)
    BY <2>1, <1>1 DEF AuditTypeOK, CloseCalled, chanVars, WriterHolds
  <2>2. CASE Lock(k)
    BY <2>2, <1>1 DEF AuditTypeOK, Lock, chanVars, WriterHolds
  <2>3. CASE TestClosed(k)
    BY <2>3, <1>1 DEF AuditTypeOK, TestClosed, WriterHolds
  <2>4. CASE CloseEvents(k)
    BY <2>4, <1>1 DEF AuditTypeOK, CloseEvents, WriterHolds
  <2>5. CASE AwaitDone(k)
    BY <2>5, <1>1 DEF AuditTypeOK, AwaitDone, chanVars, WriterHolds
  <2> QED BY <2>1, <2>2, <2>3, <2>4, <2>5
<1>3. SendersSawOpen'
  BY <1>1 DEF AuditTypeOK, SendersSawOpen, ReadersHold, WriterHolds,
     CloseCalled, Lock, TestClosed, CloseEvents, AwaitDone, chanVars
<1>4. OneWriter'
  <2>1. CASE CloseCalled(k)
    BY <2>1 DEF AuditTypeOK, OneWriter, WriterHolds, CloseCalled
  <2>2. CASE Lock(k)
    BY <2>2 DEF AuditTypeOK, OneWriter, WriterHolds, Lock
  <2>3. CASE TestClosed(k)
    BY <2>3 DEF AuditTypeOK, OneWriter, WriterHolds, TestClosed
  <2>4. CASE CloseEvents(k)
    BY <2>4 DEF AuditTypeOK, OneWriter, WriterHolds, CloseEvents
  <2>5. CASE AwaitDone(k)
    BY <2>5 DEF AuditTypeOK, OneWriter, WriterHolds, AwaitDone
  <2> QED BY <2>1, <2>2, <2>3, <2>4, <2>5
<1>5. FlagThenChannel'
  BY DEF AuditTypeOK, FlagThenChannel,
     CloseCalled, Lock, TestClosed, CloseEvents, AwaitDone, chanVars
<1>6. DrainHolds'
  BY <1>1 DEF AuditTypeOK, DrainHolds,
     CloseCalled, Lock, TestClosed, CloseEvents, AwaitDone, chanVars
<1> QED
  BY <1>1, <1>2, <1>3, <1>4, <1>5, <1>6 DEF NeverPanics, HandledInOrder, ReadersHold, Numbered

\* The goroutine moves the head of the buffer into its hand and on.
LEMMA DrainKeeps ==
  ASSUME AuditInv, Drain
  PROVE  AuditInv'
<1> USE DEF AuditInv
<1>1. UNCHANGED <<emit, emitted, close, readers, closed, chanClosed, accepted>>
  BY DEF Drain, Receive, Record, Stop, emitVars, mutexVars, chanVars
<1>2. AuditTypeOK' /\ HandledInOrder' /\ DrainHolds'
  <2>1. CASE Receive
    <3>1. current = <<>> /\ queue # <<>> /\ current' = <<Head(queue)>> /\ queue' = Tail(queue)
      BY <2>1 DEF Receive, DrainHolds
    <3>2. Head(queue) \in Event /\ Tail(queue) \in Seq(Event) /\ Len(Tail(queue)) = Len(queue) - 1
      BY <3>1, HeadTailProperties DEF AuditTypeOK
    <3>3. AuditTypeOK'
      BY <1>1, <2>1, <3>1, <3>2, AuditAssumption DEF AuditTypeOK, Receive, WriterHolds
    <3>4. HandledInOrder'
      BY <1>1, <2>1, <3>1, HeadInHand DEF HandledInOrder, AuditTypeOK, Receive
    <3>5. DrainHolds'
      BY <1>1, <2>1 DEF DrainHolds, Receive
    <3> QED BY <3>3, <3>4, <3>5
  <2>2. CASE Record
    <3>1. handled \o current \in Seq(Event) /\ sink \o current \in Seq(Event)
      BY ConcatProperties DEF AuditTypeOK
    <3>2. AuditTypeOK'
      <4>1. /\ UNCHANGED queue /\ drain' = "receive"
            /\ {current', sink', handled'} \subseteq Seq(Event)
        BY <2>2, <3>1, EmptySeq DEF AuditTypeOK, Record
      <4> QED BY <1>1, <4>1 DEF AuditTypeOK, WriterHolds
    <3>3. (handled \o current) \o <<>> = handled \o current
      BY <3>1, ConcatEmptySeq
    <3>4. HandledInOrder'
      BY <1>1, <2>2, <3>3 DEF HandledInOrder, Record
    <3>5. DrainHolds'
      BY <1>1, <2>2 DEF DrainHolds, Record
    <3> QED BY <3>2, <3>4, <3>5
  <2>3. CASE Stop
    BY <1>1, <2>3 DEF AuditTypeOK, HandledInOrder, DrainHolds, Stop, WriterHolds
  <2> QED BY <2>1, <2>2, <2>3 DEF Drain
<1> QED
  BY <1>1, <1>2 DEF NeverPanics, ReadersHold, SendersSawOpen, OneWriter, FlagThenChannel, Numbered

(***************************************************************************)
(* The invariant holds always.                                             *)
(***************************************************************************)
THEOREM AuditInvariant == Spec => []AuditInv
<1>1. AuditInv /\ [Next]_vars => AuditInv'
  <2> SUFFICES ASSUME AuditInv, [Next]_vars PROVE AuditInv'
    OBVIOUS
  <2>1. CASE Next
    BY <2>1, EmitBesideChannel, SendKeeps, CloseKeeps, DrainKeeps DEF Next, Emit
  <2>2. CASE UNCHANGED vars
    BY <2>2 DEF vars, emitVars, mutexVars, chanVars, drainVars, AuditInv, AuditTypeOK,
       NeverPanics, HandledInOrder, ReadersHold, SendersSawOpen, OneWriter,
       FlagThenChannel, Numbered, DrainHolds, WriterHolds
  <2> QED BY <2>1, <2>2
<1> QED BY <1>1, AuditInvInit, PTL DEF Spec

(***************************************************************************)
(* The buffer stays within its capacity and no reader holds the mutex      *)
(* beside a writer.                                                        *)
(***************************************************************************)
THEOREM AuditTypeCorrect == Spec => []AuditTypeOK
BY AuditInvariant, PTL DEF AuditInv

(***************************************************************************)
(* However Emit and Close interleave, no event is sent on the closed       *)
(* channel.                                                                *)
(***************************************************************************)
THEOREM EmitNeverPanics == Spec => []NeverPanics
BY AuditInvariant, PTL DEF AuditInv

(***************************************************************************)
(* The goroutine handles what was accepted, once and in order.             *)
(***************************************************************************)
THEOREM EventsInOrder == Spec => []HandledInOrder
BY AuditInvariant, PTL DEF AuditInv

(***************************************************************************)
(* The Close that closed the channel has drained every accepted event when *)
(* it returns: then the buffer and the goroutine's hand are empty.         *)
(***************************************************************************)
THEOREM CloseDrainsAll == Spec => []CloseDrains
<1>1. AuditInv => CloseDrains
  <2> SUFFICES ASSUME AuditInv, NEW k \in Closer, close[k] = "drained"
               PROVE  handled = accepted
    BY DEF CloseDrains
  <2>1. current = <<>> /\ queue = <<>>
    BY DEF AuditInv, DrainHolds
  <2>2. handled \in Seq(Event) /\ accepted = handled \o <<>> \o <<>>
    BY <2>1 DEF AuditInv, HandledInOrder, AuditTypeOK
  <2> QED BY <2>2, ConcatEmptySeq
<1> QED BY <1>1, AuditInvariant, PTL
-----------------------------------------------------------------------------
(***************************************************************************)
(* Who is in a call and waits for nobody: the guards of Emit, Close and    *)
(* run once a call is under way.                                           *)
(***************************************************************************)
EmitterMoves(e) ==
  \/ emit[e] \in {"locked", "send", "unlock"}
  \/ emit[e] = "rlock" /\ ~WriterPresent

WriterMoves(k) ==
  \/ close[k] \in {"locked", "closing"}
  \/ close[k] = "lock" /\ readers = {} /\ ~WriterHolds

DrainMoves ==
  \/ drain = "record"
  \/ drain = "receive" /\ (queue # <<>> \/ chanClosed)

SomebodyPasses == (\E e \in Emitter : EmitterMoves(e)) \/ (\E k \in Closer : WriterMoves(k))

(***************************************************************************)
(* No circle of waits.  While an Emit, or a Close short of <-done, is      *)
(* under way, one of these calls waits for nobody, not even for the sink:  *)
(* writers keep new readers out, but the readers they wait for never block *)
(* on the full buffer.  And while a Close waits for the goroutine, that    *)
(* goroutine has an event to record, one to receive, or a closed channel   *)
(* to leave by, or it is done.                                             *)
(***************************************************************************)
NoWaitCycle ==
  /\ \A e \in Emitter : emit[e] # "idle" => SomebodyPasses
  /\ \A k \in Closer : close[k] \in {"lock", "locked", "closing"} => SomebodyPasses
  /\ \A k \in Closer : close[k] = "await" => DrainMoves \/ drain = "done"

\* A waiting writer waits for a reader, who goes on, or for a writer at work.
LEMMA WriterPasses ==
  ASSUME AuditInv, NEW k \in Closer, close[k] \in {"lock", "locked", "closing"}
  PROVE  SomebodyPasses
<1>1. CASE WriterHolds
  BY <1>1 DEF WriterHolds, SomebodyPasses, WriterMoves
<1>2. CASE ~WriterHolds /\ readers = {}
  BY <1>2 DEF WriterHolds, SomebodyPasses, WriterMoves
<1>3. CASE readers # {}
  <2>1. PICK e \in Emitter : emit[e] \in {"locked", "send", "unlock", "panicked"}
    BY <1>3 DEF AuditInv, ReadersHold
  <2>2. emit[e] # "panicked"
    BY DEF AuditInv, NeverPanics
  <2> QED BY <2>1, <2>2 DEF SomebodyPasses, EmitterMoves
<1> QED BY <1>1, <1>2, <1>3

(***************************************************************************)
(* However emitters, closers and the goroutine interleave, the calls never *)
(* wait for each other in a circle, and none but a Close waits for the     *)
(* sink.                                                                   *)
(***************************************************************************)
THEOREM CallsNeverWaitInCircle == Spec => []NoWaitCycle
<1>1. ASSUME AuditInv, NEW e \in Emitter, emit[e] # "idle"
      PROVE  SomebodyPasses
  <2>1. emit[e] \in {"rlock", "locked", "send", "unlock"}
    BY <1>1 DEF AuditInv, AuditTypeOK, NeverPanics
  <2>2. CASE WriterPresent
    BY <1>1, <2>2, WriterPasses DEF WriterPresent
  <2>3. CASE ~WriterPresent
    BY <2>1, <2>3 DEF SomebodyPasses, EmitterMoves
  <2> QED BY <2>2, <2>3
<1>2. ASSUME AuditInv, NEW k \in Closer, close[k] = "await"
      PROVE  DrainMoves \/ drain = "done"
  BY <1>2 DEF AuditInv, AuditTypeOK, FlagThenChannel, DrainMoves
<1>3. AuditInv => NoWaitCycle
  BY <1>1, <1>2, WriterPasses DEF NoWaitCycle
<1> QED BY <1>3, AuditInvariant, PTL
=============================================================================
