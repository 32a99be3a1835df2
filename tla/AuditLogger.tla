---------------------------- MODULE AuditLogger ----------------------------
(***************************************************************************)
(* The audit logger (audit/audit.go): request handlers emit events into a  *)
(* bounded channel, one goroutine drains it into the sink, and Close ends  *)
(* it.  A read-write mutex keeps sends off a closed channel.               *)
(*                                                                         *)
(* An emitter is a goroutine that emits a few events one after the other;  *)
(* an event is the emitter and its number.  A closer is a goroutine that   *)
(* calls Close.  The mutex is Go's: a goroutine that waits for the write   *)
(* lock keeps new readers out.                                             *)
(***************************************************************************)
EXTENDS Integers, Sequences, FiniteSets

CONSTANTS
  Emitter,
  Closer,
  Events,    \* how many events an emitter emits (a bound of the model)
  Capacity   \* defaultBufferSize

ASSUME AuditAssumption ==
  /\ Emitter \cap Closer = {}
  /\ Events \in Nat
  /\ Capacity \in Nat

VARIABLES
  emit,       \* where each emitter is in Emit
  emitted,    \* how many events each has emitted
  close,      \* where each closer is in Close
  readers,    \* who holds the mutex for reading
  closed,     \* Logger.closed
  chanClosed, \* Logger.events is closed
  queue,      \* Logger.events
  drain,      \* the goroutine of run: "receive", "record" or "done"
  current,    \* the event it records, as a sequence of at most one
  sink,       \* what the sink has recorded
  accepted,   \* the events sent to the channel, in the order of the sends
  handled     \* those the goroutine is done with, recorded or not

emitVars == <<emit, emitted>>
mutexVars == <<close, readers>>
chanVars == <<closed, chanClosed>>
drainVars == <<drain, current, sink, handled>>
vars == <<emitVars, mutexVars, chanVars, queue, drainVars, accepted>>

Event == Emitter \X (1..Events)

Init ==
  /\ emit = [e \in Emitter |-> "idle"]
  /\ emitted = [e \in Emitter |-> 0]
  /\ close = [k \in Closer |-> "idle"]
  /\ readers = {}
  /\ closed = FALSE
  /\ chanClosed = FALSE
  /\ queue = <<>>
  /\ drain = "receive"
  /\ current = <<>>
  /\ sink = <<>>
  /\ accepted = <<>>
  /\ handled = <<>>

\* A goroutine holds the write lock or waits for it.
WriterPresent == \E k \in Closer : close[k] \in {"lock", "locked", "closing"}
WriterHolds == \E k \in Closer : close[k] \in {"locked", "closing"}
-----------------------------------------------------------------------------
(* Logger.Emit                                                             *)

EmitCalled(e) ==
  /\ emit[e] = "idle" /\ emitted[e] < Events
  /\ emit' = [emit EXCEPT ![e] = "rlock"]
  /\ emitted' = [emitted EXCEPT ![e] = @ + 1]
  /\ UNCHANGED <<mutexVars, chanVars, queue, drainVars, accepted>>

RLock(e) ==
  /\ emit[e] = "rlock" /\ ~WriterPresent
  /\ emit' = [emit EXCEPT ![e] = "locked"]
  /\ readers' = readers \cup {e}
  /\ UNCHANGED <<emitted, close, chanVars, queue, drainVars, accepted>>

\* A check that gives the lock back before the send.
CheckAndRelease(e) ==
  /\ emit[e] = "locked"
  /\ emit' = [emit EXCEPT ![e] = IF closed THEN "unlock" ELSE "send"]
  /\ readers' = readers \ {e}
  /\ UNCHANGED <<emitted, close, chanVars, queue, drainVars, accepted>>

CheckClosed(e) ==
  /\ emit[e] = "locked"
  /\ emit' = [emit EXCEPT ![e] = IF closed THEN "unlock" ELSE "send"]
  /\ UNCHANGED <<emitted, mutexVars, chanVars, queue, drainVars, accepted>>

\* A send that waits for room.
SendBlocking(e) ==
  /\ emit[e] = "send"
  /\ Len(queue) < Capacity
  /\ queue' = Append(queue, <<e, emitted[e]>>)
  /\ accepted' = Append(accepted, <<e, emitted[e]>>)
  /\ emit' = [emit EXCEPT ![e] = "unlock"]
  /\ UNCHANGED <<emitted, mutexVars, chanVars, drainVars>>

\* A full buffer that makes room for the newest event.
SendDropsOldest(e) ==
  /\ emit[e] = "send"
  /\ IF chanClosed
     THEN emit' = [emit EXCEPT ![e] = "panicked"] /\ UNCHANGED <<queue, accepted>>
     ELSE /\ emit' = [emit EXCEPT ![e] = "unlock"]
          /\ queue' = Append(IF Len(queue) < Capacity THEN queue ELSE Tail(queue),
                             <<e, emitted[e]>>)
          /\ accepted' = Append(accepted, <<e, emitted[e]>>)
  /\ UNCHANGED <<emitted, mutexVars, chanVars, drainVars>>

\* The send of the select, or its default when the buffer is full.  A send
\* on a closed channel panics, whether or not there is room.
Send(e) ==
  /\ emit[e] = "send"
  /\ IF chanClosed
     THEN emit' = [emit EXCEPT ![e] = "panicked"] /\ UNCHANGED <<queue, accepted>>
     ELSE /\ emit' = [emit EXCEPT ![e] = "unlock"]
          /\ IF Len(queue) < Capacity
             THEN /\ queue' = Append(queue, <<e, emitted[e]>>)
                  /\ accepted' = Append(accepted, <<e, emitted[e]>>)
             ELSE UNCHANGED <<queue, accepted>>
  /\ UNCHANGED <<emitted, mutexVars, chanVars, drainVars>>

RUnlock(e) ==
  /\ emit[e] = "unlock"
  /\ emit' = [emit EXCEPT ![e] = "idle"]
  /\ readers' = readers \ {e}
  /\ UNCHANGED <<emitted, close, chanVars, queue, drainVars, accepted>>

Emit(e) == EmitCalled(e) \/ RLock(e) \/ CheckClosed(e) \/ Send(e) \/ RUnlock(e)
-----------------------------------------------------------------------------
(* Logger.Close                                                            *)

CloseCalled(k) ==
  /\ close[k] = "idle"
  /\ close' = [close EXCEPT ![k] = "lock"]
  /\ UNCHANGED <<emitVars, readers, chanVars, queue, drainVars, accepted>>

\* A lock that other holders for writing only keep out.
LockBesideReaders(k) ==
  /\ close[k] = "lock" /\ ~WriterHolds
  /\ close' = [close EXCEPT ![k] = "locked"]
  /\ UNCHANGED <<emitVars, readers, chanVars, queue, drainVars, accepted>>

Lock(k) ==
  /\ close[k] = "lock" /\ readers = {} /\ ~WriterHolds
  /\ close' = [close EXCEPT ![k] = "locked"]
  /\ UNCHANGED <<emitVars, readers, chanVars, queue, drainVars, accepted>>

\* A second Close unlocks and returns.
TestClosed(k) ==
  /\ close[k] = "locked"
  /\ IF closed THEN close' = [close EXCEPT ![k] = "returned"] /\ UNCHANGED closed
     ELSE close' = [close EXCEPT ![k] = "closing"] /\ closed' = TRUE
  /\ UNCHANGED <<emitVars, readers, chanClosed, queue, drainVars, accepted>>

\* An unlock without close(events).
UnlockOnly(k) ==
  /\ close[k] = "closing"
  /\ close' = [close EXCEPT ![k] = "await"]
  /\ UNCHANGED <<emitVars, readers, chanVars, queue, drainVars, accepted>>

\* close(events), then the unlock.
CloseEvents(k) ==
  /\ close[k] = "closing"
  /\ chanClosed' = TRUE
  /\ close' = [close EXCEPT ![k] = "await"]
  /\ UNCHANGED <<emitVars, readers, closed, queue, drainVars, accepted>>

\* A wait for an empty buffer.
AwaitEmpty(k) ==
  /\ close[k] = "await" /\ queue = <<>>
  /\ close' = [close EXCEPT ![k] = "drained"]
  /\ UNCHANGED <<emitVars, readers, chanVars, queue, drainVars, accepted>>

\* <-done.
AwaitDone(k) ==
  /\ close[k] = "await" /\ drain = "done"
  /\ close' = [close EXCEPT ![k] = "drained"]
  /\ UNCHANGED <<emitVars, readers, chanVars, queue, drainVars, accepted>>

Close(k) ==
  CloseCalled(k) \/ Lock(k) \/ TestClosed(k) \/ CloseEvents(k) \/ AwaitDone(k)
-----------------------------------------------------------------------------
(* Logger.run                                                              *)

Receive ==
  /\ drain = "receive" /\ queue # <<>>
  /\ current' = <<Head(queue)>>
  /\ queue' = Tail(queue)
  /\ drain' = "record"
  /\ UNCHANGED <<emitVars, mutexVars, chanVars, sink, handled, accepted>>

\* The sink records the event, or fails, or panics and is recovered.
Record ==
  /\ drain = "record"
  /\ \/ sink' = sink \o current
     \/ UNCHANGED sink
  /\ handled' = handled \o current
  /\ current' = <<>>
  /\ drain' = "receive"
  /\ UNCHANGED <<emitVars, mutexVars, chanVars, queue, accepted>>

\* The range over a closed channel ends when the buffer is empty.
Stop ==
  /\ drain = "receive" /\ queue = <<>> /\ chanClosed
  /\ drain' = "done"
  /\ UNCHANGED <<emitVars, mutexVars, chanVars, queue, current, sink, handled, accepted>>

Drain == Receive \/ Record \/ Stop

Next == (\E e \in Emitter : Emit(e)) \/ (\E k \in Closer : Close(k)) \/ Drain

\* Goroutines are scheduled; nothing is assumed of the sink.  No event need
\* be emitted and nobody need call Close.
Fairness ==
  /\ \A e \in Emitter : WF_vars(RLock(e) \/ CheckClosed(e) \/ Send(e) \/ RUnlock(e))
  /\ \A k \in Closer : WF_vars(Lock(k) \/ TestClosed(k) \/ CloseEvents(k) \/ AwaitDone(k))

Spec == Init /\ [][Next]_vars /\ Fairness
-----------------------------------------------------------------------------
(* What the audit logger promises.                                         *)

\* Types, the buffer within its capacity, and a mutex that never has a
\* reader beside a writer.
AuditTypeOK ==
  /\ emit \in [Emitter -> {"idle", "rlock", "locked", "send", "unlock", "panicked"}]
  /\ emitted \in [Emitter -> 0..Events]
  /\ close \in [Closer -> {"idle", "lock", "locked", "closing", "await",
                           "drained", "returned"}]
  /\ readers \subseteq Emitter
  /\ closed \in BOOLEAN /\ chanClosed \in BOOLEAN
  /\ {queue, current, sink, accepted, handled} \subseteq Seq(Event)
  /\ Len(queue) <= Capacity
  /\ drain \in {"receive", "record", "done"}
  /\ WriterHolds => readers = {}

\* No emitter ever sends on the closed channel, at whatever point of Emit
\* the logger is closed.
NeverPanics == \A e \in Emitter : emit[e] # "panicked"

\* Every accepted event is handled once and in the order of the sends: what
\* is done with, in hand and in the buffer is what was accepted.
HandledInOrder == accepted = handled \o current \o queue

\* The Close that closed the channel returns only when the goroutine is done
\* with every event ever accepted.
CloseDrains ==
  (\E k \in Closer : close[k] = "drained") => handled = accepted

\* Emit returns, also when the sink never does, the buffer is full or the
\* logger is being closed.
EmitReturns == \A e \in Emitter : emit[e] # "idle" ~> emit[e] = "idle"

\* Close returns if the sink always does.
CloseReturns ==
  WF_vars(Drain) =>
    \A k \in Closer : close[k] = "lock" ~> close[k] \in {"drained", "returned"}
=============================================================================
