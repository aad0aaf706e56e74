---------------------------- MODULE RecordQueue ----------------------------
(***************************************************************************)
(* The queued log sink: threads put records, a listener thread started by  *)
(* the first of them writes them to the file, close() stops it             *)
(* (_sinks/queue.py, _sinks/_file_base.py).                                *)
(*                                                                         *)
(* logging calls a handler's emit under the handler's lock, and            *)
(* logging.shutdown its close too; application code calls close without.   *)
(* The listener is daemonic and handles no error of its own: one that the  *)
(* file's lock raises ends it.                                             *)
(***************************************************************************)
EXTENDS Naturals, Sequences, FiniteSets

CONSTANTS
  Emitters,   \* the threads that log
  Sentinel,   \* what tells the listener to stop
  Nothing,    \* no record
  CloseCap,   \* bound: calls of close()
  LockMayFail \* whether the lock of the file can raise

VARIABLES
  queue,     \* the queue of records and sentinels
  lock,      \* the holder of the handler's lock: an emitter, "closer" or "free"
  started,   \* _listener_started
  listener,  \* its thread: "none", "waiting", "writing", "exited", or "died" of an error
  hand,      \* the record it is writing
  closer,    \* what close() is doing: "idle", "join", "reset"
  locked,    \* whether it runs under the handler's lock
  closes,    \* calls of close()
  \* History, read by the properties only.
  puts,      \* the records put
  handled,   \* the records taken off the queue and written, or lost by an error of it
  promised,  \* how many were put when close() asked the listener to stop
  died       \* whether a listener died

queueVars == <<queue, lock, started, listener, hand, closer, locked, closes,
               puts, handled, promised, died>>

QueueInit ==
  /\ queue = <<>> /\ lock = "free" /\ started = FALSE /\ listener = "none"
  /\ hand = Nothing /\ closer = "idle" /\ locked = FALSE /\ closes = 0
  /\ puts = <<>> /\ handled = <<>> /\ promised = 0 /\ died = FALSE

-----------------------------------------------------------------------------
\* A defect: the listener is started by the record after the first.
Enter_StartsLate(e) ==
  /\ lock = "free"
  /\ lock' = e
  /\ started' = TRUE
  /\ listener' = IF started /\ listener = "none" THEN "waiting" ELSE listener
  /\ UNCHANGED <<queue, hand, closer, locked, closes, puts, handled, promised,
                 died>>

\* emit: the first record starts the listener.
Enter(e) ==
  /\ lock = "free"
  /\ lock' = e
  /\ started' = TRUE
  /\ listener' = IF started THEN listener ELSE "waiting"
  /\ UNCHANGED <<queue, hand, closer, locked, closes, puts, handled, promised,
                 died>>

\* A defect: the lock is kept.
Put_KeepsLock(e, r) ==
  /\ lock = e
  /\ queue' = Append(queue, r) /\ puts' = Append(puts, r)
  /\ UNCHANGED <<lock, started, listener, hand, closer, locked, closes, handled,
                 promised, died>>

\* A defect: the last record put is taken first.
Put_InFront(e, r) ==
  /\ lock = e
  /\ queue' = <<r>> \o queue /\ puts' = Append(puts, r)
  /\ lock' = "free"
  /\ UNCHANGED <<started, listener, hand, closer, locked, closes, handled, promised,
                 died>>

Put(e, r) ==
  /\ lock = e
  /\ queue' = Append(queue, r) /\ puts' = Append(puts, r)
  /\ lock' = "free"
  /\ UNCHANGED <<started, listener, hand, closer, locked, closes, handled, promised,
                 died>>

-----------------------------------------------------------------------------
(* The listener.                                                             *)

Take ==
  /\ listener = "waiting" /\ queue # <<>>
  /\ queue' = Tail(queue)
  /\ IF Head(queue) = Sentinel
     THEN listener' = "exited" /\ UNCHANGED hand
     ELSE listener' = "writing" /\ hand' = Head(queue)
  /\ UNCHANGED <<lock, started, closer, locked, closes, puts, handled, promised,
                 died>>

Done(next) ==
  /\ listener' = next /\ hand' = Nothing /\ handled' = Append(handled, hand)
  /\ died' = (died \/ next = "died")
  /\ UNCHANGED <<queue, lock, started, closer, locked, closes, puts, promised>>

\* The record is written; or it is lost and handleError says so.
Write == listener = "writing" /\ Done("waiting")

\* An error of the file's lock is raised outside the handler's try: nobody catches it.
LockFails == listener = "writing" /\ LockMayFail /\ Done("died")

Listen == Take \/ Write \/ LockFails

-----------------------------------------------------------------------------
(* close().                                                                  *)

Alive == listener \in {"waiting", "writing"}

\* By application code, or by logging.shutdown, which waits for the lock.
Close(underLock) ==
  /\ closer = "idle" /\ closes < CloseCap
  /\ underLock => lock = "free"
  /\ started
  /\ queue' = Append(queue, Sentinel) /\ promised' = Len(puts)
  /\ closer' = "join" /\ closes' = closes + 1 /\ locked' = underLock
  /\ lock' = IF underLock THEN "closer" ELSE lock
  /\ UNCHANGED <<started, listener, hand, puts, handled, died>>

\* A defect: the listener is told to stop and not waited for.
Join_NoWait ==
  /\ closer = "join"
  /\ listener' = "none" /\ closer' = "reset"
  /\ UNCHANGED <<queue, lock, started, hand, locked, closes, puts, handled, promised,
                 died>>

Join ==
  /\ closer = "join" /\ ~Alive
  /\ listener' = "none" /\ closer' = "reset"
  /\ UNCHANGED <<queue, lock, started, hand, locked, closes, puts, handled, promised,
                 died>>

\* A defect: shutdown keeps the handler's lock.
Reset_KeepsLock ==
  /\ closer = "reset"
  /\ started' = FALSE /\ closer' = "idle" /\ locked' = FALSE
  /\ UNCHANGED <<queue, lock, listener, hand, closes, puts, handled, promised, died>>

Reset ==
  /\ closer = "reset"
  /\ started' = FALSE /\ closer' = "idle" /\ locked' = FALSE
  /\ lock' = IF locked THEN "free" ELSE lock
  /\ UNCHANGED <<queue, listener, hand, closes, puts, handled, promised,
                 died>>

Closing == (\E underLock \in BOOLEAN : Close(underLock)) \/ Join \/ Reset

=============================================================================
