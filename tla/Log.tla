--------------------------------- MODULE Log ---------------------------------
(***************************************************************************)
(* src/src/log/log.cpp: threads push entries on m_log_queue, one log       *)
(* thread writes them to the file, and shutdown stops that thread and      *)
(* writes what is left.  m_running and m_close_log are read and written    *)
(* without the mutex, so each access is a step of its own; the predicate   *)
(* of m_cv.wait and the sleep that follows it are two steps, as the mutex  *)
(* does not keep shutdown out in between.                                  *)
(*                                                                         *)
(* An entry is the writer and its sequence number; levels and formatting   *)
(* are left out.                                                           *)
(***************************************************************************)
EXTENDS Integers, Sequences, FiniteSets

CONSTANTS
  Writers,      \* threads that log
  Thread,       \* the log thread
  Free,         \* value of m_mutex when nobody holds it
  MaxWrites     \* bound: number of entries each writer logs

ASSUME ThreadIsNoWriter == Thread \notin Writers /\ Free \notin Writers \cup {Thread}
ASSUME MaxWritesNat == MaxWrites \in Nat

VARIABLES
  m_log_queue,
  m_running,
  m_close_log,
  m_mutex,
  tpc,          \* where the log thread is
  apc,          \* where each writer is in write()
  count,        \* entries each writer has begun to log
  spc,          \* where the caller of shutdown() is
  m_log_file,   \* the entries written
  open,         \* m_log_file.is_open()
  pushed,       \* history: every entry pushed, in order
  owed          \* history: how many of them when shutdown() was called

vars == <<m_log_queue, m_running, m_close_log, m_mutex, tpc, apc, count, spc,
          m_log_file, open, pushed, owed>>

Entry == Writers \X (1..MaxWrites)

ThreadPC == {"loop", "lock", "pred", "block", "waiting", "drain", "exited"}
WriterPC == {"idle", "push", "notify"}
ShutdownPC == {"idle", "stop", "close", "notify", "join", "rest", "file", "done"}

(* After init().                                                           *)
Init ==
  /\ m_log_queue = <<>>
  /\ m_running = TRUE
  /\ m_close_log = FALSE
  /\ m_mutex = Free
  /\ tpc = "loop"
  /\ apc = [w \in Writers |-> "idle"]
  /\ count = [w \in Writers |-> 0]
  /\ spc = "idle"
  /\ m_log_file = <<>>
  /\ open = TRUE
  /\ pushed = <<>>
  /\ owed = 0

-----------------------------------------------------------------------------
(* write(): the test of m_close_log ...                                    *)
WriteCheck(w) ==
  /\ apc[w] = "idle"
  /\ count[w] < MaxWrites
  /\ ~m_close_log
  /\ count' = [count EXCEPT ![w] = @ + 1]
  /\ apc' = [apc EXCEPT ![w] = "push"]
  /\ UNCHANGED <<m_log_queue, m_running, m_close_log, m_mutex, tpc, spc, m_log_file,
                 open, pushed, owed>>

(* ... push under the lock ...                                             *)
WritePush(w) ==
  /\ apc[w] = "push"
  /\ m_mutex = Free
  /\ m_log_queue' = Append(m_log_queue, <<w, count[w]>>)
  /\ pushed' = Append(pushed, <<w, count[w]>>)
  /\ apc' = [apc EXCEPT ![w] = "notify"]
  /\ UNCHANGED <<m_running, m_close_log, m_mutex, tpc, count, spc, m_log_file, open,
                 owed>>

(* The one sleeper on m_cv is the log thread.                              *)
Notify == tpc' = IF tpc = "waiting" THEN "lock" ELSE tpc

(* Slip: write() pushes without a notification.                            *)
WriteNoNotify(w) ==
  /\ apc[w] = "notify"
  /\ apc' = [apc EXCEPT ![w] = "idle"]
  /\ UNCHANGED <<m_log_queue, m_running, m_close_log, m_mutex, tpc, count, spc,
                 m_log_file, open, pushed, owed>>

(* ... and notify_one.                                                     *)
WriteNotify(w) ==
  /\ apc[w] = "notify"
  /\ Notify
  /\ apc' = [apc EXCEPT ![w] = "idle"]
  /\ UNCHANGED <<m_log_queue, m_running, m_close_log, m_mutex, count, spc, m_log_file,
                 open, pushed, owed>>

-----------------------------------------------------------------------------
(* while(m_running), without the lock.                                     *)
ThreadLoop ==
  /\ tpc = "loop"
  /\ tpc' = IF m_running THEN "lock" ELSE "exited"
  /\ UNCHANGED <<m_log_queue, m_running, m_close_log, m_mutex, apc, count, spc,
                 m_log_file, open, pushed, owed>>

ThreadLock ==
  /\ tpc = "lock"
  /\ m_mutex = Free
  /\ m_mutex' = Thread
  /\ tpc' = "pred"
  /\ UNCHANGED <<m_log_queue, m_running, m_close_log, apc, count, spc, m_log_file,
                 open, pushed, owed>>

(* The predicate of m_cv.wait.                                             *)
ThreadPred ==
  /\ tpc = "pred"
  /\ tpc' = IF m_log_queue # <<>> \/ ~m_running THEN "drain" ELSE "block"
  /\ UNCHANGED <<m_log_queue, m_running, m_close_log, m_mutex, apc, count, spc,
                 m_log_file, open, pushed, owed>>

(* Slip: the log thread sleeps with the mutex in its hands.                *)
ThreadSleepLocked ==
  /\ tpc = "block"
  /\ tpc' = "waiting"
  /\ UNCHANGED <<m_log_queue, m_running, m_close_log, m_mutex, apc, count, spc,
                 m_log_file, open, pushed, owed>>

(* m_cv.wait releases the mutex and sleeps in one step.                    *)
ThreadSleep ==
  /\ tpc = "block"
  /\ m_mutex' = Free
  /\ tpc' = "waiting"
  /\ UNCHANGED <<m_log_queue, m_running, m_close_log, apc, count, spc, m_log_file,
                 open, pushed, owed>>

ThreadSpurious ==
  /\ tpc = "waiting"
  /\ tpc' = "lock"
  /\ UNCHANGED <<m_log_queue, m_running, m_close_log, m_mutex, apc, count, spc,
                 m_log_file, open, pushed, owed>>

(* Slip: the log thread writes the entries and does not pop them.          *)
ThreadDrainNoPop ==
  /\ tpc = "drain"
  /\ m_log_file' = m_log_file \o m_log_queue
  /\ m_mutex' = Free
  /\ tpc' = "loop"
  /\ UNCHANGED <<m_log_queue, m_running, m_close_log, apc, count, spc, open, pushed,
                 owed>>

(* Write the whole queue under the lock.                                   *)
ThreadDrain ==
  /\ tpc = "drain"
  /\ m_log_file' = m_log_file \o m_log_queue
  /\ m_log_queue' = <<>>
  /\ m_mutex' = Free
  /\ tpc' = "loop"
  /\ UNCHANGED <<m_running, m_close_log, apc, count, spc, open, pushed, owed>>

-----------------------------------------------------------------------------
(* shutdown() returns at once when the log is closed or never ran; else    *)
(* m_running = false ...                                                   *)
ShutdownCall ==
  /\ spc = "idle"
  /\ ~m_close_log /\ m_running
  /\ spc' = "stop"
  /\ owed' = Len(pushed)
  /\ UNCHANGED <<m_log_queue, m_running, m_close_log, m_mutex, tpc, apc, count,
                 m_log_file, open, pushed>>

ShutdownStop ==
  /\ spc = "stop"
  /\ m_running' = FALSE
  /\ spc' = "close"
  /\ UNCHANGED <<m_log_queue, m_close_log, m_mutex, tpc, apc, count, m_log_file, open,
                 pushed, owed>>

(* ... m_close_log = true ...                                              *)
ShutdownClose ==
  /\ spc = "close"
  /\ m_close_log' = TRUE
  /\ spc' = "notify"
  /\ UNCHANGED <<m_log_queue, m_running, m_mutex, tpc, apc, count, m_log_file, open,
                 pushed, owed>>

(* ... notify_all ...                                                      *)
ShutdownNotify ==
  /\ spc = "notify"
  /\ Notify
  /\ spc' = "join"
  /\ UNCHANGED <<m_log_queue, m_running, m_close_log, m_mutex, apc, count, m_log_file,
                 open, pushed, owed>>

(* ... join ...                                                            *)
ShutdownJoin ==
  /\ spc = "join"
  /\ tpc = "exited"
  /\ spc' = "rest"
  /\ UNCHANGED <<m_log_queue, m_running, m_close_log, m_mutex, tpc, apc, count,
                 m_log_file, open, pushed, owed>>

(* Slip: the log thread is trusted to have written everything.             *)
ShutdownRestSkipped ==
  /\ spc = "rest"
  /\ spc' = "file"
  /\ UNCHANGED <<m_log_queue, m_running, m_close_log, m_mutex, tpc, apc, count,
                 m_log_file, open, pushed, owed>>

(* ... write what is left under the lock ...                               *)
ShutdownRest ==
  /\ spc = "rest"
  /\ m_mutex = Free
  /\ m_log_file' = m_log_file \o m_log_queue
  /\ m_log_queue' = <<>>
  /\ spc' = "file"
  /\ UNCHANGED <<m_running, m_close_log, m_mutex, tpc, apc, count, open, pushed, owed>>

(* ... and close the file.                                                 *)
ShutdownFile ==
  /\ spc = "file"
  /\ open' = FALSE
  /\ spc' = "done"
  /\ UNCHANGED <<m_log_queue, m_running, m_close_log, m_mutex, tpc, apc, count,
                 m_log_file, pushed, owed>>

WriterStep(w) == WritePush(w) \/ WriteNotify(w)
ThreadStep == ThreadLoop \/ ThreadPred \/ ThreadSleep \/ ThreadDrain
ShutdownStep ==
  ShutdownStop \/ ShutdownClose \/ ShutdownNotify \/ ShutdownJoin \/ ShutdownRest
  \/ ShutdownFile

Next ==
  \/ \E w \in Writers : WriteCheck(w) \/ WriterStep(w)
  \/ ThreadStep \/ ThreadLock \/ ThreadSpurious
  \/ ShutdownCall \/ ShutdownStep

Spec == Init /\ [][Next]_vars

(* Every thread runs and gets a mutex that is free again and again; nobody *)
(* has to log, to call shutdown, or to wake spuriously.                    *)
Fairness ==
  /\ \A w \in Writers : SF_vars(WriterStep(w))
  /\ WF_vars(ThreadStep) /\ SF_vars(ThreadLock)
  /\ SF_vars(ShutdownStep)

FairSpec == Spec /\ Fairness

-----------------------------------------------------------------------------
(* Types, and the mutex is the log thread's exactly in its critical section. *)
TypeOK ==
  /\ m_log_queue \in Seq(Entry)
  /\ m_running \in BOOLEAN /\ m_close_log \in BOOLEAN /\ open \in BOOLEAN
  /\ m_mutex \in {Free, Thread}
  /\ m_mutex = Thread <=> tpc \in {"pred", "block", "drain"}
  /\ tpc \in ThreadPC
  /\ apc \in [Writers -> WriterPC]
  /\ count \in [Writers -> 0..MaxWrites]
  /\ spc \in ShutdownPC
  /\ m_log_file \in Seq(Entry)
  /\ pushed \in Seq(Entry)
  /\ owed \in 0..Len(pushed)

(* The file followed by the queue is what was pushed, in order: the log     *)
(* thread and the last part of shutdown() write every entry at most once    *)
(* and swap none (lines 60, 115-121, 158-164).                              *)
FileInOrder == m_log_file \o m_log_queue = pushed

(* "Make sure that buffered data is written" (line 157): when the file is   *)
(* closed it has every entry that was pushed before shutdown() was called.  *)
OwedIsWritten == ~open => Len(m_log_file) >= owed

(* An entry reaches the file, unless the log is being shut down.            *)
EntryWritten ==
  \A n \in 1..(MaxWrites * Cardinality(Writers)) :
    (Len(pushed) >= n) ~> (Len(m_log_file) >= n \/ spc # "idle")

(* "Wake the thread", "wait for the thread to exit" (lines 151, 154):       *)
(* shutdown() returns.                                                      *)
ShutdownReturns == (spc = "stop") ~> (spc = "done")
==============================================================================
