------------------------------ MODULE LogProofs ------------------------------
(***************************************************************************)
(* Log for any number of writers and entries: types and the ownership of   *)
(* m_mutex, the file and the queue are what was pushed, and shutdown()     *)
(* closes a file that has every entry it owes.                             *)
(***************************************************************************)
EXTENDS Log, SequenceTheorems, TLAPS

(* A writer that is about to push has counted its entry: what TypeOK needs  *)
(* to know of WritePush.                                                    *)
Begun == \A w \in Writers : apc[w] = "push" => count[w] \in 1..MaxWrites

LEMMA EntryOfWriter ==
  ASSUME Begun, NEW w \in Writers, apc[w] = "push"
  PROVE  <<w, count[w]>> \in Entry
BY DEF Begun, Entry

(* What the log thread and shutdown() move from the queue to the file are   *)
(* entries.                                                                 *)
LEMMA Moved ==
  ASSUME TypeOK
  PROVE  /\ m_log_file \o m_log_queue \in Seq(Entry)
         /\ Len(m_log_file \o m_log_queue) = Len(m_log_file) + Len(m_log_queue)
         /\ (m_log_file \o m_log_queue) \o <<>> = m_log_file \o m_log_queue
<1>1. m_log_file \in Seq(Entry) /\ m_log_queue \in Seq(Entry)
  BY DEF TypeOK
<1>2. m_log_file \o m_log_queue \in Seq(Entry)
  BY <1>1, ConcatProperties
<1>3. QED
  BY <1>1, <1>2, ConcatProperties, ConcatEmptySeq

LEMMA TypeInit == Init => TypeOK /\ Begun
<1> SUFFICES ASSUME Init PROVE TypeOK /\ Begun
  OBVIOUS
<1>1. <<>> \in Seq(Entry) /\ Len(<<>>) = 0
  BY EmptySeq
<1>2. 0 \in 0..MaxWrites
  BY MaxWritesNat
<1>3. m_running \in BOOLEAN /\ m_close_log \in BOOLEAN /\ open \in BOOLEAN
  BY Zenon DEF Init
<1>4. /\ m_mutex \in {Free, Thread} /\ tpc \in ThreadPC /\ spc \in ShutdownPC
      /\ m_mutex = Thread <=> tpc \in {"pred", "block", "drain"}
  BY ThreadIsNoWriter DEF Init, ThreadPC, ShutdownPC
<1>5. apc \in [Writers -> WriterPC] /\ count \in [Writers -> 0..MaxWrites] /\ Begun
  BY <1>2 DEF Init, Begun, WriterPC
<1>6. /\ m_log_queue \in Seq(Entry) /\ m_log_file \in Seq(Entry)
      /\ pushed \in Seq(Entry) /\ owed \in 0..Len(pushed)
  BY <1>1 DEF Init
<1>7. QED
  BY <1>3, <1>4, <1>5, <1>6 DEF TypeOK

LEMMA TypeStep == TypeOK /\ Begun /\ [Next]_vars => TypeOK' /\ Begun'
<1> SUFFICES ASSUME TypeOK, Begun, [Next]_vars PROVE TypeOK' /\ Begun'
  OBVIOUS
<1> USE ThreadIsNoWriter, MaxWritesNat
    DEF TypeOK, Begun, ThreadPC, WriterPC, ShutdownPC
<1>1. ASSUME NEW w \in Writers, WriteCheck(w)
      PROVE  TypeOK' /\ Begun'
  BY <1>1 DEF WriteCheck
<1>2. ASSUME NEW w \in Writers, WritePush(w)
      PROVE  TypeOK' /\ Begun'
  <2>1. <<w, count[w]>> \in Entry
    BY <1>2, EntryOfWriter DEF WritePush
  <2>2. /\ m_log_queue' \in Seq(Entry) /\ pushed' \in Seq(Entry)
        /\ Len(pushed') = Len(pushed) + 1
    BY <1>2, <2>1, AppendProperties DEF WritePush
  <2>3. Len(pushed) \in Nat
    BY LenProperties
  <2>4. QED
    BY <1>2, <2>2, <2>3 DEF WritePush
<1>3. ASSUME NEW w \in Writers, WriteNotify(w)
      PROVE  TypeOK' /\ Begun'
  BY <1>3 DEF WriteNotify, Notify
<1>4. CASE ThreadLoop
  BY <1>4 DEF ThreadLoop
<1>5. CASE ThreadLock
  BY <1>5 DEF ThreadLock
<1>6. CASE ThreadPred
  BY <1>6 DEF ThreadPred
<1>7. CASE ThreadSleep
  BY <1>7 DEF ThreadSleep
<1>8. CASE ThreadSpurious
  BY <1>8 DEF ThreadSpurious
<1>9. CASE ThreadDrain
  <2>1. m_log_file' \in Seq(Entry) /\ m_log_queue' \in Seq(Entry)
    BY <1>9, Moved, EmptySeq DEF ThreadDrain
  <2>2. QED
    BY <1>9, <2>1 DEF ThreadDrain
<1>10. CASE ShutdownCall
  BY <1>10, LenProperties DEF ShutdownCall
<1>11. CASE ShutdownStop
  BY <1>11 DEF ShutdownStop
<1>12. CASE ShutdownClose
  BY <1>12 DEF ShutdownClose
<1>13. CASE ShutdownNotify
  BY <1>13 DEF ShutdownNotify, Notify
<1>14. CASE ShutdownJoin
  BY <1>14 DEF ShutdownJoin
<1>15. CASE ShutdownRest
  <2>1. m_log_file' \in Seq(Entry) /\ m_log_queue' \in Seq(Entry)
    BY <1>15, Moved, EmptySeq DEF ShutdownRest
  <2>2. QED
    BY <1>15, <2>1 DEF ShutdownRest
<1>16. CASE ShutdownFile
  BY <1>16 DEF ShutdownFile
<1>17. CASE UNCHANGED vars
  BY <1>17 DEF vars
<1>18. QED
  BY <1>1, <1>2, <1>3, <1>4, <1>5, <1>6, <1>7, <1>8, <1>9, <1>10, <1>11, <1>12,
     <1>13, <1>14, <1>15, <1>16, <1>17
     DEF Next, WriterStep, ThreadStep, ShutdownStep

(* Types hold, and m_mutex is the log thread's exactly while it is in its   *)
(* critical section, in every run of the log.                               *)
THEOREM TypeCorrect == Spec => []TypeOK
<1>1. Spec => [](TypeOK /\ Begun)
  BY TypeInit, TypeStep, PTL DEF Spec
<1>2. QED
  BY <1>1, PTL

-----------------------------------------------------------------------------
(* Order.  A push appends to both sides, a drain moves the queue across.    *)

(* Every entry is written at most once and in the order of the pushes,      *)
(* whoever of the log thread and shutdown() writes it.                      *)
THEOREM FileIsInOrder == Spec => []FileInOrder
<1>1. Init => FileInOrder
  BY ConcatEmptySeq, EmptySeq DEF Init, FileInOrder
<1>2. TypeOK /\ Begun /\ FileInOrder /\ [Next]_vars => FileInOrder'
  <2> SUFFICES ASSUME TypeOK, Begun, FileInOrder, [Next]_vars
               PROVE  FileInOrder'
    OBVIOUS
  <2>1. ASSUME NEW w \in Writers, WritePush(w)
        PROVE  FileInOrder'
    <3> DEFINE e == <<w, count[w]>>
    <3>1. e \in Entry
      BY <2>1, EntryOfWriter DEF WritePush
    <3>2. /\ m_log_queue' = Append(m_log_queue, e)
          /\ pushed' = Append(pushed, e)
          /\ m_log_file' = m_log_file
      BY <2>1 DEF WritePush
    <3> HIDE DEF e
    <3>3. /\ m_log_file \in Seq(Entry) /\ m_log_queue \in Seq(Entry)
          /\ pushed \in Seq(Entry) /\ <<e>> \in Seq(Entry)
      BY <3>1 DEF TypeOK
    <3>4. /\ Append(m_log_queue, e) = m_log_queue \o <<e>>
          /\ Append(pushed, e) = pushed \o <<e>>
      BY <3>1, <3>3, AppendIsConcat
    <3>5. m_log_file \o (m_log_queue \o <<e>>) = (m_log_file \o m_log_queue) \o <<e>>
      BY <3>3, ConcatAssociative
    <3>6. QED
      BY <3>2, <3>4, <3>5 DEF FileInOrder
  <2>2. CASE ThreadDrain
    BY <2>2, Moved DEF ThreadDrain, FileInOrder
  <2>3. CASE ShutdownRest
    BY <2>3, Moved DEF ShutdownRest, FileInOrder
  <2>4. ASSUME UNCHANGED <<m_log_file, m_log_queue, pushed>>
        PROVE  FileInOrder'
    BY <2>4 DEF FileInOrder
  <2>5. QED
    BY <2>1, <2>2, <2>3, <2>4
       DEF Next, WriterStep, ThreadStep, ShutdownStep, WriteCheck, WriteNotify,
           ThreadLoop, ThreadLock, ThreadPred, ThreadSleep, ThreadSpurious,
           ShutdownCall, ShutdownStop, ShutdownClose, ShutdownNotify, ShutdownJoin,
           ShutdownFile, vars
<1>3. QED
  BY <1>1, <1>2, TypeInit, TypeStep, PTL DEF Spec

-----------------------------------------------------------------------------
(* Completeness.  The debt is fixed when shutdown() is called and paid by   *)
(* ShutdownRest, after which the file only grows.                           *)
Paid ==
  /\ spc \in {"file", "done"} => Len(m_log_file) >= owed
  /\ ~open => spc = "done"

LEMMA PaidStep ==
  TypeOK /\ FileInOrder /\ Paid /\ [Next]_vars => Paid'
<1> SUFFICES ASSUME TypeOK, FileInOrder, Paid, [Next]_vars PROVE Paid'
  OBVIOUS
<1>1. /\ Len(m_log_file) \in Nat /\ Len(m_log_queue) \in Nat
      /\ owed \in Int /\ owed <= Len(pushed)
  BY LenProperties DEF TypeOK
<1>2. CASE ThreadDrain
  <2>1. Len(m_log_file') >= Len(m_log_file)
    BY <1>1, <1>2, Moved DEF ThreadDrain
  <2>2. Len(m_log_file') \in Nat
    BY <1>1, <1>2, Moved DEF ThreadDrain
  <2>3. spc' = spc /\ open' = open /\ owed' = owed
    BY <1>2 DEF ThreadDrain
  <2>4. QED
    BY <1>1, <2>1, <2>2, <2>3 DEF Paid
<1>3. CASE ShutdownRest
  <2>1. m_log_file' = pushed /\ owed' = owed
    BY <1>3 DEF ShutdownRest, FileInOrder
  <2>2. spc' = "file" /\ open' = open /\ spc = "rest"
    BY <1>3 DEF ShutdownRest
  <2>3. QED
    BY <1>1, <2>1, <2>2 DEF Paid
<1>4. CASE ShutdownCall
  BY <1>4 DEF ShutdownCall, Paid
<1>5. CASE ShutdownFile
  BY <1>5 DEF ShutdownFile, Paid
<1>6. ASSUME UNCHANGED <<m_log_file, owed, open>>,
             spc' \in {"file", "done"} => spc \in {"file", "done"},
             spc = "done" => spc' = "done"
      PROVE  Paid'
  BY <1>6 DEF Paid
<1>7. QED
  BY <1>2, <1>3, <1>4, <1>5, <1>6
     DEF Next, WriterStep, ThreadStep, ShutdownStep, WriteCheck, WritePush, WriteNotify,
         ThreadLoop, ThreadLock, ThreadPred, ThreadSleep, ThreadSpurious, ShutdownStop,
         ShutdownClose, ShutdownNotify, ShutdownJoin, vars

(* The file that shutdown() closes has every entry that was pushed before   *)
(* shutdown() was called.                                                   *)
THEOREM OwedEntriesWritten == Spec => []OwedIsWritten
<1>1. Init => Paid
  BY DEF Init, Paid
<1>2. Paid => OwedIsWritten
  BY DEF Paid, OwedIsWritten
<1>3. QED
  BY <1>1, <1>2, PaidStep, TypeCorrect, FileIsInOrder, PTL DEF Spec
==============================================================================
