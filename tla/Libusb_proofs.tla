---------------------------- MODULE Libusb_proofs ----------------------------
(***************************************************************************)
(* Machine-checked proofs about libusb.  First EventLock, for any number   *)
(* of callers and of devices opened and closed, whether or not the control *)
(* pipe can be written; then UsbTransfers, for any number of transfers and *)
(* of URBs.                                                                *)
(***************************************************************************)
EXTENDS EventLock, UsbTransfers, FiniteSetTheorems, TLAPS

-----------------------------------------------------------------------------
(* EventLock.                                                              *)

LEMMA Distinct ==
  /\ Closer \notin Handlers /\ None \notin Handlers /\ Closer # None
  /\ Event \in Handlers /\ Callers \subseteq Handlers /\ Event \notin Callers
  /\ MaxChanges \in Nat
  BY EventLockAssumption DEF Handlers

(* Where a step of one thread may lead.                                    *)
LEMMA GoType ==
  ASSUME TypeOK, NEW t, NEW from, NEW to, Go(t, from, to),
         \/ t \in Handlers /\ to \in HandlerSteps
         \/ t = Closer /\ to \in CloserSteps
  PROVE  /\ pc' \in [Handlers \cup {Closer} -> HandlerSteps \cup CloserSteps]
         /\ \A h \in Handlers : pc'[h] \in HandlerSteps
         /\ pc'[Closer] \in CloserSteps
  BY Distinct DEF Go, TypeOK

LEMMA ToldType ==
  ASSUME TypeOK, NEW t, NEW to,
         \/ t \in Handlers /\ to \in HandlerSteps
         \/ t = Closer /\ to \in CloserSteps
  PROVE  /\ Told(t, to) \in [Handlers \cup {Closer} -> HandlerSteps \cup CloserSteps]
         /\ \A h \in Handlers : Told(t, to)[h] \in HandlerSteps
         /\ Told(t, to)[Closer] \in CloserSteps
<1>1. DOMAIN pc = Handlers \cup {Closer}
  BY DEF TypeOK
<1>2. pc[Closer] # "asleep" /\ "woken" \in HandlerSteps
  BY DEF TypeOK, CloserSteps, HandlerSteps
<1> QED
  BY <1>1, <1>2, Distinct DEF Told, TypeOK

LEMMA TypeStep ==
  ASSUME IInv, [Next]_vars
  PROVE  TypeOK'
<1> USE Distinct DEF locks, transfers, closing
<1>a. TypeOK /\ Holders /\ CloserFlags
  BY DEF IInv, EventLockInv
<1>1. ASSUME NEW c \in Callers, libusb_control_transfer(c) PROVE TypeOK'
  BY <1>a, <1>1, GoType DEF libusb_control_transfer, TypeOK, HandlerSteps
<1>2. ASSUME NEW c \in Callers, TestCompleted(c) PROVE TypeOK'
  BY <1>a, <1>2, GoType DEF TestCompleted, TypeOK, HandlerSteps
<1>3. ASSUME NEW c \in Callers, KernelCompletes(c) PROVE TypeOK'
  BY <1>a, <1>3 DEF KernelCompletes, TypeOK
<1>4. ASSUME _uvc_handle_events PROVE TypeOK'
  BY <1>a, <1>4, GoType DEF _uvc_handle_events, TypeOK, HandlerSteps
<1>5. ASSUME NEW h \in Handlers, TimeoutExpired(h) PROVE TypeOK'
  BY <1>a, <1>5, GoType DEF TimeoutExpired, Expired, TypeOK, HandlerSteps
<1>6. ASSUME NEW h \in Handlers, TryModify(h) PROVE TypeOK'
  BY <1>a, <1>6, GoType DEF TryModify, TypeOK, HandlerSteps
<1>7. ASSUME NEW h \in Handlers, TryLock(h) PROVE TypeOK'
  BY <1>a, <1>7, GoType DEF TryLock, TakeLock, TypeOK, HandlerSteps
<1>8. ASSUME NEW h \in Handlers, SetActive(h, "active", "check") PROVE TypeOK'
  BY <1>a, <1>8, GoType DEF SetActive, TypeOK, HandlerSteps
<1>9. ASSUME NEW h \in Handlers, CheckCompleted(h) PROVE TypeOK'
  BY <1>a, <1>9, GoType DEF CheckCompleted, TypeOK, HandlerSteps
<1>10. ASSUME NEW h \in Handlers, Poll(h) PROVE TypeOK'
  BY <1>a, <1>10, GoType DEF Poll, TypeOK, HandlerSteps
<1>11. ASSUME NEW h \in Handlers, Reap(h) PROVE TypeOK'
  BY <1>a, <1>11, GoType DEF Reap, TypeOK, HandlerSteps
<1>12. ASSUME NEW t \in Handlers \cup {Closer}, NEW from, NEW to, Broadcast(t, from, to),
              UNCHANGED <<kill_handler_thread, changes, write_failed>>,
              task' \in {"none", task},
              \/ t \in Handlers /\ to \in HandlerSteps
              \/ t = Closer /\ to \in CloserSteps
       PROVE  TypeOK'
  BY <1>a, <1>12, ToldType DEF Broadcast, TypeOK
<1>13. ASSUME NEW h \in Handlers, TellCompletion(h) PROVE TypeOK'
  BY <1>12, <1>13 DEF TellCompletion, HandlerSteps
<1>14. ASSUME NEW h \in Handlers, UnlockEvents(h) PROVE TypeOK'
  <2>1. CASE ClearActive(h, "unlock", "release")
    BY <1>a, <2>1, GoType DEF ClearActive, TypeOK, HandlerSteps
  <2>2. CASE ReleaseLock(h, "release", "tell")
    <3>1. depth = 1 /\ owner = h
      BY <1>a, <2>2 DEF ReleaseLock, Go, Holders, Handling
    <3> QED
      BY <1>a, <2>2, <3>1, GoType DEF ReleaseLock, TypeOK, HandlerSteps
  <2>3. CASE Broadcast(h, "tell", "test") /\ UNCHANGED closing
    BY <1>12, <2>3 DEF HandlerSteps
  <2> QED
    BY <1>14, <2>1, <2>2, <2>3 DEF UnlockEvents
<1>15. ASSUME NEW h \in Handlers, LockWaiters(h) PROVE TypeOK'
  BY <1>a, <1>15, GoType DEF LockWaiters, TypeOK, HandlerSteps
<1>16. ASSUME NEW h \in Handlers, WaitIfModified(h) PROVE TypeOK'
  BY <1>a, <1>16, GoType DEF WaitIfModified, TypeOK, HandlerSteps
<1>17. ASSUME NEW h \in Handlers, WaitIfActive(h) PROVE TypeOK'
  BY <1>a, <1>17, GoType DEF WaitIfActive, TypeOK, HandlerSteps
<1>18. ASSUME NEW h \in Handlers, Woken(h) PROVE TypeOK'
  BY <1>a, <1>18, GoType DEF Woken, TypeOK, HandlerSteps
<1>19. ASSUME NEW h \in Handlers, Late(h) PROVE TypeOK'
  BY <1>a, <1>19, GoType
     DEF Late, PollTimeout, WaitTimeout, handle_timeouts, Expired, TypeOK, HandlerSteps
<1>20. CASE StartChange
  <2>1. Go(Closer, "idle", "notify") /\ changes' \in 0..MaxChanges
    BY <1>a, <1>20 DEF StartChange, TypeOK
  <2>2. task' \in {"none", "open", "close", "last"} /\ kill_handler_thread' \in BOOLEAN
    BY <1>a, <1>20 DEF StartChange, TypeOK
  <2> QED
    BY <1>a, <1>20, <2>1, <2>2, GoType DEF StartChange, TypeOK, CloserSteps
<1>21. CASE libusb_close
  <2>1. CASE CountModify("notify", "write", 1)
    BY <1>a, <2>1, GoType DEF CountModify, TypeOK, CloserSteps
  <2>2. CASE WritePipe
    <3>1. PICK to \in CloserSteps : Go(Closer, "write", to)
      BY <2>2 DEF WritePipe, CloserSteps
    <3>2. ctrl_pipe = 0
      BY <1>a, <3>1 DEF Go, CloserFlags
    <3>3. ctrl_pipe' \in 0..1
      BY <2>2, <3>2 DEF WritePipe
    <3>4. write_failed' \in BOOLEAN
      BY <1>a, <2>2, Zenon DEF WritePipe, TypeOK
    <3> QED
      BY <1>a, <2>2, <3>1, <3>3, <3>4, GoType DEF WritePipe, TypeOK
  <2>3. ASSUME NEW from, NEW to \in CloserSteps, TakeLock(Closer, from, to), depth # 2
        PROVE  TypeOK'
    BY <1>a, <2>3, GoType DEF TakeLock, TypeOK
  <2>4. CASE TakeLock(Closer, "lock", "locked")
    BY <1>a, <2>3, <2>4 DEF TakeLock, Go, Holders, CloserHolds, TypeOK, CloserSteps
  <2>5. ASSUME NEW from, NEW to \in CloserSteps, SetActive(Closer, from, to) PROVE TypeOK'
    BY <1>a, <2>5, GoType DEF SetActive, TypeOK
  <2>6. CASE ReadPipe
    BY <1>a, <2>6, GoType DEF ReadPipe, Go, CloserFlags, TypeOK, CloserSteps
  <2>7. ASSUME NEW from, NEW to \in CloserSteps, ClearActive(Closer, from, to) PROVE TypeOK'
    BY <1>a, <2>7, GoType DEF ClearActive, TypeOK
  <2>8. ASSUME NEW from, NEW to \in CloserSteps, ReleaseLock(Closer, from, to), depth # 0
        PROVE  TypeOK'
    BY <1>a, <2>8, GoType DEF ReleaseLock, TypeOK
  <2>9. CASE do_close
    <3>1. CASE TakeLock(Closer, "doLock", "doLocked")
      BY <1>a, <2>3, <3>1 DEF TakeLock, Go, Holders, CloserHolds, TypeOK, CloserSteps
    <3>2. CASE SetActive(Closer, "doLocked", "doUnlock") \/ ClearActive(Closer, "doUnlock", "doRelease")
      BY <2>5, <2>7, <3>2 DEF CloserSteps
    <3>3. CASE ReleaseLock(Closer, "doRelease", "doTell")
      BY <1>a, <2>8, <3>3 DEF ReleaseLock, Go, Holders, CloserHolds, TypeOK, CloserSteps
    <3>4. CASE Broadcast(Closer, "doTell", "close") /\ UNCHANGED closing
      BY <1>12, <3>4 DEF CloserSteps
    <3>5. CASE Go(Closer, "close", "unmodify") /\ UNCHANGED <<locks, event_handler_active,
                 pollfd_modify, ctrl_pipe, waiters_lock, transfers, closing>>
      BY <1>a, <3>5, GoType DEF TypeOK, CloserSteps
    <3> QED
      BY <2>9, <3>1, <3>2, <3>3, <3>4, <3>5 DEF do_close
  <2>10. CASE EndModify
    BY <1>a, <2>10, GoType DEF EndModify, Finished, TypeOK, CloserSteps
  <2>11. CASE ReleaseLock(Closer, "release", "tell")
    BY <1>a, <2>8, <2>11 DEF ReleaseLock, Go, Holders, CloserHolds, CloserSteps
  <2>12. CASE CloserTells
    BY <1>12, <2>12 DEF CloserTells, Finished, CloserSteps
  <2>13. CASE JoinEventThread
    BY <1>a, <2>13, GoType DEF JoinEventThread, TypeOK, CloserSteps
  <2> QED
    BY <1>21, <2>1, <2>2, <2>4, <2>5, <2>6, <2>7, <2>9, <2>10, <2>11, <2>12, <2>13
       DEF libusb_close, CloserSteps
<1>22. CASE UNCHANGED vars
  BY <1>a, <1>22 DEF vars, TypeOK
<1> QED
  BY <1>1, <1>2, <1>3, <1>4, <1>5, <1>6, <1>7, <1>8, <1>9, <1>10, <1>11, <1>13, <1>14, <1>15,
     <1>16, <1>17, <1>18, <1>19, <1>20, <1>21, <1>22 DEF Next, libusb_handle_events

-----------------------------------------------------------------------------
(* The lock passes from hand to hand.                                      *)

(* Steps that leave the lock alone and do not enter or leave its section.  *)
LEMMA HandlerKeepsLock ==
  ASSUME TypeOK, Holders, NEW h \in Handlers, NEW from, NEW to, Go(h, from, to),
         from \in Handling <=> to \in Handling,
         UNCHANGED <<owner, depth, write_failed>>
  PROVE  Holders'
<1>1. pc'[Closer] = pc[Closer] /\ pc'[h] = to /\ pc[h] = from
  BY Distinct DEF Go, TypeOK
<1>2. \A k \in Handlers : k # h => pc'[k] = pc[k]
  BY DEF Go, TypeOK
<1> QED
  BY <1>1, <1>2 DEF Holders, CloserHolds

LEMMA ToldKeepsLock ==
  ASSUME TypeOK, Holders, NEW h \in Handlers, NEW from, NEW to, Broadcast(h, from, to),
         from \in Handling <=> to \in Handling, UNCHANGED write_failed
  PROVE  Holders'
<1>1. pc'[Closer] = pc[Closer] /\ pc'[h] = to /\ pc[h] = from
  BY Distinct DEF Broadcast, Told, TypeOK, CloserSteps
<1>2. \A k \in Handlers : k # h => pc'[k] = pc[k] \/ (pc[k] = "asleep" /\ pc'[k] = "woken")
  BY DEF Broadcast, Told, TypeOK
<1> QED
  BY <1>1, <1>2 DEF Holders, CloserHolds, Handling, Broadcast, locks

LEMMA HoldersStep ==
  ASSUME IInv, [Next]_vars
  PROVE  Holders'
<1> USE Distinct DEF locks, transfers, closing
<1>a. TypeOK /\ Holders
  BY DEF IInv, EventLockInv
<1>1. ASSUME NEW c \in Callers,
             libusb_control_transfer(c) \/ TestCompleted(c) \/ KernelCompletes(c)
      PROVE  Holders'
  <2>1. CASE libusb_control_transfer(c)
    BY <1>a, <2>1, HandlerKeepsLock DEF libusb_control_transfer, Handling
  <2>2. CASE TestCompleted(c)
    BY <1>a, <2>2, HandlerKeepsLock DEF TestCompleted, Handling
  <2>3. CASE KernelCompletes(c)
    BY <1>a, <2>3 DEF KernelCompletes, Holders, CloserHolds
  <2> QED
    BY <1>1, <2>1, <2>2, <2>3
<1>2. CASE _uvc_handle_events
  BY <1>a, <1>2, HandlerKeepsLock DEF _uvc_handle_events, Handling
<1>3. ASSUME NEW h \in Handlers, TimeoutExpired(h) \/ TryModify(h) PROVE Holders'
  BY <1>a, <1>3, HandlerKeepsLock DEF TimeoutExpired, TryModify, Handling
<1>4. ASSUME NEW h \in Handlers, TryLock(h) PROVE Holders'
  <2>1. CASE owner = None /\ TakeLock(h, "trylock", "active")
    <3>1. pc'[Closer] = pc[Closer] /\ pc'[h] = "active"
      BY <1>a, <2>1 DEF TakeLock, Go, TypeOK
    <3>2. \A k \in Handlers : k # h => pc'[k] = pc[k]
      BY <1>a, <2>1 DEF TakeLock, Go, TypeOK
    <3>3. owner' = h /\ depth' = 1 /\ write_failed' = write_failed
      BY <1>a, <2>1 DEF TakeLock, TypeOK
    <3>4. CloserHolds'
      BY <1>a, <2>1, <3>1, <3>3 DEF Holders, CloserHolds
    <3> QED
      BY <1>a, <2>1, <3>1, <3>2, <3>3, <3>4 DEF Holders, Handling
  <2>2. CASE owner # None
    BY <1>a, <1>4, <2>2, HandlerKeepsLock DEF TryLock, Handling
  <2> QED
    BY <1>4, <2>1, <2>2 DEF TryLock
<1>5. ASSUME NEW h \in Handlers, SetActive(h, "active", "check") \/ CheckCompleted(h)
      PROVE  Holders'
  BY <1>a, <1>5, HandlerKeepsLock DEF SetActive, CheckCompleted, Handling
<1>6. ASSUME NEW h \in Handlers, Poll(h) \/ PollTimeout(h) PROVE Holders'
  BY <1>a, <1>6, HandlerKeepsLock DEF Poll, PollTimeout, Handling
<1>7. ASSUME NEW h \in Handlers, Reap(h) PROVE Holders'
  BY <1>a, <1>7, HandlerKeepsLock DEF Reap, Handling
<1>8. ASSUME NEW h \in Handlers, TellCompletion(h) PROVE Holders'
  BY <1>a, <1>8, ToldKeepsLock DEF TellCompletion, Handling
<1>9. ASSUME NEW h \in Handlers, UnlockEvents(h) PROVE Holders'
  <2>1. CASE ClearActive(h, "unlock", "release")
    BY <1>a, <2>1, HandlerKeepsLock DEF ClearActive, Handling
  <2>2. CASE ReleaseLock(h, "release", "tell")
    <3>1. depth = 1 /\ owner = h
      BY <1>a, <2>2 DEF ReleaseLock, Go, Holders, Handling
    <3>2. pc'[Closer] = pc[Closer] /\ pc'[h] = "tell"
      BY <1>a, <2>2 DEF ReleaseLock, Go, TypeOK
    <3>3. \A k \in Handlers : k # h => pc'[k] = pc[k]
      BY <1>a, <2>2 DEF ReleaseLock, Go, TypeOK
    <3>4. owner' = None /\ write_failed' = write_failed
      BY <2>2, <3>1 DEF ReleaseLock
    <3>5. CloserHolds'
      BY <1>a, <3>1, <3>2, <3>4 DEF Holders, CloserHolds
    <3> QED
      BY <1>a, <3>1, <3>2, <3>3, <3>4, <3>5 DEF Holders, Handling
  <2>3. CASE Broadcast(h, "tell", "test") /\ UNCHANGED closing
    BY <1>a, <2>3, ToldKeepsLock DEF Handling
  <2> QED
    BY <1>9, <2>1, <2>2, <2>3 DEF UnlockEvents
<1>10. ASSUME NEW h \in Handlers, LockWaiters(h) \/ WaitIfModified(h) \/ WaitIfActive(h)
       PROVE  Holders'
  BY <1>a, <1>10, HandlerKeepsLock DEF LockWaiters, WaitIfModified, WaitIfActive, Handling
<1>11. ASSUME NEW h \in Handlers, Woken(h) \/ WaitTimeout(h) PROVE Holders'
  BY <1>a, <1>11, HandlerKeepsLock DEF Woken, WaitTimeout, Handling
<1>12. ASSUME NEW from, NEW to,
              Go(Closer, from, to) \/ Broadcast(Closer, from, to),
              (owner' = Closer /\ owner \in {Closer, None}) \/ (owner = Closer /\ owner' = None)
                \/ owner' = owner,
              owner' # Closer /\ owner' # None => depth' = depth
       PROVE  /\ pc[Closer] = from /\ pc'[Closer] = to
              /\ CloserHolds' => Holders'
  <2>1. pc[Closer] = from /\ pc'[Closer] = to
    BY <1>a, <1>12 DEF Go, Broadcast, Told, TypeOK
  <2>2. \A h \in Handlers : pc'[h] = pc[h] \/ (pc[h] = "asleep" /\ pc'[h] = "woken")
    BY <1>a, <1>12 DEF Go, Broadcast, Told, TypeOK
  <2>3. \A h \in Handlers : (owner' = h <=> owner = h) /\ (owner' = h => depth' = depth)
    BY <1>12
  <2> QED
    BY <1>a, <2>1, <2>2, <2>3 DEF Holders, Handling
<1>13. CASE StartChange
  <2>1. Go(Closer, "idle", "notify") /\ UNCHANGED <<owner, depth, write_failed>>
    BY <1>13 DEF StartChange
  <2> QED
    BY <1>a, <1>12, <2>1 DEF Holders, CloserHolds
<1>14. CASE libusb_close
  <2> USE <1>a DEF Holders, CloserHolds, TypeOK
  <2>1. CASE CountModify("notify", "write", 1)
    BY <1>12, <2>1 DEF CountModify
  <2>2. CASE WritePipe
    BY <1>12, <2>2 DEF WritePipe
  <2>3. CASE TakeLock(Closer, "lock", "locked")
    BY <1>12, <2>3 DEF TakeLock
  <2>4. CASE SetActive(Closer, "locked", "read") \/ ReadPipe
    BY <1>12, <2>4 DEF SetActive, ReadPipe
  <2>5. CASE do_close
    <3>1. CASE TakeLock(Closer, "doLock", "doLocked")
      BY <1>12, <3>1 DEF TakeLock
    <3>2. CASE SetActive(Closer, "doLocked", "doUnlock") \/ ClearActive(Closer, "doUnlock", "doRelease")
      BY <1>12, <3>2 DEF SetActive, ClearActive
    <3>3. CASE ReleaseLock(Closer, "doRelease", "doTell")
      <4>1. owner = Closer /\ (depth = 2 \/ (depth = 1 /\ write_failed))
        BY <3>3 DEF ReleaseLock, Go
      <4>2. write_failed' = write_failed /\ IF depth = 2 THEN owner' = Closer /\ depth' = 1
                                                       ELSE owner' = None /\ depth' = 0
        BY <3>3, <4>1 DEF ReleaseLock
      <4>3. Go(Closer, "doRelease", "doTell")
        BY <3>3 DEF ReleaseLock
      <4>4. pc'[Closer] = "doTell" /\ (CloserHolds' => Holders')
        BY <1>12, <4>1, <4>2, <4>3
      <4>5. CloserHolds'
        BY <4>1, <4>2, <4>4
      <4> QED
        BY <4>4, <4>5
    <3>4. CASE Broadcast(Closer, "doTell", "close") /\ UNCHANGED closing
      BY <1>12, <3>4 DEF Broadcast
    <3>5. CASE Go(Closer, "close", "unmodify") /\ UNCHANGED <<locks, event_handler_active,
                 pollfd_modify, ctrl_pipe, waiters_lock, transfers, closing>>
      BY <1>12, <3>5
    <3> QED
      BY <2>5, <3>1, <3>2, <3>3, <3>4, <3>5 DEF do_close
  <2>6. CASE EndModify
    BY <1>12, <2>6 DEF EndModify, Finished
  <2>7. CASE ClearActive(Closer, "unlock", "release")
    BY <1>12, <2>7 DEF ClearActive
  <2>8. CASE ReleaseLock(Closer, "release", "tell")
    <3>1. owner = Closer /\ owner' = None /\ depth' = 0 /\ write_failed' = write_failed
      BY <2>8 DEF ReleaseLock, Go
    <3>2. Go(Closer, "release", "tell")
      BY <2>8 DEF ReleaseLock
    <3>3. pc'[Closer] = "tell" /\ (CloserHolds' => Holders')
      BY <1>12, <3>1, <3>2
    <3> QED
      BY <3>1, <3>3
  <2>9. CASE CloserTells
    BY <1>12, <2>9 DEF CloserTells, Broadcast, Finished
  <2>10. CASE JoinEventThread
    BY <1>12, <2>10 DEF JoinEventThread
  <2> QED
    BY <1>14, <2>1, <2>2, <2>3, <2>4, <2>5, <2>6, <2>7, <2>8, <2>9, <2>10 DEF libusb_close
<1>15. CASE UNCHANGED vars
  BY <1>a, <1>15 DEF vars, Holders, CloserHolds
<1> QED
  BY <1>1, <1>2, <1>3, <1>4, <1>5, <1>6, <1>7, <1>8, <1>9, <1>10, <1>11, <1>13, <1>14, <1>15
     DEF Next, libusb_handle_events, Late

-----------------------------------------------------------------------------
(* The flag of an active handler: the owner of the lock sets it and takes  *)
(* it back, and nobody else touches it.                                    *)
LEMMA ActiveStep ==
  ASSUME IInv, [Next]_vars
  PROVE  ActiveHolder'
<1> USE Distinct DEF locks, transfers, closing, ActiveHolder
<1>a. TypeOK /\ Holders /\ ActiveHolder
  BY DEF IInv, EventLockInv
<1>b. None \notin DOMAIN pc
  BY <1>a DEF TypeOK
<1>1. ASSUME NEW t \in Handlers \cup {Closer}, NEW from, NEW to,
             Go(t, from, to) \/ Broadcast(t, from, to),
             from \in {"release", "doRelease"} \/ to \notin {"release", "doRelease"},
             UNCHANGED <<owner, event_handler_active>>
      PROVE  ActiveHolder'
  BY <1>a, <1>1 DEF Go, Broadcast, Told, TypeOK
<1>2. ASSUME UNCHANGED <<pc, owner, event_handler_active>> PROVE ActiveHolder'
  BY <1>a, <1>2
<1>3. ASSUME NEW c \in Callers,
             libusb_control_transfer(c) \/ TestCompleted(c) \/ KernelCompletes(c)
      PROVE  ActiveHolder'
  BY <1>1, <1>2, <1>3 DEF libusb_control_transfer, TestCompleted, KernelCompletes
<1>4. CASE _uvc_handle_events
  BY <1>1, <1>4 DEF _uvc_handle_events
<1>5. ASSUME NEW t \in Handlers \cup {Closer}, NEW from, NEW to, TakeLock(t, from, to),
             to \notin {"release", "doRelease"}
      PROVE  ActiveHolder'
  BY <1>a, <1>5 DEF TakeLock, Go, TypeOK
<1>6. ASSUME NEW t \in Handlers \cup {Closer}, NEW from, NEW to, SetActive(t, from, to),
             owner = t, to \notin {"release", "doRelease"}
      PROVE  ActiveHolder'
  BY <1>a, <1>6 DEF SetActive, Go, TypeOK
<1>7. ASSUME NEW t, NEW from, NEW to, ClearActive(t, from, to) PROVE ActiveHolder'
  BY <1>7 DEF ClearActive
<1>8. ASSUME NEW t \in Handlers \cup {Closer}, NEW from \in {"release", "doRelease"}, NEW to,
             owner = t, ReleaseLock(t, from, to)
      PROVE  ActiveHolder'
  BY <1>a, <1>8 DEF ReleaseLock, Go
<1>9. ASSUME NEW h \in Handlers, libusb_handle_events(h) \/ Late(h) PROVE ActiveHolder'
  <2>1. CASE TimeoutExpired(h) \/ TryModify(h) \/ CheckCompleted(h)
    BY <1>1, <2>1 DEF TimeoutExpired, TryModify, CheckCompleted
  <2>2. CASE TryLock(h)
    BY <1>1, <1>5, <2>2 DEF TryLock
  <2>3. CASE SetActive(h, "active", "check")
    BY <1>a, <1>6, <2>3 DEF SetActive, Go, Holders, Handling
  <2>4. CASE Poll(h) \/ PollTimeout(h)
    BY <1>1, <2>4 DEF Poll, PollTimeout
  <2>8. CASE Reap(h)
    BY <1>1, <2>8 DEF Reap
  <2>9. CASE TellCompletion(h)
    BY <1>1, <2>9 DEF TellCompletion, Broadcast
  <2>5. CASE UnlockEvents(h)
    <3>1. CASE ClearActive(h, "unlock", "release")
      BY <1>7, <3>1
    <3>2. CASE ReleaseLock(h, "release", "tell")
      BY <1>a, <1>8, <3>2 DEF ReleaseLock, Go, Holders, Handling
    <3>3. CASE Broadcast(h, "tell", "test")
      BY <1>1, <3>3 DEF Broadcast
    <3> QED
      BY <2>5, <3>1, <3>2, <3>3 DEF UnlockEvents
  <2>6. CASE LockWaiters(h) \/ WaitIfModified(h) \/ WaitIfActive(h)
    BY <1>1, <2>6 DEF LockWaiters, WaitIfModified, WaitIfActive
  <2>7. CASE Woken(h) \/ WaitTimeout(h)
    BY <1>1, <2>7 DEF Woken, WaitTimeout
  <2> QED
    BY <1>9, <2>1, <2>2, <2>3, <2>4, <2>5, <2>6, <2>7, <2>8, <2>9 DEF libusb_handle_events, Late
<1>10. CASE StartChange
  BY <1>1, <1>10 DEF StartChange
<1>11. CASE libusb_close
  <2>1. CASE CountModify("notify", "write", 1) \/ WritePipe \/ ReadPipe
    BY <1>1, <2>1 DEF CountModify, WritePipe, ReadPipe
  <2>2. CASE TakeLock(Closer, "lock", "locked")
    BY <1>5, <2>2
  <2>3. CASE SetActive(Closer, "locked", "read")
    BY <1>a, <1>6, <2>3 DEF SetActive, Go, Holders, CloserHolds
  <2>4. CASE do_close
    <3>1. CASE TakeLock(Closer, "doLock", "doLocked")
      BY <1>5, <3>1
    <3>2. CASE SetActive(Closer, "doLocked", "doUnlock")
      BY <1>a, <1>6, <3>2 DEF SetActive, Go, Holders, CloserHolds
    <3>3. CASE ClearActive(Closer, "doUnlock", "doRelease")
      BY <1>7, <3>3
    <3>4. CASE ReleaseLock(Closer, "doRelease", "doTell")
      BY <1>a, <1>8, <3>4 DEF ReleaseLock, Go, Holders, CloserHolds
    <3>5. CASE Broadcast(Closer, "doTell", "close")
      BY <1>1, <3>5 DEF Broadcast
    <3>6. CASE Go(Closer, "close", "unmodify") /\ UNCHANGED <<locks, event_handler_active,
                 pollfd_modify, ctrl_pipe, waiters_lock, transfers, closing>>
      BY <1>1, <3>6
    <3> QED
      BY <2>4, <3>1, <3>2, <3>3, <3>4, <3>5, <3>6 DEF do_close
  <2>5. CASE EndModify
    BY <1>1, <2>5 DEF EndModify, Finished
  <2>6. CASE ClearActive(Closer, "unlock", "release")
    BY <1>7, <2>6
  <2>7. CASE ReleaseLock(Closer, "release", "tell")
    BY <1>a, <1>8, <2>7 DEF ReleaseLock, Go, Holders, CloserHolds
  <2>8. CASE CloserTells
    <3>1. Broadcast(Closer, "tell", Finished) /\ Finished \in {"join", "idle"}
      BY <2>8 DEF CloserTells, Finished
    <3> QED
      BY <1>1, <3>1 DEF Broadcast
  <2>9. CASE JoinEventThread
    BY <1>1, <2>9 DEF JoinEventThread
  <2> QED
    BY <1>11, <2>1, <2>2, <2>3, <2>4, <2>5, <2>6, <2>7, <2>8, <2>9 DEF libusb_close
<1>12. CASE UNCHANGED vars
  BY <1>2, <1>12 DEF vars
<1> QED
  BY <1>3, <1>4, <1>9, <1>10, <1>11, <1>12 DEF Next

-----------------------------------------------------------------------------
(* The closer's flag and its byte.                                         *)
LEMMA FlagsStep ==
  ASSUME IInv, [Next]_vars
  PROVE  CloserFlags'
<1> USE Distinct DEF locks, transfers, closing
<1>a. TypeOK /\ CloserFlags
  BY DEF IInv, EventLockInv
<1>1. ASSUME NEW t \in Handlers, NEW from, NEW to, Go(t, from, to) \/ Broadcast(t, from, to),
             UNCHANGED <<pollfd_modify, ctrl_pipe>>
      PROVE  CloserFlags'
  <2>1. pc'[Closer] = pc[Closer]
    BY <1>a, <1>1 DEF Go, Broadcast, Told, TypeOK, CloserSteps
  <2> QED
    BY <1>a, <1>1, <2>1 DEF CloserFlags
<1>2. ASSUME UNCHANGED <<pc, pollfd_modify, ctrl_pipe>> PROVE CloserFlags'
  BY <1>a, <1>2 DEF CloserFlags
<1>3. ASSUME NEW c \in Callers,
             libusb_control_transfer(c) \/ TestCompleted(c) \/ KernelCompletes(c)
      PROVE  CloserFlags'
  BY <1>1, <1>2, <1>3 DEF libusb_control_transfer, TestCompleted, KernelCompletes
<1>4. CASE _uvc_handle_events
  BY <1>1, <1>4 DEF _uvc_handle_events
<1>5. ASSUME NEW h \in Handlers, libusb_handle_events(h) \/ Late(h) PROVE CloserFlags'
  <2>1. CASE TimeoutExpired(h) \/ TryModify(h) \/ CheckCompleted(h) \/ SetActive(h, "active", "check")
    BY <1>1, <2>1 DEF TimeoutExpired, TryModify, CheckCompleted, SetActive
  <2>2. CASE TryLock(h)
    BY <1>1, <2>2 DEF TryLock, TakeLock
  <2>3. CASE Poll(h) \/ PollTimeout(h) \/ Reap(h)
    BY <1>1, <2>3 DEF Poll, PollTimeout, Reap
  <2>4. CASE TellCompletion(h)
    BY <1>1, <2>4 DEF TellCompletion, Broadcast
  <2>5. CASE UnlockEvents(h)
    BY <1>1, <2>5 DEF UnlockEvents, ClearActive, ReleaseLock, Broadcast
  <2>6. CASE LockWaiters(h) \/ WaitIfModified(h) \/ WaitIfActive(h)
    BY <1>1, <2>6 DEF LockWaiters, WaitIfModified, WaitIfActive
  <2>7. CASE Woken(h) \/ WaitTimeout(h)
    BY <1>1, <2>7 DEF Woken, WaitTimeout
  <2> QED
    BY <1>5, <2>1, <2>2, <2>3, <2>4, <2>5, <2>6, <2>7 DEF libusb_handle_events, Late
<1>6. ASSUME NEW from, NEW to, Go(Closer, from, to) \/ Broadcast(Closer, from, to)
      PROVE  pc[Closer] = from /\ pc'[Closer] = to
  BY <1>a, <1>6 DEF Go, Broadcast, Told, TypeOK
<1>7. CASE StartChange
  BY <1>a, <1>6, <1>7 DEF StartChange, CloserFlags, CloserSteps
<1>8. CASE libusb_close
  <2> USE <1>a DEF CloserFlags, CloserSteps
  <2>1. CASE CountModify("notify", "write", 1)
    BY <1>6, <2>1 DEF CountModify
  <2>2. CASE WritePipe
    BY <1>6, <2>2 DEF WritePipe
  <2>3. CASE TakeLock(Closer, "lock", "locked") \/ SetActive(Closer, "locked", "read")
    BY <1>6, <2>3 DEF TakeLock, SetActive
  <2>4. CASE ReadPipe
    BY <1>6, <2>4 DEF ReadPipe
  <2>5. CASE do_close
    <3>1. CASE TakeLock(Closer, "doLock", "doLocked") \/ SetActive(Closer, "doLocked", "doUnlock")
      BY <1>6, <3>1 DEF TakeLock, SetActive
    <3>2. CASE ClearActive(Closer, "doUnlock", "doRelease") \/ ReleaseLock(Closer, "doRelease", "doTell")
      BY <1>6, <3>2 DEF ClearActive, ReleaseLock
    <3>3. CASE Broadcast(Closer, "doTell", "close")
      BY <1>6, <3>3 DEF Broadcast
    <3>4. CASE Go(Closer, "close", "unmodify") /\ UNCHANGED <<locks, event_handler_active,
                 pollfd_modify, ctrl_pipe, waiters_lock, transfers, closing>>
      BY <1>6, <3>4
    <3> QED
      BY <2>5, <3>1, <3>2, <3>3, <3>4 DEF do_close
  <2>6. CASE EndModify
    BY <1>6, <2>6 DEF EndModify, Finished
  <2>7. CASE ClearActive(Closer, "unlock", "release") \/ ReleaseLock(Closer, "release", "tell")
    BY <1>6, <2>7 DEF ClearActive, ReleaseLock
  <2>8. CASE CloserTells
    BY <1>6, <2>8 DEF CloserTells, Broadcast, Finished
  <2>9. CASE JoinEventThread
    BY <1>6, <2>9 DEF JoinEventThread
  <2> QED
    BY <1>8, <2>1, <2>2, <2>3, <2>4, <2>5, <2>6, <2>7, <2>8, <2>9 DEF libusb_close
<1>9. CASE UNCHANGED vars
  BY <1>2, <1>9 DEF vars
<1> QED
  BY <1>3, <1>4, <1>5, <1>7, <1>8, <1>9 DEF Next

-----------------------------------------------------------------------------
(* Who sleeps is told: by whoever handles events, or modifies the poll     *)
(* fds.                                                                    *)

(* A thread that goes on without falling asleep and still has to tell.     *)
LEMMA StillTells ==
  ASSUME TypeOK, SleepersWatched, NEW t \in Handlers \cup {Closer}, NEW from, NEW to,
         Go(t, from, to), UNCHANGED write_failed, to # "asleep", WillTell(t) => WillTell(t)'
  PROVE  SleepersWatched'
<1>1. DOMAIN pc' = DOMAIN pc /\ \A k \in DOMAIN pc : k # t => pc'[k] = pc[k]
  BY DEF Go, TypeOK
<1>2. \A k \in DOMAIN pc : WillTell(k) => WillTell(k)'
  BY <1>1 DEF WillTell
<1>3. \A h \in Handlers : pc'[h] = "asleep" => pc[h] = "asleep"
  BY <1>1 DEF Go, TypeOK
<1> QED
  BY <1>1, <1>2, <1>3 DEF SleepersWatched

(* Whoever broadcasts leaves nobody asleep.                                *)
LEMMA NobodySleeps ==
  ASSUME TypeOK, NEW t, NEW from, NEW to, Broadcast(t, from, to), to # "asleep"
  PROVE  \A h \in DOMAIN pc : h \in DOMAIN pc' /\ pc'[h] # "asleep"
BY DEF Broadcast, Told, TypeOK

LEMMA SleepersStep ==
  ASSUME IInv, [Next]_vars
  PROVE  SleepersWatched'
<1> USE Distinct DEF locks, transfers, closing
<1>a. TypeOK /\ Holders /\ ActiveHolder /\ CloserFlags /\ SleepersWatched
  BY DEF IInv, EventLockInv
<1>b. DOMAIN pc = Handlers \cup {Closer}
  BY <1>a DEF TypeOK
<1>1. ASSUME NEW h \in Handlers, NEW from, NEW to, Go(h, from, to), UNCHANGED write_failed,
             to # "asleep",
             \/ from \notin {"active", "check", "poll", "reap", "told", "unlock", "release", "tell"}
             \/ to \in {"active", "check", "poll", "reap", "told", "unlock", "release", "tell"}
      PROVE  SleepersWatched'
  <2>1. WillTell(h) => WillTell(h)'
    BY <1>a, <1>1 DEF WillTell, Go, TypeOK
  <2> QED
    BY <1>a, <1>1, <2>1, StillTells
<1>2. ASSUME NEW from, NEW to, Go(Closer, from, to), UNCHANGED write_failed,
             to \in CloserSteps, to \notin {"idle", "notify", "join", "ended"} \/ from \in {"idle", "join"}
      PROVE  SleepersWatched'
  <2>1. WillTell(Closer) => WillTell(Closer)'
    BY <1>a, <1>2 DEF WillTell, Go, TypeOK
  <2> QED
    BY <1>a, <1>2, <2>1, StillTells DEF CloserSteps
<1>3. ASSUME NEW t, NEW from, NEW to, Broadcast(t, from, to), to # "asleep" PROVE SleepersWatched'
  BY <1>a, <1>b, <1>3, NobodySleeps DEF SleepersWatched
<1>4. ASSUME UNCHANGED <<pc, write_failed>> PROVE SleepersWatched'
  BY <1>a, <1>4 DEF SleepersWatched, WillTell
<1>5. ASSUME NEW c \in Callers,
             libusb_control_transfer(c) \/ TestCompleted(c) \/ KernelCompletes(c)
      PROVE  SleepersWatched'
  BY <1>1, <1>4, <1>5 DEF libusb_control_transfer, TestCompleted, KernelCompletes
<1>6. CASE _uvc_handle_events
  BY <1>1, <1>6 DEF _uvc_handle_events
<1>7. ASSUME NEW h \in Handlers, NEW from \in {"modify?", "active?"}, Go(h, from, "asleep"),
             UNCHANGED write_failed, NEW t \in Handlers \cup {Closer}, WillTell(t)
      PROVE  SleepersWatched'
  <2>1. t # h
    BY <1>7 DEF WillTell, Go
  <2>2. pc'[t] = pc[t] /\ t \in DOMAIN pc'
    BY <1>a, <1>7, <2>1 DEF Go, TypeOK
  <2>3. WillTell(t)'
    BY <1>7, <2>2 DEF WillTell
  <2> QED
    BY <2>2, <2>3 DEF SleepersWatched
<1>8. ASSUME NEW h \in Handlers, libusb_handle_events(h) \/ Late(h) PROVE SleepersWatched'
  <2>1. CASE TimeoutExpired(h) \/ TryModify(h) \/ CheckCompleted(h) \/ SetActive(h, "active", "check")
    BY <1>1, <2>1 DEF TimeoutExpired, TryModify, CheckCompleted, SetActive
  <2>2. CASE TryLock(h)
    BY <1>1, <2>2 DEF TryLock, TakeLock
  <2>3. CASE Poll(h) \/ PollTimeout(h)
    BY <1>1, <2>3 DEF Poll, PollTimeout
  <2>4. CASE Reap(h)
    BY <1>1, <2>4 DEF Reap
  <2>5. CASE TellCompletion(h)
    BY <1>3, <2>5 DEF TellCompletion
  <2>6. CASE UnlockEvents(h)
    BY <1>1, <1>3, <2>6 DEF UnlockEvents, ClearActive, ReleaseLock
  <2>7. CASE LockWaiters(h)
    BY <1>1, <2>7 DEF LockWaiters
  <2>8. CASE WaitIfModified(h)
    <3>1. CASE pollfd_modify > 0 /\ Go(h, "modify?", "asleep")
      <4>1. WillTell(Closer)
        BY <1>a, <3>1 DEF CloserFlags, WillTell
      <4> QED
        BY <1>7, <2>8, <3>1, <4>1 DEF WaitIfModified
    <3>2. CASE Go(h, "modify?", "active?")
      BY <1>1, <2>8, <3>2 DEF WaitIfModified
    <3> QED
      BY <2>8, <3>1, <3>2 DEF WaitIfModified
  <2>9. CASE WaitIfActive(h)
    <3>1. CASE event_handler_active
      <4>1. owner \in Handlers \cup {Closer} /\ WillTell(owner)
        BY <1>a, <3>1 DEF ActiveHolder, Holders, CloserHolds, Handling, WillTell, TypeOK, CloserSteps
      <4> QED
        BY <1>7, <2>9, <3>1, <4>1 DEF WaitIfActive
    <3>2. CASE ~event_handler_active
      BY <1>1, <2>9, <3>2 DEF WaitIfActive
    <3> QED
      BY <3>1, <3>2
  <2>10. CASE Woken(h) \/ WaitTimeout(h)
    BY <1>1, <2>10 DEF Woken, WaitTimeout
  <2> QED
    BY <1>8, <2>1, <2>2, <2>3, <2>4, <2>5, <2>6, <2>7, <2>8, <2>9, <2>10
       DEF libusb_handle_events, Late
<1>9. CASE StartChange
  BY <1>2, <1>9 DEF StartChange, CloserSteps
<1>10. CASE libusb_close
  <2> USE DEF CloserSteps
  <2>1. CASE CountModify("notify", "write", 1)
    BY <1>2, <2>1 DEF CountModify
  <2>2. CASE WritePipe
    <3>1. CASE write_failed'
      BY <3>1 DEF SleepersWatched
    <3>2. CASE UNCHANGED write_failed
      BY <1>2, <2>2, <3>2 DEF WritePipe
    <3> QED
      BY <2>2, <3>1, <3>2 DEF WritePipe
  <2>3. CASE TakeLock(Closer, "lock", "locked") \/ SetActive(Closer, "locked", "read")
    BY <1>2, <2>3 DEF TakeLock, SetActive
  <2>4. CASE ReadPipe
    BY <1>2, <2>4 DEF ReadPipe
  <2>5. CASE do_close
    <3>1. CASE TakeLock(Closer, "doLock", "doLocked") \/ SetActive(Closer, "doLocked", "doUnlock")
      BY <1>2, <3>1 DEF TakeLock, SetActive
    <3>2. CASE ClearActive(Closer, "doUnlock", "doRelease") \/ ReleaseLock(Closer, "doRelease", "doTell")
      BY <1>2, <3>2 DEF ClearActive, ReleaseLock
    <3>3. CASE Broadcast(Closer, "doTell", "close")
      BY <1>3, <3>3
    <3>4. CASE Go(Closer, "close", "unmodify") /\ UNCHANGED <<locks, event_handler_active,
                 pollfd_modify, ctrl_pipe, waiters_lock, transfers, closing>>
      BY <1>2, <3>4
    <3> QED
      BY <2>5, <3>1, <3>2, <3>3, <3>4 DEF do_close
  <2>6. CASE EndModify
    <3>1. CASE owner = Closer
      BY <1>2, <2>6, <3>1 DEF EndModify
    <3>2. CASE owner # Closer
      <4>1. write_failed'
        BY <1>a, <2>6, <3>2 DEF EndModify, Go, Holders, CloserHolds
      <4> QED
        BY <4>1 DEF SleepersWatched
    <3> QED
      BY <3>1, <3>2
  <2>7. CASE ClearActive(Closer, "unlock", "release") \/ ReleaseLock(Closer, "release", "tell")
    BY <1>2, <2>7 DEF ClearActive, ReleaseLock
  <2>8. CASE CloserTells
    BY <1>3, <2>8 DEF CloserTells, Finished
  <2>9. CASE JoinEventThread
    BY <1>2, <2>9 DEF JoinEventThread
  <2> QED
    BY <1>10, <2>1, <2>2, <2>3, <2>4, <2>5, <2>6, <2>7, <2>8, <2>9 DEF libusb_close
<1>11. CASE UNCHANGED vars
  BY <1>4, <1>11 DEF vars
<1> QED
  BY <1>5, <1>6, <1>8, <1>9, <1>10, <1>11 DEF Next

-----------------------------------------------------------------------------
(* Who runs a callback tells of it.                                        *)

(* A step of thread t that has nothing to do with telling.                 *)
LEMMA QuietStep ==
  ASSUME TypeOK, Deciding, CompletedAwake, NEW t \in Handlers \cup {Closer}, NEW from, NEW to,
         Go(t, from, to), UNCHANGED <<completed, waiters_lock>>,
         from \notin {"told", "modify?", "active?"},
         to \notin {"modify?", "active?", "poll", "asleep"}
  PROVE  Deciding' /\ CompletedAwake'
<1>1. pc'[t] = to /\ pc[t] = from
  BY DEF Go, TypeOK
<1>2. \A k \in Handlers : k # t => pc'[k] = pc[k]
  BY DEF Go, TypeOK
<1>3. \A k \in Handlers : pc[k] = "told" => pc'[k] = "told"
  BY <1>1, <1>2
<1>4. Deciding'
  BY <1>1, <1>2, <1>3, Distinct DEF Deciding
<1>5. CompletedAwake'
  BY <1>1, <1>2, <1>3, Distinct DEF CompletedAwake
<1> QED
  BY <1>4, <1>5

(* A broadcast: nobody decides and nobody sleeps.                          *)
LEMMA BroadcastTells ==
  ASSUME TypeOK, Deciding, CompletedAwake, NEW t \in Handlers \cup {Closer}, NEW from, NEW to,
         Broadcast(t, from, to), to \notin {"modify?", "active?", "poll", "asleep"}
  PROVE  Deciding' /\ CompletedAwake'
<1>1. \A k \in Handlers : pc'[k] = IF k = t THEN to ELSE IF pc[k] = "asleep" THEN "woken" ELSE pc[k]
  BY DEF Broadcast, Told, TypeOK
<1>2. \A k \in Handlers : pc[k] \notin {"modify?", "active?"}
  BY Distinct DEF Broadcast, Deciding
<1>3. \A k \in Handlers : pc'[k] \notin {"modify?", "active?", "asleep"}
  BY <1>1, <1>2
<1>4. \A k \in Handlers : pc'[k] = "poll" => pc[k] = "poll"
  BY <1>1
<1>5. waiters_lock' = None /\ completed' = completed
  BY DEF Broadcast, transfers
<1>6. Deciding'
  BY <1>3, <1>5, Distinct DEF Deciding
<1>7. CompletedAwake'
  BY <1>3, <1>4, <1>5, Distinct DEF CompletedAwake
<1> QED
  BY <1>6, <1>7

LEMMA TellsStep ==
  ASSUME IInv, [Next]_vars
  PROVE  Deciding' /\ CompletedAwake'
<1> USE Distinct DEF locks, transfers, closing
<1>a. TypeOK /\ Holders /\ Deciding /\ CompletedAwake
  BY DEF IInv, EventLockInv
<1>1. ASSUME UNCHANGED <<pc, completed, waiters_lock>> PROVE Deciding' /\ CompletedAwake'
  BY <1>a, <1>1 DEF Deciding, CompletedAwake
<1>2. ASSUME NEW c \in Callers, libusb_control_transfer(c) PROVE Deciding' /\ CompletedAwake'
  <2>1. pc[c] = "idle" /\ pc'[c] = "test" /\ completed'[c] = FALSE
    BY <1>a, <1>2 DEF libusb_control_transfer, Go, TypeOK
  <2>2. \A k \in Handlers : k # c => pc'[k] = pc[k]
    BY <1>a, <1>2 DEF libusb_control_transfer, Go, TypeOK
  <2>3. \A k \in Callers : k # c => completed'[k] = completed[k]
    BY <1>a, <1>2 DEF libusb_control_transfer, TypeOK
  <2>4. \A k \in Handlers : pc[k] = "told" => pc'[k] = "told"
    BY <2>1, <2>2
  <2>5. Deciding'
    BY <1>a, <1>2, <2>1, <2>2, <2>3, <2>4 DEF Deciding, libusb_control_transfer
  <2>6. CompletedAwake'
    BY <1>a, <2>1, <2>2, <2>3, <2>4 DEF CompletedAwake
  <2> QED
    BY <2>5, <2>6
<1>3. ASSUME NEW c \in Callers, TestCompleted(c) \/ KernelCompletes(c)
      PROVE  Deciding' /\ CompletedAwake'
  BY <1>a, <1>1, <1>3, QuietStep DEF TestCompleted, KernelCompletes
<1>4. CASE _uvc_handle_events
  BY <1>a, <1>4, QuietStep DEF _uvc_handle_events
<1>5. ASSUME NEW h \in Handlers, libusb_handle_events(h) \/ Late(h)
      PROVE  Deciding' /\ CompletedAwake'
  <2>1. CASE TimeoutExpired(h) \/ TryModify(h) \/ SetActive(h, "active", "check")
    BY <1>a, <2>1, QuietStep DEF TimeoutExpired, TryModify, SetActive
  <2>2. CASE TryLock(h)
    BY <1>a, <2>2, QuietStep DEF TryLock, TakeLock
  <2>a. ASSUME NEW from, NEW to, Go(h, from, to)
        PROVE  /\ pc[h] = from /\ pc'[h] = to
               /\ \A k \in Handlers : k # h => pc'[k] = pc[k]
    BY <1>a, <2>a DEF Go, TypeOK
  <2>3. CASE CheckCompleted(h)
    <3>1. CASE Done(h)
      BY <1>a, <2>3, <3>1, QuietStep DEF CheckCompleted
    <3>2. CASE ~Done(h)
      <4>1. Go(h, "check", "poll") /\ UNCHANGED <<completed, waiters_lock>>
        BY <2>3, <3>2 DEF CheckCompleted
      <4>2. Deciding'
        BY <1>a, <2>a, <4>1 DEF Deciding
      <4>3. CompletedAwake'
        BY <1>a, <2>a, <3>2, <4>1 DEF CompletedAwake, Done
      <4> QED
        BY <4>2, <4>3
    <3> QED
      BY <3>1, <3>2
  <2>4. CASE Poll(h) \/ PollTimeout(h)
    BY <1>a, <2>4, QuietStep DEF Poll, PollTimeout
  <2>5. CASE Reap(h)
    <3>1. ASSUME NEW c \in Callers, Go(h, "reap", "told"), UNCHANGED waiters_lock,
                 completed' = [completed EXCEPT ![c] = TRUE]
          PROVE  Deciding' /\ CompletedAwake'
      <4>1. pc[h] = "reap" /\ pc'[h] = "told" /\ \A k \in Handlers : k # h => pc'[k] = pc[k]
        BY <2>a, <3>1
      <4>2. \A k \in Handlers : pc'[k] # "poll"
        BY <1>a, <4>1 DEF Holders, Handling
      <4>3. Deciding'
        BY <1>a, <3>1, <4>1 DEF Deciding
      <4>4. CompletedAwake'
        BY <4>1, <4>2 DEF CompletedAwake
      <4> QED
        BY <4>3, <4>4
    <3>2. CASE Go(h, "reap", "unlock") /\ UNCHANGED completed
      BY <1>a, <2>5, <3>2, QuietStep DEF Reap
    <3> QED
      BY <2>5, <3>1, <3>2 DEF Reap
  <2>6. CASE TellCompletion(h)
    BY <1>a, <2>6, BroadcastTells DEF TellCompletion
  <2>7. CASE UnlockEvents(h)
    BY <1>a, <2>7, QuietStep, BroadcastTells DEF UnlockEvents, ClearActive, ReleaseLock
  <2>8. CASE LockWaiters(h)
    <3>1. CASE Go(h, "waiters", "test") /\ UNCHANGED waiters_lock
      BY <1>a, <2>8, <3>1, QuietStep DEF LockWaiters
    <3>2. CASE ~Done(h) /\ Go(h, "waiters", "modify?") /\ waiters_lock' = h
      <4>1. waiters_lock = None /\ UNCHANGED completed
        BY <2>8 DEF LockWaiters
      <4>2. \A k \in Handlers : pc[k] \notin {"modify?", "active?"}
        BY <1>a, <4>1 DEF Deciding
      <4>3. \A k \in Handlers : pc[k] = "told" => pc'[k] = "told"
        BY <2>a, <3>2
      <4>4. Deciding'
        BY <1>a, <2>a, <3>2, <4>1, <4>2, <4>3 DEF Deciding, Done
      <4>5. CompletedAwake'
        BY <1>a, <2>a, <3>2, <4>1, <4>3 DEF CompletedAwake
      <4> QED
        BY <4>4, <4>5
    <3> QED
      BY <2>8, <3>1, <3>2 DEF LockWaiters
  <2>b. ASSUME NEW from \in {"modify?", "active?"}, NEW to, Go(h, from, to),
               UNCHANGED completed, waiters_lock' = None, to \in {"asleep", "try"}
        PROVE  Deciding' /\ CompletedAwake'
    <3>1. pc[h] = from /\ waiters_lock = h
      BY <1>a, <2>a, <2>b DEF Deciding
    <3>2. \A k \in Handlers : pc'[k] \notin {"modify?", "active?"}
      BY <1>a, <2>a, <2>b, <3>1 DEF Deciding
    <3>3. \A k \in Handlers : pc[k] = "told" => pc'[k] = "told"
      BY <2>a, <2>b
    <3>4. Deciding'
      BY <2>b, <3>2 DEF Deciding
    <3>5. CompletedAwake'
      BY <1>a, <2>a, <2>b, <3>1, <3>3 DEF CompletedAwake, Deciding
    <3> QED
      BY <3>4, <3>5
  <2>9. CASE WaitIfModified(h)
    <3>1. CASE Go(h, "modify?", "asleep") /\ waiters_lock' = None
      BY <2>9, <2>b, <3>1 DEF WaitIfModified
    <3>2. CASE Go(h, "modify?", "active?") /\ UNCHANGED waiters_lock
      <4>1. UNCHANGED completed
        BY <2>9 DEF WaitIfModified
      <4>2. \A k \in Handlers : pc[k] = "told" => pc'[k] = "told"
        BY <2>a, <3>2
      <4>3. Deciding'
        BY <1>a, <2>a, <3>2, <4>1, <4>2 DEF Deciding
      <4>4. CompletedAwake'
        BY <1>a, <2>a, <3>2, <4>1, <4>2 DEF CompletedAwake
      <4> QED
        BY <4>3, <4>4
    <3> QED
      BY <2>9, <3>1, <3>2 DEF WaitIfModified
  <2>10. CASE WaitIfActive(h)
    BY <2>10, <2>b DEF WaitIfActive
  <2>11. CASE Woken(h) \/ WaitTimeout(h)
    BY <1>a, <2>11, QuietStep DEF Woken, WaitTimeout
  <2> QED
    BY <1>5, <2>1, <2>2, <2>3, <2>4, <2>5, <2>6, <2>7, <2>8, <2>9, <2>10, <2>11
       DEF libusb_handle_events, Late
<1>6. CASE StartChange
  BY <1>a, <1>6, QuietStep DEF StartChange
<1>7. CASE libusb_close
  <2>1. CASE CountModify("notify", "write", 1)
    BY <1>a, <2>1, QuietStep DEF CountModify
  <2>2. CASE WritePipe
    BY <1>a, <2>2, QuietStep DEF WritePipe
  <2>3. CASE TakeLock(Closer, "lock", "locked") \/ SetActive(Closer, "locked", "read")
    BY <1>a, <2>3, QuietStep DEF TakeLock, SetActive
  <2>4. CASE ReadPipe
    BY <1>a, <2>4, QuietStep DEF ReadPipe
  <2>5. CASE do_close
    <3>1. CASE TakeLock(Closer, "doLock", "doLocked") \/ SetActive(Closer, "doLocked", "doUnlock")
      BY <1>a, <3>1, QuietStep DEF TakeLock, SetActive
    <3>2. CASE ClearActive(Closer, "doUnlock", "doRelease") \/ ReleaseLock(Closer, "doRelease", "doTell")
      BY <1>a, <3>2, QuietStep DEF ClearActive, ReleaseLock
    <3>3. CASE Broadcast(Closer, "doTell", "close")
      BY <1>a, <3>3, BroadcastTells
    <3>4. CASE Go(Closer, "close", "unmodify") /\ UNCHANGED <<locks, event_handler_active,
                 pollfd_modify, ctrl_pipe, waiters_lock, transfers, closing>>
      BY <1>a, <3>4, QuietStep
    <3> QED
      BY <2>5, <3>1, <3>2, <3>3, <3>4 DEF do_close
  <2>6. CASE EndModify
    BY <1>a, <2>6, QuietStep DEF EndModify, Finished
  <2>7. CASE ClearActive(Closer, "unlock", "release") \/ ReleaseLock(Closer, "release", "tell")
    BY <1>a, <2>7, QuietStep DEF ClearActive, ReleaseLock
  <2>8. CASE CloserTells
    BY <1>a, <2>8, BroadcastTells DEF CloserTells, Finished
  <2>9. CASE JoinEventThread
    BY <1>a, <2>9, QuietStep DEF JoinEventThread
  <2> QED
    BY <1>7, <2>1, <2>2, <2>3, <2>4, <2>5, <2>6, <2>7, <2>8, <2>9 DEF libusb_close
<1>8. CASE UNCHANGED vars
  BY <1>1, <1>8 DEF vars
<1> QED
  BY <1>2, <1>3, <1>4, <1>5, <1>6, <1>7, <1>8 DEF Next

-----------------------------------------------------------------------------
(* While the descriptor is closed the closer owns the lock, so no handler  *)
(* is in its section.                                                      *)
LEMMA ClosedByHolder == Holders => ClosedAlone
  BY Distinct DEF Holders, CloserHolds, ClosedAlone, Handling

LEMMA InitIInv == Init => IInv
<1> SUFFICES ASSUME Init PROVE IInv
  OBVIOUS
<1> USE Distinct
<1>1. TypeOK
  <2>1. /\ pc \in [Handlers \cup {Closer} -> HandlerSteps \cup CloserSteps]
        /\ \A h \in Handlers : pc[h] \in HandlerSteps
        /\ pc[Closer] \in CloserSteps
    BY DEF Init, HandlerSteps, CloserSteps
  <2>2. /\ urb \in [Callers -> {"none", "kernel", "done"}]
        /\ completed \in [Callers -> BOOLEAN]
    BY DEF Init
  <2>3. /\ changes \in 0..MaxChanges /\ depth \in 0..2
        /\ pollfd_modify \in 0..1 /\ ctrl_pipe \in 0..1
    BY DEF Init
  <2> QED
    BY <2>1, <2>2, <2>3 DEF Init, TypeOK
<1>2. /\ pc[Closer] = "idle"
      /\ \A h \in Handlers : pc[h] \in {"test", "idle"}
  BY DEF Init
<1>3. SleepersWatched /\ CompletedAwake
  BY <1>2 DEF Init, SleepersWatched, CompletedAwake
<1>4. Holders /\ ActiveHolder /\ CloserFlags
  BY <1>2 DEF Init, Holders, CloserHolds, Handling, ActiveHolder, CloserFlags
<1>5. Deciding
  BY <1>2 DEF Init, Deciding
<1> QED
  BY <1>1, <1>3, <1>4, <1>5, ClosedByHolder DEF IInv, EventLockInv

(* events_lock and event_waiters_lock are held where the code holds them,  *)
(* however the threads run: the inductive invariant of libusb's event      *)
(* handling.                                                               *)
THEOREM Inductive == Spec => []IInv
<1>1. IInv /\ [Next]_vars => IInv'
  <2> SUFFICES ASSUME IInv, [Next]_vars PROVE IInv'
    OBVIOUS
  <2>1. Holders' => ClosedAlone'
    BY Distinct DEF Holders, CloserHolds, ClosedAlone, Handling
  <2> QED
    BY <2>1, TypeStep, HoldersStep, ActiveStep, FlagsStep, SleepersStep, TellsStep
       DEF IInv, EventLockInv
<1> QED
  BY <1>1, InitIInv, PTL DEF Spec

(* No thread is left asleep without somebody who will tell it, none sleeps *)
(* on or polls after its transfer has completed, and nobody polls or reaps *)
(* a descriptor while it is closed.                                        *)
THEOREM LocksAlways == Spec => []EventLockInv
<1>1. IInv => EventLockInv
  BY DEF IInv
<1> QED
  BY <1>1, Inductive, PTL

-----------------------------------------------------------------------------
(* UsbTransfers: its invariant UsbIInv is UrbsInv with what makes it       *)
(* inductive; in it a transfer's URBs are counted wherever they are.       *)

(* Queues of URBs.                                                         *)
LEMMA IndicesAppend ==
  ASSUME NEW queue \in Seq(Urbs), NEW u \in Urbs, NEW t
  PROVE  IndicesOf(t, Append(queue, u)) =
           IndicesOf(t, queue) \cup (IF u.transfer = t THEN {u.index} ELSE {})
<1> DEFINE longer == Append(queue, u)
<1>1. /\ DOMAIN longer = 1..Len(queue) + 1 /\ DOMAIN queue = 1..Len(queue)
      /\ longer[Len(queue) + 1] = u
      /\ \A k \in DOMAIN queue : k \in DOMAIN longer /\ longer[k] = queue[k]
      /\ \A k \in DOMAIN longer : k \in DOMAIN queue \/ k = Len(queue) + 1
      /\ Len(queue) + 1 \in DOMAIN longer
  OBVIOUS
<1> HIDE DEF longer
<1>2. IndicesOf(t, longer) =
        IndicesOf(t, queue) \cup (IF u.transfer = t THEN {u.index} ELSE {})
  BY <1>1 DEF IndicesOf
<1> QED BY <1>2 DEF longer

LEMMA IndicesTail ==
  ASSUME NEW queue \in Seq(Urbs), queue # <<>>, NEW t
  PROVE  IndicesOf(t, queue) =
           IndicesOf(t, Tail(queue)) \cup
             (IF Head(queue).transfer = t THEN {Head(queue).index} ELSE {})
<1> DEFINE rest == Tail(queue)
<1>1. /\ DOMAIN queue = 1..Len(queue) /\ DOMAIN rest = 1..Len(queue) - 1
      /\ Len(queue) \in Nat \ {0} /\ Head(queue) = queue[1]
      /\ \A k \in DOMAIN rest : rest[k] = queue[k + 1] /\ k + 1 \in DOMAIN queue
  OBVIOUS
<1>2. \A k \in DOMAIN queue :
        k = 1 \/ (k - 1 \in DOMAIN rest /\ rest[k - 1] = queue[k])
  BY <1>1
<1>3. 1 \in DOMAIN queue
  BY <1>1
<1>4. Head(queue) = queue[1]
  BY <1>1
<1>5. \A k \in DOMAIN rest : \E j \in DOMAIN queue : rest[k] = queue[j]
  BY <1>1
<1>6. \A k \in DOMAIN queue : k = 1 \/ \E j \in DOMAIN rest : rest[j] = queue[k]
  BY <1>2
<1> HIDE DEF rest
<1>7. IndicesOf(t, queue) =
        IndicesOf(t, rest) \cup
          (IF queue[1].transfer = t THEN {queue[1].index} ELSE {})
  BY <1>3, <1>5, <1>6 DEF IndicesOf
<1> QED BY <1>4, <1>7 DEF rest

LEMMA ConcatUrbs ==
  ASSUME NEW queue \in Seq(Urbs), NEW more \in Seq(Urbs)
  PROVE  /\ DOMAIN (queue \o more) = 1..Len(queue) + Len(more)
         /\ DOMAIN queue = 1..Len(queue) /\ DOMAIN more = 1..Len(more)
         /\ Len(queue) \in Nat /\ Len(more) \in Nat
         /\ \A k \in DOMAIN queue : k \in DOMAIN (queue \o more) /\ (queue \o more)[k] = queue[k]
         /\ \A k \in DOMAIN more :
              Len(queue) + k \in DOMAIN (queue \o more) /\ (queue \o more)[Len(queue) + k] = more[k]
         /\ \A k \in DOMAIN (queue \o more) :
              \/ k \in DOMAIN queue
              \/ /\ k > Len(queue)
                 /\ k - Len(queue) \in DOMAIN more /\ (queue \o more)[k] = more[k - Len(queue)]
<1>1. /\ DOMAIN (queue \o more) = 1..Len(queue) + Len(more)
      /\ DOMAIN queue = 1..Len(queue) /\ DOMAIN more = 1..Len(more)
      /\ Len(queue) \in Nat /\ Len(more) \in Nat
  OBVIOUS
<1>2. \A k \in 1..Len(queue) : (queue \o more)[k] = queue[k]
  OBVIOUS
<1>3. \A k \in 1..Len(more) : (queue \o more)[Len(queue) + k] = more[k]
  OBVIOUS
<1>4. \A k \in 1..Len(queue) + Len(more) : k > Len(queue) =>
        k - Len(queue) \in 1..Len(more) /\ Len(queue) + (k - Len(queue)) = k
  BY <1>1
<1>5. \A k \in 1..Len(more) : Len(queue) + k \in 1..Len(queue) + Len(more)
  BY <1>1
<1>6. \A k \in 1..Len(queue) : k \in 1..Len(queue) + Len(more)
  BY <1>1
<1>7. \A k \in 1..Len(queue) + Len(more) : k > Len(queue) =>
        (queue \o more)[k] = more[k - Len(queue)]
  BY <1>3, <1>4
<1>8. \A k \in 1..Len(queue) + Len(more) : k \in 1..Len(queue) \/ k > Len(queue)
  BY <1>1
<1> QED BY <1>1, <1>2, <1>3, <1>4, <1>5, <1>6, <1>7, <1>8

LEMMA IndicesConcat ==
  ASSUME NEW queue \in Seq(Urbs), NEW more \in Seq(Urbs), NEW t
  PROVE  IndicesOf(t, queue \o more) = IndicesOf(t, queue) \cup IndicesOf(t, more)
<1> DEFINE both == queue \o more
<1>a. /\ \A k \in DOMAIN queue : k \in DOMAIN both /\ both[k] = queue[k]
      /\ \A k \in DOMAIN more :
           Len(queue) + k \in DOMAIN both /\ both[Len(queue) + k] = more[k]
      /\ \A k \in DOMAIN both :
           \/ k \in DOMAIN queue
           \/ /\ k > Len(queue)
              /\ k - Len(queue) \in DOMAIN more /\ both[k] = more[k - Len(queue)]
  BY ConcatUrbs
<1> HIDE DEF both
<1>1. /\ \A k \in DOMAIN queue : k \in DOMAIN both /\ both[k] = queue[k]
      /\ \A k \in DOMAIN more : \E j \in DOMAIN both : both[j] = more[k]
  BY <1>a
<1>2. \A k \in DOMAIN both :
        \/ k \in DOMAIN queue
        \/ \E j \in DOMAIN more : both[k] = more[j]
  BY <1>a
<1>3. IndicesOf(t, both) = IndicesOf(t, queue) \cup IndicesOf(t, more)
  BY <1>1, <1>2 DEF IndicesOf
<1> QED BY <1>3 DEF both

LEMMA IndicesFinite ==
  ASSUME NEW queue \in Seq(Urbs), NEW t
  PROVE  /\ IndicesOf(t, queue) \subseteq Indices
         /\ IsFiniteSet(IndicesOf(t, queue))
         /\ Cardinality(IndicesOf(t, queue)) \in Nat
<1>1. \A k \in DOMAIN queue : queue[k] \in Urbs
  OBVIOUS
<1>2. IndicesOf(t, queue) \subseteq Indices
  BY <1>1 DEF IndicesOf, Urbs
<1>3. IsFiniteSet(1..NumUrbs)
  BY FS_Interval, TransfersAssumption
<1> QED BY <1>2, <1>3, FS_Subset, FS_CardinalityType DEF Indices

\* The URBs that come back from discard_urbs.
LEMMA DiscardedUrbs ==
  ASSUME NEW t \in Transfers, NEW n \in 0..NumUrbs, NEW k \in 0..n
  PROVE  Discarded(t, n, k) \in Seq(Urbs) /\ Len(Discarded(t, n, k)) = k
<1>1. /\ k \in Nat /\ n \in Nat /\ NumUrbs \in Nat
      /\ \A j \in 1..k : n + 1 - j \in Indices
  BY TransfersAssumption DEF Indices
<1>2. \A j \in 1..k : Urb(t, n + 1 - j) \in Urbs
  BY <1>1 DEF Urb, Urbs
<1>3. Discarded(t, n, k) \in [1..k -> Urbs]
  BY <1>2 DEF Discarded
<1>4. Discarded(t, n, k) \in Seq(Urbs) /\ Len(Discarded(t, n, k)) = k
  BY <1>1, <1>3
<1> QED BY <1>4

LEMMA DiscardedInOrder ==
  ASSUME NEW t, NEW n, NEW k, NEW j \in 1..k
  PROVE  Discarded(t, n, k)[j].transfer = t /\ Discarded(t, n, k)[j].index = n + 1 - j
<1>1. Discarded(t, n, k)[j] = Urb(t, n + 1 - j)
  BY DEF Discarded
<1> QED BY <1>1 DEF Urb

LEMMA DiscardedIndices ==
  ASSUME NEW t \in Transfers, NEW n \in 0..NumUrbs, NEW k \in 0..n
  PROVE  /\ IndicesOf(t, Discarded(t, n, k)) = n - k + 1..n
         /\ \A s \in Transfers \ {t} : IndicesOf(s, Discarded(t, n, k)) = {}
<1> DEFINE back == Discarded(t, n, k)
<1>1. k \in Nat /\ n \in Nat
  BY TransfersAssumption
<1>2. DOMAIN back = 1..k /\ \A j \in 1..k : back[j] = Urb(t, n + 1 - j)
  BY DEF Discarded
<1>3. \A j \in 1..k : back[j].transfer = t /\ back[j].index = n + 1 - j
  BY <1>2 DEF Urb
<1>4. IndicesOf(t, back) = {n + 1 - j : j \in 1..k}
  BY <1>2, <1>3 DEF IndicesOf
<1>5. {n + 1 - j : j \in 1..k} = n - k + 1..n
  <2>1. \A i \in n - k + 1..n : n + 1 - i \in 1..k /\ n + 1 - (n + 1 - i) = i
    BY <1>1
  <2>2. \A j \in 1..k : n + 1 - j \in n - k + 1..n
    BY <1>1
  <2> QED BY <2>1, <2>2
<1>6. \A s \in Transfers \ {t} : IndicesOf(s, back) = {}
  BY <1>2, <1>3 DEF IndicesOf
<1> QED BY <1>4, <1>5, <1>6

\* Counting what is added.
LEMMA CountOne ==
  ASSUME NEW S, IsFiniteSet(S), NEW i, i \notin S
  PROVE  Cardinality(S \cup {i}) = Cardinality(S) + 1
  BY FS_AddElement

LEMMA CountRange ==
  ASSUME NEW S, IsFiniteSet(S), NEW n \in Nat, NEW k \in 0..n,
         \A i \in S : ~(n - k + 1 <= i /\ i <= n)
  PROVE  Cardinality(S \cup (n - k + 1..n)) = Cardinality(S) + k
<1> DEFINE R == n - k + 1..n
<1>1. IsFiniteSet(R) /\ Cardinality(R) = k
  <2>1. n - k + 1 \in Int /\ n \in Int
    OBVIOUS
  <2>2. (IF n - k + 1 > n THEN 0 ELSE n - (n - k + 1) + 1) = k
    OBVIOUS
  <2> QED BY <2>1, <2>2, FS_Interval
<1>2. S \cap R = {}
  OBVIOUS
<1>3. Cardinality(S) \in Nat /\ Cardinality({}) = 0
  BY FS_CardinalityType, FS_EmptySet
<1> HIDE DEF R
<1>4. Cardinality(S \cup R) = Cardinality(S) + Cardinality(R) - Cardinality(S \cap R)
  BY <1>1, FS_Union
<1>5. Cardinality(S \cap R) = 0
  BY <1>2, <1>3
<1>6. k \in Nat
  OBVIOUS
<1>7. Cardinality(S \cup R) = Cardinality(S) + k
  BY <1>1, <1>3, <1>4, <1>5, <1>6
<1> QED BY <1>7 DEF R

LEMMA EventCases ==
  ASSUME UsbTypeOK
  PROVE  /\ event.step \in {"poll", "reaped", "cancelled", "complete", "call", "called"}
         /\ event.step = "reaped" => event.urb \in Urbs
         /\ event.step \in {"cancelled", "complete", "call", "called"} =>
              event.transfer \in Transfers
         /\ event.step \in {"complete", "call", "called"} => event.status \in Statuses
         /\ event = Polling => event.step = "poll"
  BY DEF UsbTypeOK, Polling

-----------------------------------------------------------------------------
\* A step that touches no URB.
LEMMA OtherUrbsStep ==
  ASSUME UsbIInv,
         UNCHANGED <<num_retired, reap_action, urbs, pending, reapable, polled>>,
         \/ event' = event
         \/ event.step # "reaped" /\ event'.step # "reaped"
  PROVE  UrbsAlive' /\ UrbsInOrder' /\ UrbsCounted'
<1>1. UrbsAlive /\ UrbsInOrder /\ UrbsCounted
  BY DEF UsbIInv, UrbsInv
<1>2. \A t : IndicesOf(t, reapable)' = IndicesOf(t, reapable)
  BY DEF IndicesOf
<1>3. \A t : Reaping(t)' = Reaping(t)
  BY DEF Reaping
<1>4. UrbsAlive'
  BY <1>1 DEF UrbsAlive
<1>5. UrbsInOrder'
  BY <1>1, <1>2 DEF UrbsInOrder
<1>6. UrbsCounted'
  BY <1>1, <1>2, <1>3 DEF UrbsCounted
<1> QED BY <1>4, <1>5, <1>6

\* A transfer that is not flying has no URB left, as long as the device is there.
LEMMA NotFlying ==
  ASSUME UsbIInv, NEW t \in Transfers, t \notin flying_transfers, polled
  PROVE  /\ t \notin urbs /\ pending[t] = 0
         /\ \A k \in DOMAIN reapable : reapable[k].transfer # t
         /\ IndicesOf(t, reapable) = {}
         /\ ~Reaping(t)
<1>1. t \notin urbs
  BY DEF UsbIInv, UrbsInv, FlyingHaveUrbs
<1>2. pending[t] \in Nat /\ (pending[t] > 0 => t \in urbs)
  BY TransfersAssumption DEF UsbIInv, UrbsInv, UrbsAlive, UsbTypeOK
<1>3. \A k \in DOMAIN reapable : reapable[k].transfer # t
  BY <1>1 DEF UsbIInv, UrbsInv, UrbsAlive
<1>4. IndicesOf(t, reapable) = {}
  BY <1>3 DEF IndicesOf
<1>5. ~Reaping(t)
  BY <1>1 DEF UsbIInv, UrbsInv, UrbsAlive, Reaping
<1> QED BY <1>1, <1>2, <1>3, <1>4, <1>5

LEMMA SubmitStep ==
  ASSUME UsbIInv, NEW t \in Transfers, libusb_submit_transfer(t),
         event' = event \/ (event.step = "called" /\ event' = Polling)
  PROVE  UsbIInv'
<1> USE TransfersAssumption
<1>a. /\ UsbTypeOK /\ UrbsAlive /\ FlyingHaveUrbs
      /\ UrbsInOrder /\ UrbsCounted /\ EventTransfer /\ StatusesFit
  BY DEF UsbIInv, UrbsInv
<1>b. /\ t \notin flying_transfers /\ t \notin Submitted
      /\ UNCHANGED <<expiring, plugged, polled, asked, accepted, expired>>
      /\ expiring = NULL
  BY DEF libusb_submit_transfer, Submitted, device, history
<1>c. plugged => polled
  BY <1>a DEF EventTransfer
<1>d. /\ num_retired' \in [Transfers -> 0..NumUrbs]
      /\ \A u \in Transfers \ {t} : num_retired'[u] = num_retired[u]
      /\ reap_action' \in [Transfers -> Actions]
      /\ \A u \in Transfers \ {t} : reap_action'[u] = reap_action[u]
      /\ TIMED_OUT' = TIMED_OUT \ {t}
      /\ reap_action'[t] \in {"NORMAL", "SUBMIT_FAILED"}
  <2>1. CASE Submit(t)
    BY <1>a, <2>1 DEF Submit, UsbTypeOK, Actions
  <2>2. CASE SubmitFailedLater(t)
    <3>1. PICK n \in 1..NumUrbs - 1 :
            /\ num_retired' = [num_retired EXCEPT ![t] = NumUrbs - n]
            /\ reap_action' = [reap_action EXCEPT ![t] = "SUBMIT_FAILED"]
            /\ TIMED_OUT' = TIMED_OUT \ {t}
      BY <2>2 DEF SubmitFailedLater
    <3>2. NumUrbs - n \in 0..NumUrbs
      OBVIOUS
    <3> QED BY <1>a, <3>1, <3>2 DEF UsbTypeOK, Actions
  <2>3. CASE SubmitFailed(t)
    BY <1>a, <2>3 DEF SubmitFailed, UsbTypeOK, Actions
  <2> QED BY <2>1, <2>2, <2>3 DEF libusb_submit_transfer
<1>e. \/ /\ UNCHANGED <<flying_transfers, urbs>>
      \/ flying_transfers' = flying_transfers \cup {t} /\ urbs' = urbs \cup {t}
  BY DEF libusb_submit_transfer, Submit, SubmitFailedLater, SubmitFailed
<1>f. /\ pending' \in [Transfers -> 0..NumUrbs] /\ reapable' \in Seq(Urbs)
      /\ \A u \in Transfers \ {t} : pending'[u] = pending[u]
  <2>1. CASE Submit(t)
    BY <1>a, <2>1 DEF Submit, UsbTypeOK
  <2>2. CASE SubmitFailedLater(t)
    <3>1. PICK n \in 1..NumUrbs - 1 : reapable' = reapable \o Discarded(t, n, n) /\ UNCHANGED pending
      BY <2>2 DEF SubmitFailedLater
    <3>2. Discarded(t, n, n) \in Seq(Urbs)
      BY DiscardedUrbs
    <3> QED BY <1>a, <3>1, <3>2 DEF UsbTypeOK
  <2>3. CASE SubmitFailed(t)
    BY <1>a, <2>3 DEF SubmitFailed, kernel, UsbTypeOK
  <2> QED BY <2>1, <2>2, <2>3 DEF libusb_submit_transfer
<1>1. UsbTypeOK'
  <2>1. event' = Polling \/ event' \in [step : {"reaped"}, urb : Urbs]
          \/ event' \in [step : {"cancelled"}, transfer : Transfers]
          \/ event' \in [step : {"complete", "call", "called"}, transfer : Transfers, status : Statuses]
    BY <1>a DEF UsbTypeOK
  <2> QED BY <1>a, <1>b, <1>d, <1>e, <1>f, <2>1 DEF UsbTypeOK
<1>g. /\ event'.step \in {"reaped", "cancelled", "complete", "call"} => event' = event
      /\ event.step \in {"reaped", "cancelled", "complete", "call"} => event' = event
      /\ event'.step = "called" => event' = event
  BY DEF Polling
<1>2. UrbsAlive' /\ UrbsInOrder' /\ UrbsCounted'
  <2>1. CASE ~polled
    BY <1>b, <2>1 DEF UrbsAlive, UrbsInOrder, UrbsCounted
  <2> SUFFICES ASSUME polled PROVE UrbsAlive' /\ UrbsInOrder' /\ UrbsCounted'
    BY <2>1
  <2>2. /\ t \notin urbs /\ pending[t] = 0
        /\ \A k \in DOMAIN reapable : reapable[k].transfer # t
        /\ IndicesOf(t, reapable) = {}
        /\ ~Reaping(t) /\ \A u : Reaping(u)' = Reaping(u)
    BY <1>b, <1>g, NotFlying DEF Reaping
  <2>3. event.step = "reaped" =>
          /\ event.urb \in Urbs /\ event.urb.transfer \in Transfers \ {t}
    BY <1>a, <2>2, EventCases DEF Reaping, Urbs
  <2>4. Cardinality({}) = 0
    BY FS_EmptySet
  <2>r. \A k \in DOMAIN reapable : reapable[k].transfer \in Transfers \ {t}
    <3>1. \A k \in DOMAIN reapable : reapable[k] \in Urbs
      BY <1>a DEF UsbTypeOK
    <3> QED BY <2>2, <3>1 DEF Urbs
  <2>5. CASE Submit(t) \/ SubmitFailed(t)
    <3>0. UNCHANGED reapable
      BY <2>5 DEF Submit, SubmitFailed, kernel
    <3>1. \A u : IndicesOf(u, reapable)' = IndicesOf(u, reapable)
      BY <3>0 DEF IndicesOf
    <3>2. UrbsAlive'
      <4>1. \A u \in Transfers : pending'[u] > 0 => u \in urbs'
        <5>1. pending'[t] > 0 => t \in urbs'
          BY <2>2, <2>5 DEF Submit, SubmitFailed, kernel
        <5> QED BY <1>a, <1>e, <1>f, <5>1 DEF UrbsAlive
      <4> QED BY <1>a, <1>e, <1>g, <3>0, <4>1 DEF UrbsAlive
    <3>3. UrbsInOrder'
      <4>1. \A k \in DOMAIN reapable : pending'[reapable[k].transfer] = pending[reapable[k].transfer]
                                       /\ reap_action'[reapable[k].transfer] = reap_action[reapable[k].transfer]
        BY <1>d, <1>f, <2>r
      <4>2. event.step = "reaped" => pending'[event.urb.transfer] = pending[event.urb.transfer]
                                       /\ reap_action'[event.urb.transfer] = reap_action[event.urb.transfer]
        BY <1>d, <1>f, <2>3
      <4> QED BY <1>a, <1>g, <3>0, <3>1, <4>1, <4>2 DEF UrbsInOrder
    <3>4. UrbsCounted'
      <4> SUFFICES ASSUME NEW u \in urbs'
                   PROVE  num_retired'[u] + pending'[u] + Cardinality(IndicesOf(u, reapable))
                            + (IF Reaping(u) THEN 1 ELSE 0) = NumUrbs
        BY <2>2, <3>1 DEF UrbsCounted
      <4>1. CASE u = t
        <5>1. Submit(t)
          BY <2>2, <2>5, <4>1 DEF SubmitFailed
        <5>2. num_retired'[t] = 0 /\ pending'[t] = NumUrbs
          BY <1>a, <5>1 DEF Submit, UsbTypeOK
        <5>3. Cardinality(IndicesOf(u, reapable)) = 0
          BY <2>2, <2>4, <4>1
        <5>4. (IF Reaping(u) THEN 1 ELSE 0) = 0
          BY <2>2, <4>1
        <5> QED BY <4>1, <5>2, <5>3, <5>4
      <4>2. CASE u # t
        BY <1>a, <1>d, <1>e, <1>f, <4>2 DEF UrbsCounted, UsbTypeOK
      <4> QED BY <4>1, <4>2
    <3> QED BY <3>2, <3>3, <3>4
  <2>6. CASE SubmitFailedLater(t)
    <3>1. PICK n \in 1..NumUrbs - 1 : 
             /\ reapable' = reapable \o Discarded(t, n, n) /\ UNCHANGED pending
             /\ num_retired' = [num_retired EXCEPT ![t] = NumUrbs - n]
             /\ urbs' = urbs \cup {t}
             /\ reap_action' = [reap_action EXCEPT ![t] = "SUBMIT_FAILED"]
      BY <2>6 DEF SubmitFailedLater
    <3> DEFINE back == Discarded(t, n, n)
    <3>2. back \in Seq(Urbs) /\ Len(back) = n
      <4>1. n \in 0..NumUrbs /\ n \in 0..n
        OBVIOUS
      <4> QED BY <4>1, DiscardedUrbs
    <3>e. \A j \in 1..n : back[j].transfer = t /\ back[j].index = n + 1 - j
      BY DiscardedInOrder
    <3>i. /\ IndicesOf(t, back) = n - n + 1..n
          /\ \A s \in Transfers \ {t} : IndicesOf(s, back) = {}
      <4>1. n \in 0..NumUrbs /\ n \in 0..n
        OBVIOUS
      <4> QED BY <4>1, DiscardedIndices
    <3>3. /\ n \in Nat \ {0} /\ n < NumUrbs /\ reapable \in Seq(Urbs)
      BY <1>a DEF UsbTypeOK
    <3> HIDE DEF back
    <3>5. reapable' = reapable \o back
      BY <3>1 DEF back
    <3>6. /\ DOMAIN reapable' = 1..Len(reapable) + n /\ DOMAIN reapable = 1..Len(reapable)
          /\ Len(reapable) \in Nat
          /\ \A k \in 1..Len(reapable) : reapable'[k] = reapable[k]
          /\ \A k \in DOMAIN reapable' : k > Len(reapable) =>
               /\ k - Len(reapable) \in 1..n /\ reapable'[k] = back[k - Len(reapable)]
      <4>1. /\ DOMAIN reapable' = 1..Len(reapable) + Len(back)
            /\ DOMAIN reapable = 1..Len(reapable) /\ DOMAIN back = 1..Len(back)
            /\ Len(reapable) \in Nat
            /\ \A k \in DOMAIN reapable : reapable'[k] = reapable[k]
            /\ \A k \in DOMAIN reapable' :
                 \/ k \in DOMAIN reapable
                 \/ /\ k > Len(reapable)
                    /\ k - Len(reapable) \in DOMAIN back
                    /\ reapable'[k] = back[k - Len(reapable)]
        <5>1. reapable \in Seq(Urbs) /\ back \in Seq(Urbs)
          BY <3>2, <3>3
        <5> QED BY <3>5, <5>1, ConcatUrbs
      <4> QED BY <3>2, <3>3, <4>1
    <3>7. \A k \in DOMAIN reapable' : k > Len(reapable) =>
            reapable'[k].transfer = t /\ reapable'[k].index = n + 1 - (k - Len(reapable))
      BY <3>e, <3>6
    <3>8. \A u : IndicesOf(u, reapable)' = IndicesOf(u, reapable) \cup IndicesOf(u, back)
      BY <3>2, <3>3, <3>5, IndicesConcat
    <3>9. UrbsAlive'
      <4>1. \A k \in DOMAIN reapable' : reapable'[k].transfer \in urbs'
        <5> SUFFICES ASSUME NEW k \in DOMAIN reapable' PROVE reapable'[k].transfer \in urbs'
          OBVIOUS
        <5>1. CASE k > Len(reapable)
          BY <3>1, <3>7, <5>1
        <5>2. CASE k <= Len(reapable)
          BY <1>a, <3>1, <3>6, <5>2 DEF UrbsAlive
        <5> QED BY <3>6, <5>1, <5>2
      <4> QED BY <1>a, <1>g, <3>1, <4>1 DEF UrbsAlive
    <3>10. UrbsInOrder'
      <4>1. \A k \in DOMAIN reapable : pending'[reapable[k].transfer] = pending[reapable[k].transfer]
                                       /\ reap_action'[reapable[k].transfer] = reap_action[reapable[k].transfer]
        BY <1>d, <1>f, <2>r
      <4>2. event.step = "reaped" => pending'[event.urb.transfer] = pending[event.urb.transfer]
                                       /\ reap_action'[event.urb.transfer] = reap_action[event.urb.transfer]
                                       /\ IndicesOf(event.urb.transfer, reapable)' = IndicesOf(event.urb.transfer, reapable)
        <5> SUFFICES ASSUME event.step = "reaped", NEW u, u = event.urb.transfer
                     PROVE  /\ pending'[u] = pending[u] /\ reap_action'[u] = reap_action[u]
                            /\ IndicesOf(u, reapable)' = IndicesOf(u, reapable)
          OBVIOUS
        <5>1. u \in Transfers \ {t}
          BY <2>3
        <5>2. IndicesOf(u, reapable)' = IndicesOf(u, reapable)
          BY <3>i, <3>8, <5>1
        <5> QED BY <1>d, <1>f, <5>1, <5>2
      <4>3. ASSUME NEW j \in DOMAIN reapable', NEW k \in DOMAIN reapable', j < k,
                   reapable'[j].transfer = reapable'[k].transfer
            PROVE  /\ reapable'[j].index # reapable'[k].index
                   /\ reap_action'[reapable'[j].transfer] = "NORMAL" =>
                        reapable'[j].index < reapable'[k].index
        <5>1. CASE k <= Len(reapable)
          <6>1. /\ j \in DOMAIN reapable /\ k \in DOMAIN reapable
                /\ reapable'[j] = reapable[j] /\ reapable'[k] = reapable[k]
            BY <3>6, <4>3, <5>1
          <6> QED BY <1>a, <4>1, <4>3, <6>1 DEF UrbsInOrder
        <5>2. CASE k > Len(reapable)
          <6>1. reapable'[k].transfer = t /\ reapable'[j].transfer = t
            BY <3>7, <4>3, <5>2
          <6>2. j > Len(reapable)
            BY <2>2, <3>6, <6>1
          <6>3. reapable'[j].index # reapable'[k].index
            BY <3>3, <3>6, <3>7, <4>3, <5>2, <6>2
          <6> QED BY <1>a, <3>1, <6>1, <6>3 DEF UsbTypeOK
        <5> QED BY <3>6, <5>1, <5>2
      <4>4. ASSUME NEW k \in DOMAIN reapable'
            PROVE  reapable'[k].index + pending'[reapable'[k].transfer] <= NumUrbs
        <5>1. CASE k <= Len(reapable)
          <6>1. k \in DOMAIN reapable /\ reapable'[k] = reapable[k]
            BY <3>6, <5>1
          <6> QED BY <1>a, <4>1, <6>1 DEF UrbsInOrder
        <5>2. CASE k > Len(reapable)
          <6>1. reapable'[k].transfer = t /\ reapable'[k].index = n + 1 - (k - Len(reapable))
            BY <3>7, <5>2
          <6> QED BY <2>2, <3>1, <3>3, <3>6, <5>2, <6>1
        <5> QED BY <3>6, <5>1, <5>2
      <4> QED BY <1>a, <1>g, <4>2, <4>3, <4>4 DEF UrbsInOrder
    <3>11. UrbsCounted'
      <4> SUFFICES ASSUME NEW u \in urbs'
                   PROVE  num_retired'[u] + pending'[u] + Cardinality(IndicesOf(u, reapable)')
                            + (IF Reaping(u) THEN 1 ELSE 0) = NumUrbs
        BY <2>2 DEF UrbsCounted
      <4>1. CASE u = t
        <5>1. Cardinality(IndicesOf(t, reapable)') = n
          <6>1. IndicesOf(t, reapable)' = {} \cup (n - n + 1..n)
            BY <2>2, <3>i, <3>8
          <6>2. Cardinality({} \cup (n - n + 1..n)) = Cardinality({}) + n
            BY <3>3, CountRange, FS_EmptySet
          <6> QED BY <2>4, <3>3, <6>1, <6>2
        <5> QED BY <1>a, <2>2, <3>1, <3>3, <4>1, <5>1 DEF UsbTypeOK
      <4>2. CASE u # t
        <5>1. u \in urbs /\ u \in Transfers \ {t}
          BY <1>a, <3>1, <4>2 DEF UsbTypeOK
        <5>2. IndicesOf(u, reapable)' = IndicesOf(u, reapable)
          BY <3>i, <3>8, <5>1
        <5> QED BY <1>a, <1>d, <1>f, <5>1, <5>2 DEF UrbsCounted
      <4> QED BY <4>1, <4>2
    <3> QED BY <3>9, <3>10, <3>11
  <2> QED BY <2>5, <2>6 DEF libusb_submit_transfer, Submit, SubmitFailed, kernel
<1>3. FlyingHaveUrbs'
  BY <1>a, <1>b, <1>e, <1>g DEF FlyingHaveUrbs
<1>4. EventTransfer'
  BY <1>a, <1>b, <1>e, <1>g, TransfersAssumption DEF EventTransfer, Submitted
<1>5. StatusesFit'
  <2>1. Submitted' \subseteq Submitted \cup {t} /\ Submitted \subseteq Submitted'
    BY <1>e, <1>g DEF Submitted
  <2>2. \A u : EndedEarly(u)' <=> (u \in asked \/ u \in TIMED_OUT \ {t})
    BY <1>b, <1>d DEF EndedEarly
  <2>3. t \notin accepted
    BY <1>a, <1>b DEF StatusesFit
  <2>4. event.step = "cancelled" => event.transfer # t
    BY <1>a, <1>b DEF EventTransfer
  <2>5. \A u : Ending(u)' = Ending(u)
    BY <1>g DEF Ending
  <2>6. ASSUME NEW u \in flying_transfers', reap_action'[u] = "CANCELLED" PROVE EndedEarly(u)'
    <3>1. u # t
      BY <1>d, <2>6
    <3>2. u \in flying_transfers /\ u \in Transfers
      BY <1>a, <1>e, <2>6, <3>1 DEF UsbTypeOK
    <3> QED BY <1>a, <1>d, <2>2, <2>6, <3>1, <3>2 DEF StatusesFit, EndedEarly
  <2>7. \A u \in accepted' : reap_action'[u] = "CANCELLED"
    BY <1>a, <1>b, <1>d, <2>3 DEF StatusesFit, UsbTypeOK
  <2>8. TIMED_OUT' \cap Submitted' \subseteq expired'
    BY <1>a, <1>b, <1>d, <2>1 DEF StatusesFit
  <2>9. event'.step = "cancelled" => EndedEarly(event.transfer)' /\ event' = event
    BY <1>a, <1>g, <2>2, <2>4 DEF StatusesFit, EndedEarly
  <2>10. \A u \in Transfers : Ending(u)' => Calls!Fits(u, event.status)'
    BY <1>a, <1>b, <1>g, <2>5 DEF StatusesFit, Calls!Fits, Ending
  <2> QED BY <1>a, <1>b, <2>1, <2>6, <2>7, <2>8, <2>9, <2>10 DEF StatusesFit
<1> QED BY <1>1, <1>2, <1>3, <1>4, <1>5 DEF UsbIInv, UrbsInv

\* The URBs of a transfer that came back are those before the ones in the kernel.
LEMMA IndicesBelow ==
  ASSUME UsbIInv, polled, NEW t, NEW i \in IndicesOf(t, reapable)
  PROVE  i \in Nat /\ i + pending[t] <= NumUrbs
<1>1. PICK k \in DOMAIN reapable : reapable[k].transfer = t /\ i = reapable[k].index
  BY DEF IndicesOf
<1>2. reapable[k] \in Urbs
  BY DEF UsbIInv, UrbsInv, UsbTypeOK
<1>3. i \in Nat
  BY <1>1, <1>2, TransfersAssumption DEF Urbs, Indices
<1> QED BY <1>1, <1>3 DEF UsbIInv, UrbsInOrder

LEMMA CancelUrbs ==
  ASSUME UsbIInv, NEW t \in Transfers, op_cancel_transfer(t),
         UNCHANGED <<urbs, num_retired, event, polled>>
  PROVE  /\ reap_action' \in [Transfers -> Actions] /\ pending' \in [Transfers -> 0..NumUrbs]
         /\ reapable' \in Seq(Urbs)
         /\ reap_action'[t] = "CANCELLED"
         /\ \A u \in Transfers \ {t} : reap_action'[u] = reap_action[u]
         /\ UrbsAlive' /\ UrbsInOrder' /\ UrbsCounted'
<1> USE TransfersAssumption
<1>a. UsbTypeOK /\ UrbsAlive /\ UrbsInOrder /\ UrbsCounted
  BY DEF UsbIInv, UrbsInv
<1>1. /\ reap_action' \in [Transfers -> Actions]
      /\ reap_action'[t] = "CANCELLED"
      /\ \A u \in Transfers \ {t} : reap_action'[u] = reap_action[u]
      /\ \A u \in Transfers : reap_action'[u] = "NORMAL" => reap_action[u] = "NORMAL" /\ u # t
  BY <1>a DEF op_cancel_transfer, UsbTypeOK, Actions
<1>u. \A k \in DOMAIN reapable : reapable[k].transfer \in Transfers
  <2>1. \A k \in DOMAIN reapable : reapable[k] \in Urbs
    BY <1>a DEF UsbTypeOK
  <2> QED BY <2>1 DEF Urbs
<1>v. event.step = "reaped" => event.urb.transfer \in Transfers /\ event.urb.index \in Nat
  BY <1>a, EventCases DEF Urbs, Indices
<1>2. CASE t \notin urbs
  <2>1. UNCHANGED <<pending, reapable>>
    BY <1>2 DEF op_cancel_transfer, DiscardAll, kernel
  <2>2. \A u : IndicesOf(u, reapable)' = IndicesOf(u, reapable)
    BY <2>1 DEF IndicesOf
  <2>3. UrbsAlive'
    BY <1>a, <2>1 DEF UrbsAlive
  <2>4. UrbsInOrder'
    BY <1>a, <1>1, <1>u, <1>v, <2>1, <2>2 DEF UrbsInOrder
  <2>5. UrbsCounted'
    BY <1>a, <2>1, <2>2 DEF UrbsCounted, Reaping
  <2> QED BY <1>a, <1>1, <2>1, <2>3, <2>4, <2>5 DEF UsbTypeOK
<1>3. CASE t \in urbs
  <2>0. PICK n \in 0..NumUrbs : n = pending[t]
    BY <1>a DEF UsbTypeOK
  <2> DEFINE back == Discarded(t, NumUrbs, n)
  <2>1. n = pending[t] /\ n \in 0..NumUrbs /\ n \in Nat /\ NumUrbs \in Nat /\ NumUrbs \in 0..NumUrbs
    BY <2>0
  <2>2. back \in Seq(Urbs) /\ Len(back) = n
    BY <2>1, DiscardedUrbs
  <2>e. \A j \in 1..n : back[j].transfer = t /\ back[j].index = NumUrbs + 1 - j
    BY DiscardedInOrder
  <2>i. /\ IndicesOf(t, back) = NumUrbs - n + 1..NumUrbs
        /\ \A s \in Transfers \ {t} : IndicesOf(s, back) = {}
    BY <2>1, DiscardedIndices
  <2>3. /\ reapable' = reapable \o back
        /\ pending' = [pending EXCEPT ![t] = 0]
    BY <1>3, <2>1 DEF op_cancel_transfer, DiscardAll
  <2> HIDE DEF back
  <2>4. reapable \in Seq(Urbs) /\ reapable' \in Seq(Urbs)
    BY <1>a, <2>2, <2>3 DEF UsbTypeOK
  <2>5. /\ pending' \in [Transfers -> 0..NumUrbs] /\ pending'[t] = 0
        /\ \A u \in Transfers \ {t} : pending'[u] = pending[u]
    BY <1>a, <2>1, <2>3 DEF UsbTypeOK
  <2>6. CASE ~polled
    BY <1>1, <2>4, <2>5, <2>6 DEF UrbsAlive, UrbsInOrder, UrbsCounted
  <2>7. CASE polled
    <3>2. /\ DOMAIN reapable' = 1..Len(reapable) + Len(back)
          /\ DOMAIN reapable = 1..Len(reapable) /\ DOMAIN back = 1..Len(back)
          /\ Len(reapable) \in Nat
          /\ \A k \in DOMAIN reapable : reapable'[k] = reapable[k]
          /\ \A k \in DOMAIN reapable' :
               \/ k \in DOMAIN reapable
               \/ /\ k > Len(reapable)
                  /\ k - Len(reapable) \in DOMAIN back
                  /\ reapable'[k] = back[k - Len(reapable)]
      <4>1. reapable \in Seq(Urbs) /\ back \in Seq(Urbs)
        BY <2>2, <2>4
      <4>2. reapable' = reapable \o back
        BY <2>3
      <4> QED BY <4>1, <4>2, ConcatUrbs
    <3>3. \A k \in DOMAIN reapable' :
            \/ k \in DOMAIN reapable
            \/ /\ k > Len(reapable) /\ k - Len(reapable) \in 1..n
               /\ reapable'[k].transfer = t
               /\ reapable'[k].index = NumUrbs + 1 - (k - Len(reapable))
      BY <2>2, <2>e, <3>2
    <3>4. \A u : IndicesOf(u, reapable)' = IndicesOf(u, reapable) \cup IndicesOf(u, back)
      BY <2>2, <2>3, <2>4, IndicesConcat
    <3>5. \A i \in IndicesOf(t, reapable) : i \in Nat /\ i + n <= NumUrbs
      BY <2>1, <2>7, IndicesBelow
    <3>6. UrbsAlive'
      <4>1. \A k \in DOMAIN reapable' : reapable'[k].transfer \in urbs
        BY <1>a, <1>3, <2>7, <3>2, <3>3 DEF UrbsAlive
      <4>2. \A u \in Transfers : pending'[u] > 0 => u \in urbs
        BY <1>a, <1>3, <2>5, <2>7 DEF UrbsAlive
      <4> QED BY <1>a, <2>7, <4>1, <4>2 DEF UrbsAlive
    <3>7. UrbsInOrder'
      <4>1. ASSUME NEW j \in DOMAIN reapable', NEW k \in DOMAIN reapable', j < k,
                   reapable'[j].transfer = reapable'[k].transfer
            PROVE  /\ reapable'[j].index # reapable'[k].index
                   /\ reap_action'[reapable'[j].transfer] = "NORMAL" =>
                        reapable'[j].index < reapable'[k].index
        <5>1. CASE k \in DOMAIN reapable
          <6>1. /\ j \in DOMAIN reapable
                /\ reapable'[j] = reapable[j] /\ reapable'[k] = reapable[k]
            BY <3>2, <4>1, <5>1
          <6>2. reapable[j].transfer \in Transfers
            BY <1>u, <6>1
          <6> QED BY <1>a, <1>1, <2>7, <4>1, <5>1, <6>1, <6>2 DEF UrbsInOrder
        <5>2. CASE k \notin DOMAIN reapable
          <6>1. /\ reapable'[k].transfer = t /\ reapable'[j].transfer = t
                /\ reapable'[k].index = NumUrbs + 1 - (k - Len(reapable))
                /\ k - Len(reapable) \in 1..n
            BY <3>3, <4>1, <5>2
          <6>2. CASE j \in DOMAIN reapable
            <7>1. reapable'[j].index \in IndicesOf(t, reapable)
              BY <3>2, <6>1, <6>2 DEF IndicesOf
            <7> QED BY <1>1, <2>1, <3>5, <6>1, <7>1
          <6>3. CASE j \notin DOMAIN reapable
            <7>1. /\ reapable'[j].index = NumUrbs + 1 - (j - Len(reapable))
                  /\ j - Len(reapable) \in 1..n
              BY <3>3, <6>3
            <7>2. j - Len(reapable) # k - Len(reapable)
              BY <3>2, <4>1
            <7> QED BY <1>1, <2>1, <6>1, <7>1, <7>2
          <6> QED BY <6>2, <6>3
        <5> QED BY <5>1, <5>2
      <4>2. ASSUME NEW k \in DOMAIN reapable'
            PROVE  reapable'[k].index + pending'[reapable'[k].transfer] <= NumUrbs
        <5>1. CASE k \in DOMAIN reapable
          <6>1. reapable'[k] = reapable[k] /\ reapable[k].transfer \in Transfers
            BY <1>u, <3>2, <5>1
          <6>2. CASE reapable[k].transfer = t
            <7>1. reapable[k].index \in IndicesOf(t, reapable)
              BY <5>1, <6>2 DEF IndicesOf
            <7> QED BY <2>1, <2>5, <3>5, <6>1, <6>2, <7>1
          <6>3. CASE reapable[k].transfer # t
            BY <1>a, <2>5, <2>7, <5>1, <6>1, <6>3 DEF UrbsInOrder
          <6> QED BY <6>2, <6>3
        <5>2. CASE k \notin DOMAIN reapable
          <6>1. /\ reapable'[k].transfer = t
                /\ reapable'[k].index = NumUrbs + 1 - (k - Len(reapable))
                /\ k - Len(reapable) \in 1..n
            BY <3>3, <5>2
          <6> QED BY <2>1, <2>5, <6>1
        <5> QED BY <5>1, <5>2
      <4>3. ASSUME event.step = "reaped", NEW u, u = event.urb.transfer
            PROVE  /\ event.urb.index + pending'[u] <= NumUrbs
                   /\ \A i \in IndicesOf(u, reapable)' :
                        /\ i # event.urb.index
                        /\ reap_action'[u] = "NORMAL" => event.urb.index < i
        <5>1. /\ event.urb.index + pending[u] <= NumUrbs /\ event.urb.index \in Nat
              /\ \A i \in IndicesOf(u, reapable) :
                   i # event.urb.index /\ (reap_action[u] = "NORMAL" => event.urb.index < i)
          BY <1>a, <1>v, <2>7, <4>3 DEF UrbsInOrder
        <5>2. CASE u = t
          <6>1. \A i \in IndicesOf(t, back) : i # event.urb.index
            BY <2>1, <2>i, <5>1, <5>2
          <6> QED BY <1>1, <2>1, <2>5, <3>4, <5>1, <5>2, <6>1
        <5>3. CASE u # t
          <6>1. u \in Transfers \ {t}
            BY <1>v, <4>3, <5>3
          <6>2. IndicesOf(u, reapable)' = IndicesOf(u, reapable)
            BY <2>i, <3>4, <6>1
          <6> QED BY <1>1, <2>5, <5>1, <6>1, <6>2
        <5> QED BY <5>2, <5>3
      <4> QED BY <4>1, <4>2, <4>3 DEF UrbsInOrder
    <3>8. UrbsCounted'
      <4> SUFFICES ASSUME NEW u \in urbs
                   PROVE  num_retired[u] + pending'[u] + Cardinality(IndicesOf(u, reapable)')
                            + (IF Reaping(u) THEN 1 ELSE 0) = NumUrbs
        BY DEF UrbsCounted, Reaping
      <4>1. num_retired[u] + pending[u] + Cardinality(IndicesOf(u, reapable))
              + (IF Reaping(u) THEN 1 ELSE 0) = NumUrbs
        BY <1>a, <2>7 DEF UrbsCounted
      <4>2. u \in Transfers /\ num_retired[u] \in Nat
        BY <1>a DEF UsbTypeOK
      <4>3. /\ IsFiniteSet(IndicesOf(u, reapable))
            /\ Cardinality(IndicesOf(u, reapable)) \in Nat
        BY <2>4, IndicesFinite
      <4>4. CASE u = t
        <5>1. IndicesOf(t, reapable)' = IndicesOf(t, reapable) \cup (NumUrbs - n + 1..NumUrbs)
          BY <2>i, <3>4
        <5>2. \A i \in IndicesOf(t, reapable) : ~(NumUrbs - n + 1 <= i /\ i <= NumUrbs)
          BY <2>1, <3>5
        <5>3. Cardinality(IndicesOf(t, reapable)') = Cardinality(IndicesOf(t, reapable)) + n
          BY <2>1, <4>3, <4>4, <5>1, <5>2, CountRange
        <5>4. (IF Reaping(u) THEN 1 ELSE 0) \in Nat
          OBVIOUS
        <5> QED BY <2>1, <2>5, <4>1, <4>2, <4>3, <4>4, <5>3, <5>4
      <4>5. CASE u # t
        <5>1. IndicesOf(u, reapable)' = IndicesOf(u, reapable) /\ pending'[u] = pending[u]
          BY <2>5, <2>i, <3>4, <4>2, <4>5
        <5> QED BY <4>1, <5>1
      <4> QED BY <4>4, <4>5
    <3> QED BY <1>1, <2>4, <2>5, <3>6, <3>7, <3>8
  <2> QED BY <2>6, <2>7
<1> QED BY <1>2, <1>3

\* An event thread and a list that do not change, for whom it is enough to look at
\* the transfers.
LEMMA SameEvent ==
  ASSUME UsbIInv, UNCHANGED <<flying_transfers, urbs, event, expiring, polled>>,
         plugged' => plugged
  PROVE  FlyingHaveUrbs' /\ EventTransfer' /\ Submitted' = Submitted
  BY DEF UsbIInv, UrbsInv, FlyingHaveUrbs, EventTransfer, Submitted

LEMMA CancelStep ==
  ASSUME UsbIInv, NEW t \in Transfers, libusb_cancel_transfer(t)
  PROVE  UsbIInv'
<1>a. UsbTypeOK /\ FlyingHaveUrbs /\ UrbsAlive /\ EventTransfer /\ StatusesFit
  BY DEF UsbIInv, UrbsInv
<1>b. /\ t \in Submitted /\ op_cancel_transfer(t)
      /\ asked' = asked \cup {t}
      /\ accepted \subseteq accepted' /\ accepted' \subseteq accepted \cup {t}
      /\ t \in accepted' => t \in accepted \/ t \in urbs
      /\ TIMED_OUT' \subseteq TIMED_OUT /\ TIMED_OUT \subseteq TIMED_OUT' \cup {t}
      /\ UNCHANGED <<flying_transfers, urbs, num_retired, event, expiring, plugged, polled, expired>>
  BY DEF libusb_cancel_transfer, device
<1>1. /\ reap_action' \in [Transfers -> Actions] /\ pending' \in [Transfers -> 0..NumUrbs]
      /\ reapable' \in Seq(Urbs)
      /\ reap_action'[t] = "CANCELLED"
      /\ \A u \in Transfers \ {t} : reap_action'[u] = reap_action[u]
      /\ UrbsAlive' /\ UrbsInOrder' /\ UrbsCounted'
  BY <1>b, CancelUrbs
<1>2. UsbTypeOK'
  BY <1>a, <1>b, <1>1 DEF UsbTypeOK
<1>3. FlyingHaveUrbs' /\ EventTransfer' /\ Submitted' = Submitted
  BY <1>b, SameEvent
<1>4. StatusesFit'
  <2>1. \A u : EndedEarly(u) \/ u = t => EndedEarly(u)'
    BY <1>b DEF EndedEarly
  <2>2. \A u \in accepted' : reap_action'[u] = "CANCELLED"
    BY <1>a, <1>b, <1>1 DEF StatusesFit, UsbTypeOK
  <2>3. \A u \in flying_transfers' : reap_action'[u] = "CANCELLED" => EndedEarly(u)'
    BY <1>a, <1>b, <1>1, <2>1 DEF StatusesFit, UsbTypeOK
  <2>4. ASSUME NEW u \in Transfers, Ending(u)' PROVE Calls!Fits(u, event.status)'
    <3>1. Ending(u) /\ Calls!Fits(u, event.status)
      BY <1>a, <1>b, <2>4 DEF Ending, StatusesFit
    <3>2. u \in accepted' => u \in accepted
      BY <1>a, <1>b, <3>1 DEF Ending, EventTransfer, FlyingHaveUrbs
    <3> QED BY <1>b, <3>1, <3>2 DEF Calls!Fits
  <2>5. TIMED_OUT' \cap Submitted' \subseteq expired' /\ accepted' \subseteq Submitted'
    BY <1>a, <1>b, <1>3 DEF StatusesFit
  <2> QED BY <1>a, <1>b, <2>1, <2>2, <2>3, <2>4, <2>5 DEF StatusesFit
<1> QED BY <1>1, <1>2, <1>3, <1>4 DEF UsbIInv, UrbsInv

LEMMA TimeoutCancelsStep ==
  ASSUME UsbIInv, TimeoutCancels
  PROVE  UsbIInv'
<1>a. UsbTypeOK /\ FlyingHaveUrbs /\ EventTransfer /\ StatusesFit
  BY DEF UsbIInv, UrbsInv
<1>b. /\ expiring # NULL /\ op_cancel_transfer(expiring) /\ expiring' = NULL
      /\ UNCHANGED <<flying_transfers, urbs, num_retired, TIMED_OUT, event, plugged, polled,
                     asked, accepted, expired>>
  BY DEF TimeoutCancels, device, history
<1>c. expiring \in Transfers
  BY <1>a, <1>b DEF UsbTypeOK
<1>1. /\ reap_action' \in [Transfers -> Actions] /\ pending' \in [Transfers -> 0..NumUrbs]
      /\ reapable' \in Seq(Urbs)
      /\ reap_action'[expiring] = "CANCELLED"
      /\ \A u \in Transfers \ {expiring} : reap_action'[u] = reap_action[u]
      /\ UrbsAlive' /\ UrbsInOrder' /\ UrbsCounted'
  BY <1>b, <1>c, CancelUrbs
<1>2. UsbTypeOK'
  BY <1>a, <1>b, <1>1 DEF UsbTypeOK
<1>3. FlyingHaveUrbs' /\ EventTransfer' /\ Submitted' = Submitted
  BY <1>a, <1>b DEF FlyingHaveUrbs, EventTransfer, Submitted
<1>4. StatusesFit'
  <2>1. \A u : EndedEarly(u)' <=> EndedEarly(u)
    BY <1>b DEF EndedEarly
  <2>2. \A u \in accepted : reap_action'[u] = "CANCELLED"
    BY <1>a, <1>1 DEF StatusesFit, UsbTypeOK
  <2>3. \A u \in flying_transfers : reap_action'[u] = "CANCELLED" => EndedEarly(u)
    BY <1>a, <1>b, <1>1 DEF StatusesFit, UsbTypeOK
  <2>4. \A u \in Transfers : Ending(u)' => Calls!Fits(u, event.status)'
    BY <1>a, <1>b DEF StatusesFit, Ending, Calls!Fits
  <2> QED BY <1>a, <1>b, <1>3, <2>1, <2>2, <2>3, <2>4 DEF StatusesFit
<1> QED BY <1>1, <1>2, <1>3, <1>4 DEF UsbIInv, UrbsInv

LEMMA HandleTimeoutStep ==
  ASSUME UsbIInv, NEW t \in Transfers, handle_timeout(t)
  PROVE  UsbIInv'
<1>a. UsbTypeOK /\ FlyingHaveUrbs /\ EventTransfer /\ StatusesFit
  BY DEF UsbIInv, UrbsInv
<1>b. /\ t \in flying_transfers /\ expiring' = t
      /\ TIMED_OUT' = TIMED_OUT \cup {t} /\ expired' = expired \cup {t}
      /\ UNCHANGED <<flying_transfers, urbs, num_retired, reap_action, pending, reapable, event,
                     plugged, polled, asked, accepted>>
  BY DEF handle_timeout, tpriv, kernel, device
<1>1. UsbTypeOK'
  BY <1>a, <1>b DEF UsbTypeOK
<1>2. UrbsAlive' /\ UrbsInOrder' /\ UrbsCounted'
  BY <1>b, OtherUrbsStep
<1>3. FlyingHaveUrbs' /\ EventTransfer' /\ Submitted' = Submitted
  BY <1>a, <1>b DEF FlyingHaveUrbs, EventTransfer, Submitted
<1>4. StatusesFit'
  <2>1. \A u : EndedEarly(u) \/ u = t => EndedEarly(u)'
    BY <1>b DEF EndedEarly
  <2>2. \A u \in Transfers : Ending(u)' => Calls!Fits(u, event.status)'
    BY <1>a, <1>b DEF StatusesFit, Ending, Calls!Fits
  <2> QED BY <1>a, <1>b, <1>3, <2>1, <2>2 DEF StatusesFit
<1> QED BY <1>1, <1>2, <1>3, <1>4 DEF UsbIInv, UrbsInv

LEMMA KernelCompletesStep ==
  ASSUME UsbIInv, NEW t \in Transfers, KernelCompletesUrb(t)
  PROVE  UsbIInv'
<1> USE TransfersAssumption
<1>a. /\ UsbTypeOK /\ UrbsAlive /\ FlyingHaveUrbs
      /\ UrbsInOrder /\ UrbsCounted /\ EventTransfer /\ StatusesFit
  BY DEF UsbIInv, UrbsInv
<1>b. /\ UNCHANGED <<flying_transfers, urbs, num_retired, reap_action, TIMED_OUT, event,
                     expiring, plugged, polled, asked, accepted, expired>>
      /\ pending[t] > 0
  BY DEF KernelCompletesUrb, tpriv, device, history
<1>c. /\ pending' \in [Transfers -> 0..NumUrbs] /\ pending'[t] = pending[t] - 1
      /\ \A u \in Transfers \ {t} : pending'[u] = pending[u]
      /\ pending[t] \in 1..NumUrbs
  BY <1>a, <1>b DEF KernelCompletesUrb, UsbTypeOK
<1>d. PICK i \in Indices : i = NumUrbs - pending[t] + 1
  BY <1>c DEF Indices
<1>e. PICK u \in Urbs : /\ reapable' = Append(reapable, u)
                        /\ u.transfer = t /\ u.index = i
  <2>1. PICK s \in StatusesOf(i) : reapable' = Append(reapable, [Urb(t, i) EXCEPT !.status = s])
    BY <1>d DEF KernelCompletesUrb
  <2>2. s \in {"ok", "error", "shutdown"}
    BY <2>1 DEF StatusesOf
  <2> QED BY <1>d, <2>1, <2>2 DEF Urb, Urbs
<1>f. reapable \in Seq(Urbs) /\ reapable' \in Seq(Urbs)
  BY <1>a, <1>e DEF UsbTypeOK
<1>g. /\ DOMAIN reapable' = 1..Len(reapable) + 1 /\ DOMAIN reapable = 1..Len(reapable)
      /\ Len(reapable) \in Nat
      /\ \A k \in DOMAIN reapable : reapable'[k] = reapable[k]
      /\ reapable'[Len(reapable) + 1] = u
      /\ \A k \in DOMAIN reapable' : k \in DOMAIN reapable \/ k = Len(reapable) + 1
  BY <1>e, <1>f
<1>h. \A v : IndicesOf(v, reapable)' =
              IndicesOf(v, reapable) \cup (IF t = v THEN {i} ELSE {})
  BY <1>e, <1>f, IndicesAppend
<1>1. UsbTypeOK'
  BY <1>a, <1>b, <1>c, <1>f DEF UsbTypeOK
<1>2. FlyingHaveUrbs' /\ EventTransfer' /\ Submitted' = Submitted
  BY <1>b, SameEvent
<1>3. StatusesFit'
  BY <1>a, <1>b, <1>2 DEF StatusesFit, EndedEarly, Ending, Calls!Fits
<1>4. CASE ~polled
  BY <1>b, <1>1, <1>2, <1>3, <1>4 DEF UsbIInv, UrbsInv, UrbsAlive, UrbsInOrder, UrbsCounted
<1>5. CASE polled
  <2>1. t \in urbs
    BY <1>a, <1>b, <1>5 DEF UrbsAlive
  <2>2. \A j \in IndicesOf(t, reapable) : j \in Nat /\ j < i
    BY <1>c, <1>d, <1>5, IndicesBelow
  <2>3. UrbsAlive'
    <3>1. \A k \in DOMAIN reapable' : reapable'[k].transfer \in urbs
      BY <1>a, <1>e, <1>g, <1>5, <2>1 DEF UrbsAlive
    <3>2. \A v \in Transfers : pending'[v] > 0 => v \in urbs
      BY <1>a, <1>c, <1>5, <2>1 DEF UrbsAlive
    <3> QED BY <1>a, <1>b, <1>5, <3>1, <3>2 DEF UrbsAlive
  <2>4. UrbsInOrder'
    <3>1. ASSUME NEW j \in DOMAIN reapable', NEW k \in DOMAIN reapable', j < k,
                 reapable'[j].transfer = reapable'[k].transfer
          PROVE  /\ reapable'[j].index # reapable'[k].index
                 /\ reap_action'[reapable'[j].transfer] = "NORMAL" =>
                      reapable'[j].index < reapable'[k].index
      <4>1. j \in DOMAIN reapable /\ reapable'[j] = reapable[j]
        BY <1>g, <3>1
      <4>2. CASE k \in DOMAIN reapable
        <5>1. reapable'[k] = reapable[k]
          BY <1>g, <4>2
        <5> QED BY <1>a, <1>b, <1>5, <3>1, <4>1, <4>2, <5>1 DEF UrbsInOrder
      <4>3. CASE k = Len(reapable) + 1
        <5>1. reapable'[k].transfer = t /\ reapable'[k].index = i
          BY <1>e, <1>g, <4>3
        <5>2. reapable'[j].index \in IndicesOf(t, reapable)
          BY <3>1, <4>1, <5>1 DEF IndicesOf
        <5> QED BY <1>d, <2>2, <5>1, <5>2 DEF Indices
      <4> QED BY <1>g, <4>2, <4>3
    <3>2. ASSUME NEW k \in DOMAIN reapable'
          PROVE  reapable'[k].index + pending'[reapable'[k].transfer] <= NumUrbs
      <4>1. CASE k \in DOMAIN reapable
        <5>1. reapable'[k] = reapable[k] /\ reapable[k] \in Urbs
          BY <1>f, <1>g, <4>1
        <5>2. reapable[k].transfer \in Transfers /\ reapable[k].index \in Nat
          BY <5>1 DEF Urbs, Indices
        <5>3. reapable[k].index + pending[reapable[k].transfer] <= NumUrbs
          BY <1>a, <1>5, <4>1 DEF UrbsInOrder
        <5>4. CASE reapable[k].transfer = t
          BY <1>c, <5>1, <5>2, <5>3, <5>4
        <5>5. CASE reapable[k].transfer # t
          BY <1>c, <5>1, <5>2, <5>3, <5>5
        <5> QED BY <5>4, <5>5
      <4>2. CASE k = Len(reapable) + 1
        <5>1. reapable'[k].transfer = t /\ reapable'[k].index = i
          BY <1>e, <1>g, <4>2
        <5> QED BY <1>c, <1>d, <5>1
      <4> QED BY <1>g, <4>1, <4>2
    <3>3. ASSUME event.step = "reaped", NEW v, v = event.urb.transfer
          PROVE  /\ event.urb.index + pending'[v] <= NumUrbs
                 /\ \A j \in IndicesOf(v, reapable)' :
                      /\ j # event.urb.index
                      /\ reap_action'[v] = "NORMAL" => event.urb.index < j
      <4>1. v \in Transfers /\ event.urb.index \in Nat
        BY <1>a, <3>3, EventCases DEF Urbs, Indices
      <4>2. /\ event.urb.index + pending[v] <= NumUrbs
            /\ \A j \in IndicesOf(v, reapable) :
                 j # event.urb.index /\ (reap_action[v] = "NORMAL" => event.urb.index < j)
        BY <1>a, <1>5, <3>3 DEF UrbsInOrder
      <4>3. CASE v = t
        <5>1. event.urb.index < i
          BY <1>c, <1>d, <4>1, <4>2, <4>3
        <5>2. i \in Nat
          BY <1>d DEF Indices
        <5>3. event.urb.index + pending'[v] <= NumUrbs
          BY <1>c, <4>1, <4>2, <4>3
        <5> QED BY <1>b, <1>h, <4>1, <4>2, <4>3, <5>1, <5>2, <5>3
      <4>4. CASE v # t
        BY <1>b, <1>c, <1>h, <4>1, <4>2, <4>4
      <4> QED BY <4>3, <4>4
    <3> QED BY <1>b, <3>1, <3>2, <3>3 DEF UrbsInOrder
  <2>5. UrbsCounted'
    <3> SUFFICES ASSUME NEW v \in urbs
                 PROVE  num_retired[v] + pending'[v] + Cardinality(IndicesOf(v, reapable)')
                          + (IF Reaping(v) THEN 1 ELSE 0) = NumUrbs
      BY <1>b DEF UrbsCounted, Reaping
    <3>1. num_retired[v] + pending[v] + Cardinality(IndicesOf(v, reapable))
            + (IF Reaping(v) THEN 1 ELSE 0) = NumUrbs
      BY <1>a, <1>5 DEF UrbsCounted
    <3>2. v \in Transfers /\ num_retired[v] \in Nat /\ (IF Reaping(v) THEN 1 ELSE 0) \in Nat
      BY <1>a DEF UsbTypeOK
    <3>3. /\ IsFiniteSet(IndicesOf(v, reapable))
          /\ Cardinality(IndicesOf(v, reapable)) \in Nat
      BY <1>f, IndicesFinite
    <3>4. CASE v = t
      <4>1. i \notin IndicesOf(v, reapable)
        BY <1>d, <2>2, <3>4
      <4>2. IndicesOf(v, reapable)' = IndicesOf(v, reapable) \cup {i}
        BY <1>h, <3>4
      <4>3. Cardinality(IndicesOf(v, reapable)') = Cardinality(IndicesOf(v, reapable)) + 1
        BY <3>3, <4>1, <4>2, CountOne
      <4> QED BY <1>c, <3>1, <3>2, <3>3, <3>4, <4>3
    <3>5. CASE v # t
      <4>1. IndicesOf(v, reapable)' = IndicesOf(v, reapable) /\ pending'[v] = pending[v]
        BY <1>c, <1>h, <3>2, <3>5
      <4> QED BY <3>1, <4>1
    <3> QED BY <3>4, <3>5
  <2> QED BY <1>1, <1>2, <1>3, <2>3, <2>4, <2>5 DEF UsbIInv, UrbsInv
<1> QED BY <1>4, <1>5

\* The first URB waiting is reaped.
LEMMA ReapStep ==
  ASSUME UsbIInv, reap_for_handle
  PROVE  UsbIInv'
<1> USE TransfersAssumption
<1>a. /\ UsbTypeOK /\ UrbsAlive /\ FlyingHaveUrbs
      /\ UrbsInOrder /\ UrbsCounted /\ EventTransfer /\ StatusesFit
  BY DEF UsbIInv, UrbsInv
<1>b. /\ UNCHANGED <<flying_transfers, urbs, num_retired, reap_action, TIMED_OUT, pending,
                     expiring, plugged, polled, asked, accepted, expired>>
      /\ event.step = "poll" /\ polled /\ reapable # <<>>
      /\ reapable' = Tail(reapable)
  BY DEF reap_for_handle, tpriv, device, history, Polling
<1>c. reapable \in Seq(Urbs) /\ reapable' \in Seq(Urbs)
  BY <1>a, <1>b DEF UsbTypeOK
<1>d. PICK u \in Urbs : u = Head(reapable) /\ u = reapable[1]
  BY <1>b, <1>c
<1>e. /\ event'.step = "reaped" /\ event'.urb = u
      /\ event' \in [step : {"reaped"}, urb : Urbs]
  BY <1>d DEF reap_for_handle
<1>f. /\ DOMAIN reapable' = 1..Len(reapable) - 1 /\ DOMAIN reapable = 1..Len(reapable)
      /\ Len(reapable) \in Nat \ {0}
      /\ \A k \in DOMAIN reapable' : k + 1 \in DOMAIN reapable /\ reapable'[k] = reapable[k + 1]
  BY <1>b, <1>c
<1>g. \A v : IndicesOf(v, reapable) =
              IndicesOf(v, reapable)' \cup (IF u.transfer = v THEN {u.index} ELSE {})
  BY <1>b, <1>c, <1>d, IndicesTail
<1>1. UsbTypeOK'
  BY <1>a, <1>b, <1>c, <1>e DEF UsbTypeOK
<1>2. FlyingHaveUrbs'
  BY <1>a, <1>b DEF FlyingHaveUrbs
<1>3. EventTransfer'
  BY <1>a, <1>b, <1>e DEF EventTransfer
<1>4. StatusesFit'
  <2>1. Submitted' = Submitted /\ \A v : ~Ending(v)'
    BY <1>b, <1>e DEF Submitted, Ending
  <2> QED BY <1>a, <1>b, <1>e, <2>1 DEF StatusesFit, EndedEarly
<1>5. 1 \in DOMAIN reapable
  BY <1>f
<1>6. UrbsAlive'
  <2>1. u.transfer \in urbs
    BY <1>a, <1>b, <1>d, <1>5 DEF UrbsAlive
  <2>2. \A k \in DOMAIN reapable' : reapable'[k].transfer \in urbs
    BY <1>a, <1>b, <1>f DEF UrbsAlive
  <2> QED BY <1>a, <1>b, <1>e, <2>1, <2>2 DEF UrbsAlive
<1>h. \A j \in IndicesOf(u.transfer, reapable)' :
        j # u.index /\ (reap_action[u.transfer] = "NORMAL" => u.index < j)
  <2> SUFFICES ASSUME NEW j \in IndicesOf(u.transfer, reapable)'
               PROVE  j # u.index /\ (reap_action[u.transfer] = "NORMAL" => u.index < j)
    OBVIOUS
  <2>1. PICK k \in DOMAIN reapable' : reapable'[k].transfer = u.transfer /\ j = reapable'[k].index
    BY DEF IndicesOf
  <2>2. /\ k + 1 \in DOMAIN reapable /\ reapable'[k] = reapable[k + 1] /\ 1 < k + 1
    BY <1>f, <2>1
  <2> QED BY <1>a, <1>b, <1>d, <1>5, <2>1, <2>2 DEF UrbsInOrder
<1>7. UrbsInOrder'
  <2>1. ASSUME NEW j \in DOMAIN reapable', NEW k \in DOMAIN reapable', j < k,
               reapable'[j].transfer = reapable'[k].transfer
        PROVE  /\ reapable'[j].index # reapable'[k].index
               /\ reap_action[reapable'[j].transfer] = "NORMAL" =>
                    reapable'[j].index < reapable'[k].index
    <3>1. /\ j + 1 \in DOMAIN reapable /\ reapable'[j] = reapable[j + 1]
          /\ k + 1 \in DOMAIN reapable /\ reapable'[k] = reapable[k + 1]
          /\ j + 1 < k + 1
      BY <1>f, <2>1
    <3> QED BY <1>a, <1>b, <2>1, <3>1 DEF UrbsInOrder
  <2>2. \A k \in DOMAIN reapable' :
          reapable'[k].index + pending[reapable'[k].transfer] <= NumUrbs
    BY <1>a, <1>b, <1>f DEF UrbsInOrder
  <2>3. u.index + pending[u.transfer] <= NumUrbs
    BY <1>a, <1>b, <1>d, <1>5 DEF UrbsInOrder
  <2> QED BY <1>b, <1>e, <1>h, <2>1, <2>2, <2>3 DEF UrbsInOrder
<1>8. UrbsCounted'
  <2> SUFFICES ASSUME NEW v \in urbs
               PROVE  num_retired[v] + pending[v] + Cardinality(IndicesOf(v, reapable)')
                        + (IF Reaping(v)' THEN 1 ELSE 0) = NumUrbs
    BY <1>b DEF UrbsCounted
  <2>1. num_retired[v] + pending[v] + Cardinality(IndicesOf(v, reapable)) = NumUrbs
    <3>1. ~Reaping(v)
      BY <1>b DEF Reaping
    <3>2. num_retired[v] + pending[v] + Cardinality(IndicesOf(v, reapable)) + 0 = NumUrbs
      BY <1>a, <1>b, <3>1 DEF UrbsCounted
    <3>3. v \in Transfers /\ num_retired[v] \in Nat /\ pending[v] \in Nat
      BY <1>a DEF UsbTypeOK
    <3>4. Cardinality(IndicesOf(v, reapable)) \in Nat
      BY <1>c, IndicesFinite
    <3> QED BY <3>2, <3>3, <3>4
  <2>2. v \in Transfers /\ num_retired[v] \in Nat /\ pending[v] \in Nat
    BY <1>a DEF UsbTypeOK
  <2>3. /\ IsFiniteSet(IndicesOf(v, reapable)')
        /\ Cardinality(IndicesOf(v, reapable)') \in Nat
    BY <1>c, IndicesFinite
  <2>4. CASE u.transfer = v
    <3>1. u.index \notin IndicesOf(v, reapable)'
      BY <1>h, <2>4
    <3>2. IndicesOf(v, reapable) = IndicesOf(v, reapable)' \cup {u.index}
      BY <1>g, <2>4
    <3>3. Cardinality(IndicesOf(v, reapable)) = Cardinality(IndicesOf(v, reapable)') + 1
      BY <2>3, <3>1, <3>2, CountOne
    <3>4. (IF Reaping(v)' THEN 1 ELSE 0) = 1
      BY <1>e, <2>4 DEF Reaping
    <3> QED BY <2>1, <2>2, <2>3, <3>3, <3>4
  <2>5. CASE u.transfer # v
    <3>1. IndicesOf(v, reapable) = IndicesOf(v, reapable)'
      BY <1>g, <2>5
    <3>2. (IF Reaping(v)' THEN 1 ELSE 0) = 0
      BY <1>e, <2>5 DEF Reaping
    <3> QED BY <2>1, <2>2, <2>3, <3>1, <3>2
  <2> QED BY <2>4, <2>5
<1> QED BY <1>1, <1>2, <1>3, <1>4, <1>6, <1>7, <1>8 DEF UsbIInv, UrbsInv

\* The URB that ends a transfer is the last one on its way.
LEMMA LastUrb ==
  ASSUME UsbIInv, event.step = "reaped", NEW t, t = event.urb.transfer,
         IF reap_action[t] = "NORMAL" THEN event.urb.index = NumUrbs
                                      ELSE num_retired[t] + 1 = NumUrbs
  PROVE  pending[t] = 0 /\ \A k \in DOMAIN reapable : reapable[k].transfer # t
<1> USE TransfersAssumption
<1>a. /\ UsbTypeOK /\ UrbsAlive /\ UrbsInOrder /\ UrbsCounted /\ EventTransfer
  BY DEF UsbIInv, UrbsInv
<1>b. polled
  BY <1>a DEF EventTransfer
<1>c. t \in urbs /\ t \in Transfers
  BY <1>a, <1>b DEF UrbsAlive, UsbTypeOK
<1>d. pending[t] \in Nat /\ num_retired[t] \in Nat
  BY <1>a, <1>c DEF UsbTypeOK
<1>1. CASE reap_action[t] = "NORMAL"
  <2>1. pending[t] = 0
    BY <1>a, <1>b, <1>d, <1>1 DEF UrbsInOrder
  <2>2. \A i \in IndicesOf(t, reapable) : i \in Nat /\ i <= NumUrbs /\ NumUrbs < i
    BY <1>a, <1>b, <1>1, <2>1, IndicesBelow DEF UrbsInOrder
  <2>3. IndicesOf(t, reapable) = {}
    BY <2>2
  <2> QED BY <2>1, <2>3 DEF IndicesOf
<1>2. CASE reap_action[t] # "NORMAL"
  <2>1. num_retired[t] + pending[t] + Cardinality(IndicesOf(t, reapable)) + 1 = NumUrbs
    <3>1. Reaping(t)
      BY DEF Reaping
    <3> QED BY <1>a, <1>b, <1>c, <3>1 DEF UrbsCounted
  <2>2. /\ IsFiniteSet(IndicesOf(t, reapable))
        /\ Cardinality(IndicesOf(t, reapable)) \in Nat
    BY <1>a, IndicesFinite DEF UsbTypeOK
  <2>3. pending[t] = 0 /\ Cardinality(IndicesOf(t, reapable)) = 0
    BY <1>d, <1>2, <2>1, <2>2
  <2>4. IndicesOf(t, reapable) = {}
    BY <2>2, <2>3, FS_EmptySet
  <2> QED BY <2>3, <2>4 DEF IndicesOf
<1> QED BY <1>1, <1>2

LEMMA CompletionStep ==
  ASSUME UsbIInv, handle_iso_completion
  PROVE  UsbIInv'
<1> USE TransfersAssumption
<1>a. /\ UsbTypeOK /\ UrbsAlive /\ FlyingHaveUrbs
      /\ UrbsInOrder /\ UrbsCounted /\ EventTransfer /\ StatusesFit
  BY DEF UsbIInv, UrbsInv
<1>b. /\ UNCHANGED <<flying_transfers, reap_action, TIMED_OUT, pending, reapable, expiring,
                     plugged, polled, asked, accepted, expired>>
      /\ event.step = "reaped" /\ polled
  BY <1>a DEF handle_iso_completion, kernel, device, history, EventTransfer
<1>c. PICK t \in urbs : t = event.urb.transfer /\ t \in Transfers /\ t \in flying_transfers
  BY <1>a, <1>b DEF UrbsAlive, UsbTypeOK, FlyingHaveUrbs
<1> DEFINE last == IF reap_action[t] = "NORMAL" THEN event.urb.index = NumUrbs
                                                ELSE num_retired[t] + 1 = NumUrbs
<1>d. /\ num_retired' = [num_retired EXCEPT ![t] = num_retired[t] + 1]
      /\ urbs' = IF last THEN urbs \ {t} ELSE urbs
      /\ ~last => event' = Polling
      /\ last => \/ /\ reap_action[t] = "CANCELLED"
                    /\ event' = [step |-> "cancelled", transfer |-> t]
                 \/ /\ reap_action[t] = "SUBMIT_FAILED"
                    /\ event' = [step |-> "complete", transfer |-> t, status |-> "error"]
                 \/ /\ reap_action[t] = "NORMAL"
                    /\ event' = [step |-> "complete", transfer |-> t,
                                 status |-> StatusOf(event.urb)]
  <2>1. reap_action[t] \in Actions
    BY <1>a, <1>c DEF UsbTypeOK
  <2> QED BY <1>c, <2>1 DEF handle_iso_completion, Actions
<1>e. last => pending[t] = 0 /\ \A k \in DOMAIN reapable : reapable[k].transfer # t
  BY <1>b, <1>c, LastUrb
<1> HIDE DEF last
<1>f. StatusOf(event.urb) \in {"completed", "error", "no_device"}
  <2>1. event.urb \in Urbs
    BY <1>a, <1>b, EventCases
  <2> QED BY <2>1 DEF Urbs, StatusOf
<1>g. num_retired[t] + pending[t] + Cardinality(IndicesOf(t, reapable)) + 1 = NumUrbs
  <2>1. Reaping(t)
    BY <1>b, <1>c DEF Reaping
  <2> QED BY <1>a, <1>b, <1>c, <2>1 DEF UrbsCounted
<1>h. Cardinality(IndicesOf(t, reapable)) \in Nat
  BY <1>a, IndicesFinite DEF UsbTypeOK
<1>i. num_retired[t] \in Nat /\ pending[t] \in Nat /\ num_retired[t] + 1 \in 0..NumUrbs
  <2>1. num_retired[t] \in Nat /\ pending[t] \in Nat
    BY <1>a, <1>c DEF UsbTypeOK
  <2> QED BY <1>g, <1>h, <2>1
<1>j. /\ event'.step \in {"poll", "cancelled", "complete"}
      /\ event'.step # "poll" => last /\ event'.transfer = t
      /\ last => event'.step # "poll"
      /\ event'.step = "cancelled" => reap_action[t] = "CANCELLED"
      /\ event'.step = "complete" =>
           /\ reap_action[t] # "CANCELLED"
           /\ event'.status \in {"completed", "error", "no_device"}
  BY <1>d, <1>f DEF Polling
<1>1. UsbTypeOK'
  <2>1. \/ event' = Polling
        \/ event' \in [step : {"cancelled"}, transfer : Transfers]
        \/ event' \in [step : {"complete", "call", "called"}, transfer : Transfers,
                       status : Statuses]
    BY <1>c, <1>d, <1>f DEF Statuses
  <2>2. num_retired' \in [Transfers -> 0..NumUrbs] /\ urbs' \subseteq Transfers
    BY <1>a, <1>d, <1>i DEF UsbTypeOK
  <2> QED BY <1>a, <1>b, <2>1, <2>2 DEF UsbTypeOK
<1>2. UrbsAlive'
  BY <1>a, <1>b, <1>d, <1>e, <1>i, <1>j DEF UrbsAlive
<1>3. FlyingHaveUrbs'
  BY <1>a, <1>b, <1>c, <1>d, <1>j DEF FlyingHaveUrbs
<1>4. UrbsInOrder'
  BY <1>a, <1>b, <1>j DEF UrbsInOrder
<1>5. UrbsCounted'
  <2> SUFFICES ASSUME NEW v \in urbs'
               PROVE  num_retired'[v] + pending[v] + Cardinality(IndicesOf(v, reapable))
                        + (IF Reaping(v)' THEN 1 ELSE 0) = NumUrbs
    BY <1>b DEF UrbsCounted, IndicesOf
  <2>1. (IF Reaping(v)' THEN 1 ELSE 0) = 0
    BY <1>j DEF Reaping
  <2>2. v \in urbs /\ v \in Transfers
    BY <1>a, <1>d DEF UsbTypeOK
  <2>3. CASE v = t
    <3>1. num_retired'[t] = num_retired[t] + 1
      BY <1>a, <1>c, <1>d DEF UsbTypeOK
    <3> QED BY <1>g, <1>h, <1>i, <2>1, <2>3, <3>1
  <2>4. CASE v # t
    <3>1. num_retired'[v] = num_retired[v] /\ ~Reaping(v)
      BY <1>a, <1>c, <1>d, <2>2, <2>4 DEF UsbTypeOK, Reaping
    <3>2. (IF Reaping(v) THEN 1 ELSE 0) = 0
      BY <3>1
    <3>3. num_retired[v] + pending[v] + Cardinality(IndicesOf(v, reapable))
            + (IF Reaping(v) THEN 1 ELSE 0) = NumUrbs
      BY <1>a, <1>b, <2>2 DEF UrbsCounted
    <3> QED BY <2>1, <3>1, <3>2, <3>3
  <2> QED BY <2>3, <2>4
<1>6. EventTransfer'
  BY <1>a, <1>b, <1>c, <1>d, <1>j DEF EventTransfer
<1>7. StatusesFit'
  <2>1. Submitted' = Submitted
    BY <1>b, <1>c, <1>j DEF Submitted
  <2>2. \A v : EndedEarly(v)' <=> EndedEarly(v)
    BY <1>b DEF EndedEarly
  <2>3. event'.step = "cancelled" => EndedEarly(event'.transfer)
    BY <1>a, <1>c, <1>j DEF StatusesFit
  <2>4. ASSUME NEW v \in Transfers, Ending(v)' PROVE Calls!Fits(v, event.status)'
    <3>1. event'.step = "complete" /\ v = t
      BY <1>j, <2>4 DEF Ending
    <3>2. t \notin accepted
      BY <1>a, <1>j, <3>1 DEF StatusesFit
    <3> QED BY <1>b, <1>j, <3>1, <3>2 DEF Calls!Fits
  <2> QED BY <1>a, <1>b, <2>1, <2>2, <2>3, <2>4 DEF StatusesFit
<1> QED BY <1>1, <1>2, <1>3, <1>4, <1>5, <1>6, <1>7 DEF UsbIInv, UrbsInv

LEMMA CancellationStep ==
  ASSUME UsbIInv, usbi_handle_transfer_cancellation
  PROVE  UsbIInv'
<1>a. UsbTypeOK /\ FlyingHaveUrbs /\ EventTransfer /\ StatusesFit
  BY DEF UsbIInv, UrbsInv
<1>b. /\ UNCHANGED <<flying_transfers, urbs, num_retired, reap_action, TIMED_OUT, pending,
                     reapable, expiring, plugged, polled, asked, accepted, expired>>
      /\ event.step = "cancelled"
  BY DEF usbi_handle_transfer_cancellation, tpriv, kernel, device, history
<1>c. /\ event'.step = "complete" /\ event'.transfer = event.transfer
      /\ event.transfer \in Transfers
      /\ event'.status = IF event.transfer \in TIMED_OUT THEN "timed_out" ELSE "cancelled"
      /\ event' \in [step : {"complete", "call", "called"}, transfer : Transfers,
                     status : Statuses]
  BY <1>a, <1>b, EventCases DEF usbi_handle_transfer_cancellation, Statuses
<1>1. UsbTypeOK'
  BY <1>a, <1>b, <1>c DEF UsbTypeOK
<1>2. UrbsAlive' /\ UrbsInOrder' /\ UrbsCounted'
  BY <1>b, <1>c, OtherUrbsStep
<1>3. FlyingHaveUrbs' /\ EventTransfer'
  BY <1>a, <1>b, <1>c DEF FlyingHaveUrbs, EventTransfer
<1>4. StatusesFit'
  <2>1. Submitted' = Submitted
    BY <1>a, <1>b, <1>c DEF Submitted, EventTransfer
  <2>2. event.transfer \in Submitted
    BY <1>a, <1>b DEF Submitted, EventTransfer
  <2>3. EndedEarly(event.transfer)
    BY <1>a, <1>b DEF StatusesFit
  <2>4. ASSUME NEW v \in Transfers, Ending(v)' PROVE Calls!Fits(v, event.status)'
    <3>1. v = event.transfer
      BY <1>c, <2>4 DEF Ending
    <3> QED BY <1>a, <1>b, <1>c, <2>2, <2>3, <3>1 DEF Calls!Fits, StatusesFit, EndedEarly
  <2> QED BY <1>a, <1>b, <1>c, <2>1, <2>4 DEF StatusesFit, EndedEarly
<1> QED BY <1>1, <1>2, <1>3, <1>4 DEF UsbIInv, UrbsInv

LEMMA UnlistStep ==
  ASSUME UsbIInv, Unlist
  PROVE  UsbIInv'
<1>a. UsbTypeOK /\ FlyingHaveUrbs /\ EventTransfer /\ StatusesFit
  BY DEF UsbIInv, UrbsInv
<1>b. /\ UNCHANGED <<urbs, num_retired, reap_action, TIMED_OUT, pending,
                     reapable, expiring, plugged, polled, asked, accepted, expired>>
      /\ event.step = "complete" /\ expiring = NULL
      /\ flying_transfers' = flying_transfers \ {event.transfer}
      /\ event' = [event EXCEPT !.step = "call"]
  BY DEF Unlist, tpriv, kernel, device, history
<1>c. /\ event'.step = "call" /\ event'.transfer = event.transfer
      /\ event'.status = event.status
      /\ event' \in [step : {"complete", "call", "called"}, transfer : Transfers,
                     status : Statuses]
  <2>1. event \in [step : {"complete", "call", "called"}, transfer : Transfers,
                   status : Statuses]
    BY <1>a, <1>b DEF UsbTypeOK, Polling
  <2> QED BY <1>b, <2>1
<1>1. UsbTypeOK'
  BY <1>a, <1>b, <1>c DEF UsbTypeOK
<1>2. UrbsAlive' /\ UrbsInOrder' /\ UrbsCounted'
  BY <1>b, <1>c, OtherUrbsStep
<1>3. FlyingHaveUrbs' /\ EventTransfer'
  BY <1>a, <1>b, <1>c DEF FlyingHaveUrbs, EventTransfer
<1>4. StatusesFit'
  <2>1. Submitted' = Submitted
    BY <1>a, <1>b, <1>c DEF Submitted, EventTransfer
  <2>2. \A v : Ending(v)' <=> Ending(v)
    BY <1>b, <1>c DEF Ending
  <2> QED BY <1>a, <1>b, <1>c, <2>1, <2>2 DEF StatusesFit, EndedEarly, Calls!Fits
<1> QED BY <1>1, <1>2, <1>3, <1>4 DEF UsbIInv, UrbsInv

LEMMA CallbackStep ==
  ASSUME UsbIInv, callback
  PROVE  UsbIInv'
<1>a. UsbTypeOK /\ FlyingHaveUrbs /\ EventTransfer /\ StatusesFit
  BY DEF UsbIInv, UrbsInv
<1>b. /\ UNCHANGED <<flying_transfers, urbs, num_retired, reap_action, TIMED_OUT, pending,
                     reapable, expiring, plugged, polled>>
      /\ event.step = "call"
      /\ asked' = asked \ {event.transfer} /\ accepted' = accepted \ {event.transfer}
      /\ expired' = expired \ {event.transfer}
      /\ event' = [event EXCEPT !.step = "called"]
  BY DEF callback, tpriv, kernel, device
<1>c. /\ event'.step = "called"
      /\ event' \in [step : {"complete", "call", "called"}, transfer : Transfers,
                     status : Statuses]
  <2>1. event \in [step : {"complete", "call", "called"}, transfer : Transfers,
                   status : Statuses]
    BY <1>a, <1>b DEF UsbTypeOK, Polling
  <2> QED BY <1>b, <2>1
<1>d. event.transfer \notin flying_transfers
  BY <1>a, <1>b DEF EventTransfer
<1>1. UsbTypeOK'
  BY <1>a, <1>b, <1>c DEF UsbTypeOK
<1>2. UrbsAlive' /\ UrbsInOrder' /\ UrbsCounted'
  BY <1>b, <1>c, OtherUrbsStep
<1>3. FlyingHaveUrbs' /\ EventTransfer'
  BY <1>a, <1>b, <1>c DEF FlyingHaveUrbs, EventTransfer
<1>4. StatusesFit'
  <2>1. Submitted' = flying_transfers /\ Submitted = flying_transfers \cup {event.transfer}
    BY <1>b, <1>c DEF Submitted
  <2>2. \A v : ~Ending(v)'
    BY <1>c DEF Ending
  <2>3. \A v \in flying_transfers : EndedEarly(v) => EndedEarly(v)'
    BY <1>b, <1>d DEF EndedEarly
  <2>4. expiring # NULL => EndedEarly(expiring)'
    BY <1>a, <1>b, <2>3 DEF StatusesFit, EventTransfer
  <2> QED BY <1>a, <1>b, <1>c, <1>d, <2>1, <2>2, <2>3, <2>4 DEF StatusesFit
<1> QED BY <1>1, <1>2, <1>3, <1>4 DEF UsbIInv, UrbsInv

\* The callback returns without a submission.
LEMMA PlainReturnStep ==
  ASSUME UsbIInv, event.step = "called", event' = Polling,
         UNCHANGED <<flying_transfers, tpriv, TIMED_OUT, kernel, expiring, device, history>>
  PROVE  UsbIInv'
<1>a. UsbTypeOK /\ FlyingHaveUrbs /\ EventTransfer /\ StatusesFit
  BY DEF UsbIInv, UrbsInv
<1>b. /\ UNCHANGED <<flying_transfers, urbs, num_retired, reap_action, TIMED_OUT, pending,
                     reapable, expiring, plugged, polled, asked, accepted, expired>>
      /\ event'.step = "poll"
  BY DEF tpriv, kernel, device, history, Polling
<1>1. UsbTypeOK'
  BY <1>a, <1>b DEF UsbTypeOK
<1>2. UrbsAlive' /\ UrbsInOrder' /\ UrbsCounted'
  BY <1>b, OtherUrbsStep
<1>3. FlyingHaveUrbs' /\ EventTransfer'
  BY <1>a, <1>b DEF FlyingHaveUrbs, EventTransfer
<1>4. StatusesFit'
  <2>1. Submitted' = Submitted /\ \A v : ~Ending(v)'
    BY <1>b DEF Submitted, Ending
  <2> QED BY <1>a, <1>b, <2>1 DEF StatusesFit, EndedEarly
<1> QED BY <1>1, <1>2, <1>3, <1>4 DEF UsbIInv, UrbsInv

LEMMA DisconnectStep ==
  ASSUME UsbIInv, usbi_handle_disconnect
  PROVE  UsbIInv'
<1>a. UsbTypeOK /\ FlyingHaveUrbs /\ EventTransfer /\ StatusesFit
  BY DEF UsbIInv, UrbsInv
<1>b. /\ UNCHANGED <<flying_transfers, num_retired, reap_action, TIMED_OUT, pending,
                     reapable, expiring, plugged, asked, accepted, expired>>
      /\ event.step = "poll" /\ ~plugged /\ ~polled' /\ polled' \in BOOLEAN /\ expiring = NULL
  BY DEF usbi_handle_disconnect, kernel, history, Polling
<1>c. \/ UNCHANGED <<urbs, event>>
      \/ \E t \in flying_transfers :
           /\ urbs' = urbs \ {t}
           /\ event' = [step |-> "complete", transfer |-> t, status |-> "no_device"]
  BY DEF usbi_handle_disconnect
<1>d. event' = event \/ /\ event'.step = "complete" /\ event'.status = "no_device"
                        /\ event'.transfer \in flying_transfers \ urbs'
                        /\ event' \in [step : {"complete", "call", "called"},
                                       transfer : Transfers, status : Statuses]
                        /\ urbs' = urbs \ {event'.transfer}
  BY <1>a, <1>c DEF UsbTypeOK, Statuses
<1>1. UsbTypeOK'
  BY <1>a, <1>b, <1>c, <1>d DEF UsbTypeOK
<1>2. UrbsAlive' /\ UrbsInOrder' /\ UrbsCounted'
  BY <1>b DEF UrbsAlive, UrbsInOrder, UrbsCounted
<1>3. FlyingHaveUrbs'
  BY <1>a, <1>b, <1>c, <1>d DEF FlyingHaveUrbs
<1>4. EventTransfer'
  BY <1>a, <1>b, <1>d DEF EventTransfer
<1>5. StatusesFit'
  <2>1. Submitted' = Submitted
    BY <1>b, <1>d DEF Submitted
  <2>2. \A v \in Transfers : Ending(v)' => Calls!Fits(v, event.status)'
    BY <1>b, <1>d DEF Ending, Calls!Fits
  <2> QED BY <1>a, <1>b, <1>d, <2>1, <2>2 DEF StatusesFit, EndedEarly
<1> QED BY <1>1, <1>2, <1>3, <1>4, <1>5 DEF UsbIInv, UrbsInv

LEMMA UnplugStep ==
  ASSUME UsbIInv, Unplug
  PROVE  UsbIInv'
<1>a. UsbTypeOK /\ FlyingHaveUrbs /\ EventTransfer /\ StatusesFit
  BY DEF UsbIInv, UrbsInv
<1>b. /\ UNCHANGED <<flying_transfers, urbs, num_retired, reap_action, TIMED_OUT, pending,
                     reapable, event, expiring, polled, asked, accepted, expired>>
      /\ plugged' = FALSE
  BY DEF Unplug, tpriv, kernel, history
<1>1. UsbTypeOK'
  BY <1>a, <1>b DEF UsbTypeOK
<1>2. UrbsAlive' /\ UrbsInOrder' /\ UrbsCounted'
  BY <1>b, OtherUrbsStep
<1>3. FlyingHaveUrbs' /\ EventTransfer' /\ Submitted' = Submitted
  BY <1>b, SameEvent
<1>4. StatusesFit'
  BY <1>a, <1>b, <1>3 DEF StatusesFit, EndedEarly, Ending, Calls!Fits
<1> QED BY <1>1, <1>2, <1>3, <1>4 DEF UsbIInv, UrbsInv

LEMMA UsbInitIInv == UsbInit => UsbIInv
<1> SUFFICES ASSUME UsbInit PROVE UsbIInv
  OBVIOUS
<1> USE TransfersAssumption DEF UsbInit, Polling
<1>1. UsbTypeOK
  BY DEF UsbTypeOK, Actions
<1>2. UrbsAlive /\ UrbsInOrder /\ UrbsCounted
  BY DEF UrbsAlive, UrbsInOrder, UrbsCounted
<1>3. FlyingHaveUrbs /\ EventTransfer
  BY DEF FlyingHaveUrbs, EventTransfer
<1>4. StatusesFit
  BY DEF StatusesFit, Ending, Submitted
<1> QED BY <1>1, <1>2, <1>3, <1>4 DEF UsbIInv, UrbsInv

LEMMA UsbNextKeeps ==
  ASSUME UsbIInv, [UsbNext]_usbVars
  PROVE  UsbIInv'
<1>1. ASSUME NEW t \in Transfers, UserSubmits(t) PROVE UsbIInv'
  BY <1>1, SubmitStep DEF UserSubmits
<1>2. ASSUME CallbackReturns PROVE UsbIInv'
  <2>1. event.step = "called" /\ event' = Polling
    BY <1>2 DEF CallbackReturns
  <2>2. event.transfer \in Transfers
    BY <2>1, EventCases DEF UsbIInv, UrbsInv
  <2> QED BY <1>2, <2>1, <2>2, SubmitStep, PlainReturnStep DEF CallbackReturns
<1>3. CASE UNCHANGED usbVars
  <2>1. UNCHANGED <<flying_transfers, urbs, num_retired, reap_action, TIMED_OUT, pending,
                    reapable, event, expiring, plugged, polled, asked, accepted, expired>>
    BY <1>3 DEF usbVars, tpriv, kernel, device, history
  <2>2. UrbsAlive' /\ UrbsInOrder' /\ UrbsCounted'
    BY <2>1, OtherUrbsStep
  <2>3. FlyingHaveUrbs' /\ EventTransfer' /\ Submitted' = Submitted
    BY <2>1, SameEvent
  <2>4. UsbTypeOK'
    BY <2>1 DEF UsbIInv, UrbsInv, UsbTypeOK
  <2>5. StatusesFit'
    BY <2>1, <2>3 DEF UsbIInv, StatusesFit, EndedEarly, Ending, Calls!Fits
  <2> QED BY <2>2, <2>3, <2>4, <2>5 DEF UsbIInv, UrbsInv
<1> QED
  BY <1>1, <1>2, <1>3, CancelStep, HandleTimeoutStep, KernelCompletesStep, TimeoutCancelsStep,
     ReapStep, CompletionStep, CancellationStep, UnlistStep, CallbackStep, DisconnectStep,
     UnplugStep
  DEF UsbNext, EventThread

\* The inductive invariant, and with it UrbsInv.
THEOREM UrbsAreKept == UsbSpec => []UrbsInv
<1>1. UsbIInv => UrbsInv
  BY DEF UsbIInv
<1> QED BY <1>1, UsbInitIInv, UsbNextKeeps, PTL DEF UsbSpec

-----------------------------------------------------------------------------
(* UsbTransfers implements TransferCalls: every step is a step of the      *)
(* promise, or none.                                                       *)

CallsStep == [Calls!Next]_<<Submitted, asked, accepted, expired, Called>>

\* Nobody sees a step that leaves the list, the call and the record alone.
LEMMA QuietRefines ==
  ASSUME Submitted' = Submitted, Called' = Called, UNCHANGED <<asked, accepted, expired>>
  PROVE  CallsStep
  BY DEF CallsStep

LEMMA SubmitRefines ==
  ASSUME UsbIInv, NEW t \in Transfers, libusb_submit_transfer(t),
         event' = event \/ (event.step = "called" /\ event' = Polling)
  PROVE  CallsStep
<1>1. /\ t \notin Submitted
      /\ UNCHANGED <<asked, accepted, expired>>
  BY DEF libusb_submit_transfer, history
<1>2. \/ UNCHANGED flying_transfers
      \/ flying_transfers' = flying_transfers \cup {t}
  BY DEF libusb_submit_transfer, Submit, SubmitFailedLater, SubmitFailed
<1>3. Called' \in {Called, NULL}
  BY DEF Called, Polling
<1>4. CASE UNCHANGED flying_transfers
  <2>1. Submitted' = Submitted
    BY <1>4 DEF Submitted, Polling
  <2>2. CASE Called' = Called
    BY <1>1, <2>1, <2>2, QuietRefines
  <2>3. CASE Called' = NULL
    <3>1. Calls!Return
      BY <1>1, <2>1, <2>3 DEF Calls!Return
    <3> QED BY <3>1 DEF CallsStep, Calls!Next
  <2> QED BY <1>3, <2>2, <2>3
<1>5. CASE flying_transfers' = flying_transfers \cup {t}
  <2>1. Submitted' = Submitted \cup {t}
    BY <1>5 DEF Submitted, Polling
  <2>2. Calls!Submit(t)
    BY <1>1, <1>3, <2>1 DEF Calls!Submit
  <2> QED BY <2>2 DEF CallsStep, Calls!Next
<1> QED BY <1>2, <1>4, <1>5

LEMMA CancelRefines ==
  ASSUME NEW t \in Transfers, libusb_cancel_transfer(t)
  PROVE  CallsStep
<1>1. Submitted' = Submitted /\ Called' = Called
  BY DEF libusb_cancel_transfer, Submitted, Called
<1>2. Calls!Ask(t)
  BY <1>1 DEF libusb_cancel_transfer, Calls!Ask
<1> QED BY <1>2 DEF CallsStep, Calls!Next

LEMMA TimeoutRefines ==
  ASSUME NEW t \in Transfers, handle_timeout(t)
  PROVE  CallsStep
<1>1. Submitted' = Submitted /\ Called' = Called
  BY DEF handle_timeout, Submitted, Called
<1>2. Calls!Expire(t)
  BY <1>1 DEF handle_timeout, Submitted, Calls!Expire
<1> QED BY <1>2 DEF CallsStep, Calls!Next

\* The callback: the transfer is off the list, and its status fits.
LEMMA CallbackRefines ==
  ASSUME UsbIInv, callback
  PROVE  CallsStep
<1>a. UsbTypeOK /\ EventTransfer /\ StatusesFit
  BY DEF UsbIInv, UrbsInv
<1>b. /\ event.step = "call" /\ event' = [event EXCEPT !.step = "called"]
      /\ UNCHANGED flying_transfers
      /\ asked' = asked \ {event.transfer} /\ accepted' = accepted \ {event.transfer}
      /\ expired' = expired \ {event.transfer}
  BY DEF callback
<1>c. PICK t \in Transfers : t = event.transfer /\ event.status \in Statuses
  BY <1>a, <1>b, EventCases
<1>d. event'.step = "called" /\ event'.transfer = t /\ event'.status = event.status
  <2>1. event \in [step : {"complete", "call", "called"}, transfer : Transfers,
                   status : Statuses]
    BY <1>a, <1>b DEF UsbTypeOK, Polling
  <2> QED BY <1>b, <1>c, <2>1
<1>1. t \in Submitted /\ Submitted' = Submitted \ {t}
  BY <1>a, <1>b, <1>c, <1>d DEF Submitted, EventTransfer
<1>2. Calls!Fits(t, event.status)
  BY <1>a, <1>b, <1>c DEF StatusesFit, Ending
<1>3. Called = NULL /\ Called' = [transfer |-> t, status |-> event.status]
  BY <1>b, <1>d DEF Called
<1>4. Calls!Call(t, event.status)
  BY <1>b, <1>c, <1>1, <1>2, <1>3 DEF Calls!Call
<1> QED BY <1>c, <1>4 DEF CallsStep, Calls!Next, Statuses, Calls!Statuses

\* A transfer that is ended is still on the list, so nothing is seen before the call.
LEMMA EventRefines ==
  ASSUME UsbIInv,
         \/ reap_for_handle \/ handle_iso_completion \/ usbi_handle_transfer_cancellation
         \/ Unlist \/ usbi_handle_disconnect
  PROVE  CallsStep
<1>a. UsbTypeOK /\ UrbsAlive /\ FlyingHaveUrbs /\ EventTransfer
  BY DEF UsbIInv, UrbsInv
<1>1. UNCHANGED <<asked, accepted, expired>>
  BY DEF reap_for_handle, handle_iso_completion, usbi_handle_transfer_cancellation, Unlist,
     usbi_handle_disconnect, history
<1>2. CASE reap_for_handle
  <2>1. /\ event.step = "poll" /\ event'.step = "reaped" /\ UNCHANGED flying_transfers
    BY <1>2 DEF reap_for_handle, Polling
  <2> QED BY <1>1, <2>1, QuietRefines DEF Submitted, Called
<1>3. CASE handle_iso_completion
  <2>1. /\ event.step = "reaped" /\ UNCHANGED flying_transfers
        /\ event.urb.transfer \in flying_transfers
    BY <1>a, <1>3 DEF handle_iso_completion, EventTransfer, UrbsAlive, FlyingHaveUrbs, UsbTypeOK
  <2>2. \/ event'.step \in {"poll", "cancelled"}
        \/ event'.step = "complete" /\ event'.transfer = event.urb.transfer
    <3>1. reap_action[event.urb.transfer] \in Actions
      BY <1>a, <2>1 DEF UsbTypeOK
    <3> QED BY <1>3, <3>1 DEF handle_iso_completion, Polling, Actions
  <2> QED BY <1>1, <2>1, <2>2, QuietRefines DEF Submitted, Called
<1>4. CASE usbi_handle_transfer_cancellation
  <2>1. /\ event.step = "cancelled" /\ UNCHANGED flying_transfers
        /\ event.transfer \in flying_transfers
        /\ event'.step = "complete" /\ event'.transfer = event.transfer
    BY <1>a, <1>4 DEF usbi_handle_transfer_cancellation, EventTransfer
  <2> QED BY <1>1, <2>1, QuietRefines DEF Submitted, Called
<1>5. CASE Unlist
  <2>1. /\ event.step = "complete" /\ event'.step = "call" /\ event'.transfer = event.transfer
        /\ flying_transfers' = flying_transfers \ {event.transfer}
    <3>1. event \in [step : {"complete", "call", "called"}, transfer : Transfers,
                     status : Statuses]
      BY <1>a, <1>5 DEF UsbTypeOK, Polling, Unlist
    <3> QED BY <1>5, <3>1 DEF Unlist
  <2>2. Submitted' = Submitted
    BY <2>1 DEF Submitted
  <2>3. Called' = Called
    BY <2>1 DEF Called
  <2> QED BY <1>1, <2>2, <2>3, QuietRefines
<1>6. CASE usbi_handle_disconnect
  <2>1. /\ event.step = "poll" /\ UNCHANGED flying_transfers
        /\ \/ event' = event
           \/ event'.step = "complete" /\ event'.transfer \in flying_transfers
    BY <1>6 DEF usbi_handle_disconnect, Polling
  <2> QED BY <1>1, <2>1, QuietRefines DEF Submitted, Called
<1> QED BY <1>2, <1>3, <1>4, <1>5, <1>6

LEMMA UsbNextRefines ==
  ASSUME UsbIInv, [UsbNext]_usbVars
  PROVE  CallsStep
<1>1. ASSUME NEW t \in Transfers, UserSubmits(t) PROVE CallsStep
  BY <1>1, SubmitRefines DEF UserSubmits
<1>2. ASSUME CallbackReturns PROVE CallsStep
  <2>1. event.step = "called" /\ event' = Polling
    BY <1>2 DEF CallbackReturns
  <2>2. event.transfer \in Transfers
    BY <2>1, EventCases DEF UsbIInv, UrbsInv
  <2>3. CASE libusb_submit_transfer(event.transfer)
    BY <2>1, <2>2, <2>3, SubmitRefines
  <2>4. CASE UNCHANGED <<flying_transfers, history>>
    <3>1. Calls!Return
      BY <2>1, <2>4 DEF Calls!Return, Submitted, Called, Polling, history
    <3> QED BY <3>1 DEF CallsStep, Calls!Next
  <2> QED BY <1>2, <2>3, <2>4 DEF CallbackReturns
<1>3. ASSUME UNCHANGED <<flying_transfers, event, history>> PROVE CallsStep
  BY <1>3, QuietRefines DEF Submitted, Called, history
<1>4. ASSUME NEW t \in Transfers, KernelCompletesUrb(t) PROVE CallsStep
  BY <1>3, <1>4 DEF KernelCompletesUrb
<1>5. ASSUME TimeoutCancels \/ Unplug PROVE CallsStep
  BY <1>3, <1>5 DEF TimeoutCancels, Unplug
<1>6. ASSUME UNCHANGED usbVars PROVE CallsStep
  BY <1>3, <1>6 DEF usbVars
<1> QED
  BY <1>1, <1>2, <1>4, <1>5, <1>6, CancelRefines, TimeoutRefines, CallbackRefines, EventRefines
  DEF UsbNext, EventThread

\* One call for each submission, with a status that fits: the safety of TransferCalls.
THEOREM TransfersAreCalled == UsbSpec => Calls!Spec
<1>1. UsbInit => Calls!Init
  BY DEF UsbInit, Calls!Init, Submitted, Called, Polling
<1>2. UsbIInv /\ [UsbNext]_usbVars =>
        [Calls!Next]_<<Submitted, asked, accepted, expired, Called>>
  BY UsbNextRefines DEF CallsStep
<1> QED BY <1>1, <1>2, UsbInitIInv, UsbNextKeeps, PTL DEF UsbSpec, Calls!Spec
=============================================================================
