--------------------------- MODULE AgentLoop_proofs ---------------------------
(***************************************************************************)
(* Proofs about the agent driver, for every set of messages and causes,    *)
(* every bound and every admitted schedule unless a theorem says otherwise.*)
(***************************************************************************)
EXTENDS AgentLoop, SequenceTheorems, TLAPS

-----------------------------------------------------------------------------
(* The bookkeeping operators.                                              *)

\* The fold of the session trace is closed: every event leads from a trace to
\* a trace (applyTransition).
LEMMA TraceClosed ==
  ASSUME NEW tr \in Log!Trace, NEW n \in Nat, NEW s \in Nat
  PROVE  /\ Log!AfterTurnStart(tr, n) \in Log!Trace
         /\ Log!AfterTurnEnd(tr, n) \in Log!Trace
         /\ Log!AfterStepStart(tr, n, s) \in Log!Trace
         /\ Log!AfterStepEnd(tr, n, s) \in Log!Trace
         /\ Log!AfterMessage(tr, n, s) \in Log!Trace
<1> USE DEF Log!Trace, Log!Types, Log!Event, Log!None
<1>1. Log!AfterTurnStart(tr, n) \in Log!Trace  BY DEF Log!AfterTurnStart
<1>2. Log!AfterTurnEnd(tr, n) \in Log!Trace
  <2>1. ASSUME NEW next \in Nat
        PROVE  [tr EXCEPT !.openTurn = 0, !.nextTurn = next,
                          !.last = [type |-> "turn/end", turn |-> n, step |-> 0]] \in Log!Trace
    OBVIOUS
  <2>2. tr.nextTurn + 1 \in Nat  OBVIOUS
  <2> QED  BY <2>1, <2>2 DEF Log!AfterTurnEnd
<1>3. Log!AfterStepStart(tr, n, s) \in Log!Trace  BY DEF Log!AfterStepStart
<1>4. Log!AfterStepEnd(tr, n, s) \in Log!Trace
  <2>1. ASSUME NEW next \in Nat
        PROVE  [tr EXCEPT !.openStep = 0, !.nextStep = next, !.pending = {},
                          !.last = [type |-> "step/end", turn |-> n, step |-> s]] \in Log!Trace
    OBVIOUS
  <2>2. tr.nextStep + 1 \in Nat  OBVIOUS
  <2> QED  BY <2>1, <2>2 DEF Log!AfterStepEnd
<1>5. Log!AfterMessage(tr, n, s) \in Log!Trace  BY DEF Log!AfterMessage
<1> QED  BY <1>1, <1>2, <1>3, <1>4, <1>5

\* Removing one message from a pending list leaves a list (Inbox.remove).
LEMMA RemovalIsSeq ==
  ASSUME NEW S, NEW list \in Seq(S), NEW i \in DOMAIN list
  PROVE  RemoveAt(list, i) \in Seq(S)
  <1>1. SubSeq(list, 1, i - 1) \in Seq(S) /\ SubSeq(list, i + 1, Len(list)) \in Seq(S)
    BY SubSeqProperties
  <1> QED
    BY <1>1, ConcatProperties DEF RemoveAt

\* What a claim leaves queued is a list (Inbox.claim).
LEMMA LeftQueuedIsSeq ==
  ASSUME nextTurn \in Seq(Message), NEW list
  PROVE  LeftQueued(list) \in Seq(Message)
  BY DEF LeftQueued

\* Whatever is pending or claimed is a message.
LEMMA BatchIsMessages ==
  ASSUME nextTurn \in Seq(Message), nextStep \in Seq(Message), NEW list
  PROVE  Batch(list) \subseteq Message /\ Pending \subseteq Message
  <1>1. ToSet(nextTurn) \subseteq Message /\ ToSet(nextStep) \subseteq Message
    BY DEF ToSet
  <1> QED  BY <1>1, HeadTailProperties DEF Batch, Pending

-----------------------------------------------------------------------------
(* Type correctness.                                                       *)

\* The idle agent is typed.
LEMMA TypeInit == Init => TypeOK
  <1> SUFFICES ASSUME Init PROVE TypeOK
    OBVIOUS
  <1>1. nextTurn \in Seq(Message) /\ nextStep \in Seq(Message)
    <2>1. ASSUME NEW list \in RestoredLists
          PROVE  list \in Seq(Message)
      <3>1. CASE list = <<>>
        BY <3>1, EmptySeq
      <3>2. CASE \E m \in Restored : list = <<m>>
        <4>1. PICK m \in Restored : list = <<m>>  BY <3>2
        <4>2. m \in Message  BY SetsAssumption
        <4> QED  BY <4>1, <4>2
      <3> QED  BY <3>1, <3>2 DEF RestoredLists
    <2> QED  BY <2>1 DEF Init
  <1>2. turn \in Nat
    BY BoundsAssumption DEF Init
  <1>3. trace \in Log!Trace
    <2>1. turn + 1 \in Nat  BY <1>2
    <2>2. ASSUME NEW n \in Nat
          PROVE  [openTurn |-> 0, openStep |-> 0, nextTurn |-> n, nextStep |-> 1,
                  pending |-> {}, last |-> [type |-> "none", turn |-> 0, step |-> 0]]
                 \in Log!Trace
      BY DEF Log!Trace, Log!Types
    <2> QED  BY <2>1, <2>2 DEF Init, Log!FreshTrace, Log!NoEvent, Log!None
  <1> QED  BY <1>1, <1>2, <1>3 DEF Init, TypeOK, Places, Endings

\* The waking half of send keeps the driver's state typed.
LEMMA WakeDriverType ==
  ASSUME TypeOK, NEW r \in {"none", "disposed"} \cup Causes, NEW latch \in BOOLEAN,
         NEW afterAbort \in BOOLEAN, WakeDriver(r, latch, afterAbort)
  PROVE  /\ kind' \in {"idle", "maintenance", "running"}
         /\ reason' \in {"none", "disposed"} \cup Causes
         /\ wakeRequested' \in BOOLEAN
         /\ turn' \in Nat /\ step' \in Nat /\ at' \in Places
  <1>1. wakeRequested' \in BOOLEAN
    <2>1. latch \/ Latches(kind, r, afterAbort) \in BOOLEAN  BY DEF Latches
    <2> QED  BY <2>1 DEF TypeOK, WakeDriver, StartDriver
  <1>2. /\ kind' \in {"idle", "maintenance", "running"}
        /\ reason' \in {"none", "disposed"} \cup Causes
        /\ turn' \in Nat /\ step' \in Nat
    BY DEF TypeOK, WakeDriver, StartDriver
  <1>3. at' \in Places
    BY DEF TypeOK, WakeDriver, StartDriver, Places, Awaiting
  <1> QED  BY <1>1, <1>2, <1>3

\* What the driver's last settlement may leave.
LEMMA SettleType ==
  ASSUME TypeOK, Settle
  PROVE  /\ kind' \in {"idle", "maintenance", "running"}
         /\ reason' \in {"none", "disposed"} \cup Causes
         /\ wakeRequested' \in BOOLEAN
         /\ turn' \in Nat /\ step' \in Nat /\ at' \in Places
  <1>1. \/ StartDriver(turn)
        \/ /\ kind' = "idle" /\ reason' = "none" /\ wakeRequested' = FALSE
           /\ step' = 0 /\ at' = "off" /\ UNCHANGED turn
    BY DEF Settle
  <1>2. CASE StartDriver(turn)
    <2>1. /\ kind' = "running" /\ reason' = "none" /\ wakeRequested' = FALSE
          /\ turn' = turn /\ step' = 0 /\ at' = "kick"
      BY <1>2 DEF StartDriver
    <2>2. turn \in Nat /\ "kick" \in Places  BY DEF TypeOK, Places, Awaiting
    <2> QED  BY <2>1, <2>2
  <1>3. CASE /\ kind' = "idle" /\ reason' = "none" /\ wakeRequested' = FALSE
             /\ step' = 0 /\ at' = "off" /\ UNCHANGED turn
    BY <1>3 DEF TypeOK, Places
  <1> QED  BY <1>1, <1>2, <1>3

\* A message inserted in a list leaves lists of messages.
LEMMA InsertType ==
  ASSUME TypeOK, NEW m \in Message, NEW list, Insert(m, list)
  PROVE  nextTurn' \in Seq(Message) /\ nextStep' \in Seq(Message)
  <1>1. nextTurn \in Seq(Message) /\ nextStep \in Seq(Message)  BY DEF TypeOK
  <1>2. Append(nextTurn, m) \in Seq(Message) /\ Append(nextStep, m) \in Seq(Message)
    BY <1>1, AppendProperties
  <1>3. \/ nextTurn' = Append(nextTurn, m) /\ nextStep' = nextStep
        \/ nextStep' = Append(nextStep, m) /\ nextTurn' = nextTurn
    BY DEF Insert
  <1> QED  BY <1>1, <1>2, <1>3

\* What a cancel or a disposal may leave of the inbox.
LEMMA AbortType ==
  ASSUME TypeOK, NEW c \in {"disposed"} \cup Causes, NEW keep \in BOOLEAN, Abort(c, keep)
  PROVE  /\ reason' \in {"none", "disposed"} \cup Causes
         /\ wakeRequested' \in BOOLEAN
         /\ nextTurn' \in Seq(Message) /\ nextStep' \in Seq(Message)
         /\ discarded' \subseteq Message /\ owed' \subseteq Message
  <1>1. Pending \subseteq Message  BY BatchIsMessages DEF TypeOK
  <1>2. reason' \in {"none", "disposed"} \cup Causes
    BY DEF TypeOK, Abort, FirstCause
  <1>3. wakeRequested' \in BOOLEAN
    BY DEF TypeOK, Abort, LatchAfterCancel
  <1>4. nextTurn' \in Seq(Message) /\ nextStep' \in Seq(Message)
    BY EmptySeq DEF TypeOK, Abort, inbox
  <1>5. discarded' \subseteq Message
    BY <1>1 DEF TypeOK, Abort
  <1>6. owed' \subseteq Message
    BY DEF TypeOK, Abort
  <1> QED  BY <1>2, <1>3, <1>4, <1>5, <1>6

\* What closing a turn may leave.
LEMMA CloseTurnType ==
  ASSUME TypeOK, NEW e \in Endings, NEW throws \in BOOLEAN, NEW stop \in BOOLEAN,
         CloseTurn(e, throws, stop)
  PROVE  /\ at' \in Places /\ turnEnds' \in Endings
         /\ threw' \in BOOLEAN /\ stops' \in BOOLEAN
         /\ trace' \in Log!Trace /\ owed' \subseteq Message
  <1>1. CASE RecordEnd(e, throws)
    <2>1. Log!AfterTurnEnd(trace, turn) \in Log!Trace  BY TraceClosed DEF TypeOK
    <2> QED  BY <1>1, <2>1 DEF TypeOK, CloseTurn, RecordEnd, Places, Publishing
  <1>2. CASE LeaveTurnOpen
    BY <1>2 DEF TypeOK, CloseTurn, LeaveTurnOpen, Places, Awaiting
  <1> QED  BY <1>1, <1>2 DEF CloseTurn

\* What the driver's catch block may leave.
LEMMA CatchType ==
  ASSUME TypeOK, Catch
  PROVE  /\ at' \in Places /\ turnEnds' \in Endings
         /\ threw' \in BOOLEAN /\ stops' \in BOOLEAN
         /\ trace' \in Log!Trace /\ owed' \subseteq Message
  <1>1. CASE Aborted
    BY <1>1, CloseTurnType DEF Catch, Endings
  <1>2. CASE ~Aborted
    BY <1>2 DEF TypeOK, Catch, Endings, Places, Awaiting
  <1> QED  BY <1>1, <1>2

\* What consuming a proposal may leave of the inbox.
LEMMA ProposeType ==
  ASSUME TypeOK, NEW list \in {"next-turn", "next-step"}, Propose(list)
  PROVE  /\ at' \in Places /\ target' \in {"next-turn", "next-step"}
         /\ nextTurn' \in Seq(Message) /\ nextStep' \in Seq(Message)
         /\ claimed' \subseteq Message /\ owed' \subseteq Message
         /\ ordinary' \subseteq Message
         /\ turnEnds' \in Endings /\ threw' \in BOOLEAN /\ stops' \in BOOLEAN
         /\ trace' \in Log!Trace
  <1>1. Batch(list) \subseteq Message  BY BatchIsMessages DEF TypeOK
  <1>2. LeftQueued(list) \in Seq(Message)  BY LeftQueuedIsSeq DEF TypeOK
  <1>3. nextTurn' \in Seq(Message) /\ nextStep' \in Seq(Message)
    BY <1>2 DEF TypeOK, Propose, Claim
  <1>4. claimed' \subseteq Message /\ owed' \subseteq Message /\ ordinary' \subseteq Message
    BY <1>1 DEF TypeOK, Propose, Claim
  <1>5. /\ at' \in Places /\ target' \in {"next-turn", "next-step"}
        /\ turnEnds' \in Endings /\ threw' \in BOOLEAN /\ stops' \in BOOLEAN
        /\ trace' \in Log!Trace
    BY DEF TypeOK, Propose, Places, Awaiting
  <1> QED  BY <1>3, <1>4, <1>5
\* No action, whoever takes it, leaves the state typed wrongly.
LEMMA TypeStep == TypeOK /\ [Next]_vars => TypeOK'
  <1> SUFFICES ASSUME TypeOK, [Next]_vars PROVE TypeOK'
    OBVIOUS
  <1> USE DEF driver, inbox, local, progress, counts, history
  <1>1. ASSUME NEW m \in Unsent, NEW list \in {"next-turn", "next-step"},
               NEW wakeup \in BOOLEAN, Send(m, list, wakeup)
        PROVE  TypeOK'
    <2>1. m \in Message  BY DEF Unsent
    <2>2. nextTurn' \in Seq(Message) /\ nextStep' \in Seq(Message)
      BY <1>1, <2>1, InsertType DEF Send
    <2>3. CASE wakeup
      <3>1. WakesAfterAbort(wakeup) \in BOOLEAN  BY DEF WakesAfterAbort
      <3>2. WakeDriver(reason, wakeRequested, WakesAfterAbort(wakeup))
        BY <1>1, <2>3 DEF Send
      <3>3. /\ kind' \in {"idle", "maintenance", "running"}
            /\ reason' \in {"none", "disposed"} \cup Causes
            /\ wakeRequested' \in BOOLEAN
            /\ turn' \in Nat /\ step' \in Nat /\ at' \in Places
        BY <3>1, <3>2, WakeDriverType DEF TypeOK
      <3> QED  BY <1>1, <2>1, <2>2, <3>3 DEF Send, TypeOK
    <2>4. CASE ~wakeup
      BY <1>1, <2>1, <2>2, <2>4 DEF Send, TypeOK
    <2> QED  BY <2>3, <2>4
  <1>2. ASSUME NEW m \in Unsent, NEW list \in {"next-turn", "next-step"},
               NEW wakeup \in BOOLEAN, NEW c \in Causes, NEW keep \in BOOLEAN,
               SendCancelled(m, list, wakeup, c, keep)
        PROVE  TypeOK'
    <2>1. m \in Message /\ Pending \subseteq Message
      BY BatchIsMessages DEF Unsent, TypeOK
    <2>2. nextTurn' \in Seq(Message) /\ nextStep' \in Seq(Message)
      <3>1. CASE keep  BY <1>2, <2>1, <3>1, InsertType DEF SendCancelled
      <3>2. CASE ~keep  BY <1>2, <3>2, EmptySeq DEF SendCancelled
      <3> QED  BY <3>1, <3>2
    <2>3. discarded' \subseteq Message /\ owed' \subseteq Message
      BY <1>2, <2>1 DEF SendCancelled, TypeOK
    <2>4. (IF kind = "idle" THEN reason ELSE FirstCause(reason, c))
            \in {"none", "disposed"} \cup Causes
      BY DEF FirstCause, TypeOK
    <2>5. /\ LatchAfterCancel(keep) \in BOOLEAN
          /\ WakesAfterAbort(wakeup) \in BOOLEAN
      BY DEF LatchAfterCancel, WakesAfterAbort, TypeOK
    <2>6. /\ kind' \in {"idle", "maintenance", "running"}
          /\ reason' \in {"none", "disposed"} \cup Causes
          /\ wakeRequested' \in BOOLEAN
          /\ turn' \in Nat /\ step' \in Nat /\ at' \in Places
      <3>1. CASE wakeup  BY <1>2, <2>4, <2>5, <3>1, WakeDriverType DEF SendCancelled
      <3>2. CASE ~wakeup  BY <1>2, <2>4, <2>5, <3>2 DEF SendCancelled, TypeOK
      <3> QED  BY <3>1, <3>2
    <2> QED  BY <1>2, <2>2, <2>3, <2>6 DEF SendCancelled, TypeOK
  <1>3. ASSUME NEW c \in Causes, NEW keep \in BOOLEAN, Cancel(c, keep)
        PROVE  TypeOK'
    <2>1. Abort(c, keep)  BY <1>3 DEF Cancel
    <2>2. /\ reason' \in {"none", "disposed"} \cup Causes
          /\ wakeRequested' \in BOOLEAN
          /\ nextTurn' \in Seq(Message) /\ nextStep' \in Seq(Message)
          /\ discarded' \subseteq Message /\ owed' \subseteq Message
      BY <2>1, AbortType
    <2>3. cancels' \in Nat  BY <1>3 DEF Cancel, TypeOK
    <2> QED  BY <1>3, <2>2, <2>3 DEF Cancel, TypeOK
  <1>4. ASSUME NEW m \in Pending, RemovePending(m)
        PROVE  TypeOK'
    <2>1. m \in Message  BY BatchIsMessages DEF TypeOK
    <2>2. nextTurn' \in Seq(Message) /\ nextStep' \in Seq(Message)
      BY <1>4, RemovalIsSeq DEF RemovePending, TypeOK
    <2> QED  BY <1>4, <2>1, <2>2 DEF RemovePending, TypeOK
  <1>5. ASSUME NEW m \in Unsent, AcceptContext(m)
        PROVE  TypeOK'
    BY <1>5, InsertType DEF Unsent, AcceptContext, TypeOK
  <1>6. ASSUME StartMaintenance PROVE TypeOK'
    <2>1. tasks' \in Nat  BY <1>6 DEF StartMaintenance, TypeOK
    <2> QED  BY <1>6, <2>1 DEF StartMaintenance, TypeOK
  <1>7. ASSUME EndMaintenance PROVE TypeOK'
    <2>1. Settle  BY <1>7 DEF EndMaintenance
    <2> QED  BY <1>7, <2>1, SettleType DEF EndMaintenance, TypeOK
  <1>8. ASSUME Dispose PROVE TypeOK'
    <2>1. Abort("disposed", FALSE)  BY <1>8 DEF Dispose
    <2>2. /\ reason' \in {"none", "disposed"} \cup Causes
          /\ wakeRequested' \in BOOLEAN
          /\ nextTurn' \in Seq(Message) /\ nextStep' \in Seq(Message)
          /\ discarded' \subseteq Message /\ owed' \subseteq Message
      BY <2>1, AbortType
    <2> QED  BY <1>8, <2>2 DEF Dispose, TypeOK
  <1>9. ASSUME DisposeRefused \/ Detach PROVE TypeOK'
    BY <1>9 DEF DisposeRefused, Detach, TypeOK
  <1>10. ASSUME RefuseTurn \/ VetoTurn \/ LastTurn PROVE TypeOK'
    BY <1>10 DEF RefuseTurn, VetoTurn, LastTurn, TypeOK, Places, Awaiting
  <1>11. ASSUME BeginTurn PROVE TypeOK'
    <2>1. turn + 1 \in Nat  BY DEF TypeOK
    <2>2. trace' \in Log!Trace  BY <1>11, <2>1, TraceClosed DEF BeginTurn, TypeOK
    <2> QED  BY <1>11, <2>1, <2>2 DEF BeginTurn, TypeOK, Places, Publishing, Endings
  <1>12. ASSUME OpenTurn PROVE TypeOK'
    <2>1. CASE Aborted
      <3>1. Catch  BY <1>12, <2>1 DEF OpenTurn
      <3> QED  BY <1>12, <2>1, <3>1, CatchType DEF OpenTurn, TypeOK
    <2>2. CASE ~Aborted
      <3>1. Propose(target)  BY <1>12, <2>2 DEF OpenTurn
      <3> QED  BY <1>12, <2>2, <3>1, ProposeType DEF OpenTurn, TypeOK
    <2> QED  BY <2>1, <2>2
  <1>13. ASSUME PreStepFails PROVE TypeOK'
    <2>1. Catch  BY <1>13 DEF PreStepFails
    <2> QED  BY <1>13, <2>1, CatchType DEF PreStepFails, TypeOK
  <1>14. ASSUME NEW d \in {"reject", "empty", "enter"}, PreStepDecides(d)
         PROVE  TypeOK'
    BY <1>14 DEF PreStepDecides, TypeOK, Places, Awaiting
  <1>15. ASSUME RejectStep PROVE TypeOK'
    <2>1. CloseTurn("blocked", FALSE, TRUE)  BY <1>15 DEF RejectStep
    <2>2. "blocked" \in Endings  BY DEF Endings
    <2> QED  BY <1>15, <2>1, <2>2, CloseTurnType DEF RejectStep, TypeOK
  <1>16. ASSUME SkipStep PROVE TypeOK'
    <2>1. \/ CloseTurn(turnEnds, FALSE, FALSE)
          \/ CloseTurn("completed", FALSE, TRUE)
      BY <1>16 DEF SkipStep
    <2>2. "completed" \in Endings /\ turnEnds \in Endings  BY DEF Endings, TypeOK
    <2>3. /\ at' \in Places /\ turnEnds' \in Endings
          /\ threw' \in BOOLEAN /\ stops' \in BOOLEAN
          /\ trace' \in Log!Trace /\ owed' \subseteq Message
      BY <2>1, <2>2, CloseTurnType
    <2> QED  BY <1>16, <2>3 DEF SkipStep, TypeOK
  <1>17. ASSUME EnterStep PROVE TypeOK'
    <2>1. CASE ~MayOpen
      <3>1. Catch /\ UNCHANGED step  BY <1>17, <2>1 DEF EnterStep
      <3> QED  BY <1>17, <3>1, CatchType DEF EnterStep, TypeOK
    <2>2. CASE MayOpen
      <3>1. step + 1 \in Nat  BY DEF TypeOK
      <3>2. trace' \in Log!Trace  BY <1>17, <2>2, <3>1, TraceClosed DEF EnterStep, TypeOK
      <3> QED  BY <1>17, <2>2, <3>1, <3>2 DEF EnterStep, TypeOK, Places, Publishing
    <2> QED  BY <2>1, <2>2
  <1>18. ASSUME StepThrows \/ Request PROVE TypeOK'
    <2>1. {"step-done", "request"} \subseteq Places  BY DEF Places, Awaiting
    <2>2. CASE StepThrows  BY <2>1, <2>2 DEF StepThrows, TypeOK
    <2>3. CASE Request  BY <2>1, <2>3 DEF Request, TypeOK
    <2> QED  BY <1>18, <2>2, <2>3
  <1>19. ASSUME NEW f \in {"completed", "max-tokens", "calls"}, CompleteAnswer(f)
         PROVE  TypeOK'
    <2>1. Log!AfterMessage(trace, turn, step) \in Log!Trace  BY TraceClosed DEF TypeOK
    <2>2. trace' \in Log!Trace /\ at' \in {"step-done", "answered"}
      BY <1>19, <2>1 DEF CompleteAnswer, TypeOK
    <2>3. stepEnd' \in {"none", "completed", "max-tokens"}  BY <1>19 DEF CompleteAnswer
    <2> QED  BY <1>19, <2>2, <2>3 DEF CompleteAnswer, TypeOK, Places, Awaiting
  <1>20. ASSUME NEW concluded \in BOOLEAN, ToolsDone(concluded) PROVE TypeOK'
    BY <1>20 DEF ToolsDone, TypeOK, Places, Awaiting
  <1>21. ASSUME CloseStep PROVE TypeOK'
    <2>1. trace' \in Log!Trace  BY <1>21, TraceClosed DEF CloseStep, StepClosed, TypeOK
    <2>2. turnEnds' \in Endings  BY <1>21 DEF CloseStep, Outcome, TypeOK, Endings
    <2> QED  BY <1>21, <2>1, <2>2 DEF CloseStep, TypeOK, Places, Publishing
  <1>22. ASSUME AfterStep PROVE TypeOK'
    <2>1. CASE threw \/ Aborted
      <3>1. Catch  BY <1>22, <2>1 DEF AfterStep
      <3> QED  BY <1>22, <2>1, <3>1, CatchType DEF AfterStep, TypeOK
    <2>2. CASE ~(threw \/ Aborted) /\ Decided
      BY <1>22, <2>2 DEF AfterStep, TypeOK, Places, Awaiting
    <2>3. CASE ~(threw \/ Aborted) /\ ~Decided
      <3>1. Propose("next-step")  BY <1>22, <2>3 DEF AfterStep, LaterList
      <3> QED  BY <1>22, <2>3, <3>1, ProposeType DEF AfterStep, TypeOK
    <2> QED  BY <2>1, <2>2, <2>3
  <1>23. ASSUME StoppingFails PROVE TypeOK'
    <2>1. Catch  BY <1>23 DEF StoppingFails
    <2> QED  BY <1>23, <2>1, CatchType DEF StoppingFails, TypeOK
  <1>24. ASSUME Stop PROVE TypeOK'
    <2>1. CASE Decided
      <3>1. CloseTurn(turnEnds, FALSE, FALSE)  BY <1>24, <2>1 DEF Stop
      <3>2. turnEnds \in Endings  BY DEF TypeOK
      <3>3. /\ at' \in Places /\ turnEnds' \in Endings
            /\ threw' \in BOOLEAN /\ stops' \in BOOLEAN
            /\ trace' \in Log!Trace /\ owed' \subseteq Message
        BY <3>1, <3>2, CloseTurnType
      <3> QED  BY <1>24, <2>1, <3>3 DEF Stop, TypeOK
    <2>2. CASE ~Decided
      <3>1. Propose("next-step")  BY <1>24, <2>2 DEF Stop, LaterList
      <3> QED  BY <1>24, <2>2, <3>1, ProposeType DEF Stop, TypeOK
    <2> QED  BY <2>1, <2>2
  <1>25. ASSUME CloseFailedTurn PROVE TypeOK'
    <2>1. CloseTurn("error", TRUE, FALSE)  BY <1>25 DEF CloseFailedTurn
    <2>2. "error" \in Endings  BY DEF Endings
    <2>3. /\ at' \in Places /\ turnEnds' \in Endings
          /\ threw' \in BOOLEAN /\ stops' \in BOOLEAN
          /\ trace' \in Log!Trace /\ owed' \subseteq Message
      BY <2>1, <2>2, CloseTurnType
    <2> QED  BY <1>25, <2>3 DEF CloseFailedTurn, TypeOK
  <1>26. ASSUME NextTurn PROVE TypeOK'
    BY <1>26 DEF NextTurn, FreshLatch, TypeOK, Places, Awaiting
  <1>27. ASSUME Retire PROVE TypeOK'
    <2>1. Settle  BY <1>27 DEF Retire
    <2> QED  BY <1>27, <2>1, SettleType DEF Retire, TypeOK, Endings
  <1>28. CASE UNCHANGED vars
    BY <1>28 DEF vars, TypeOK
  <1>29. ASSUME RecordAnswer PROVE TypeOK'
    <2>1. trace' \in Log!Trace  BY <1>29, TraceClosed DEF RecordAnswer, TypeOK
    <2> QED  BY <1>29, <2>1 DEF RecordAnswer, TypeOK, Places, Awaiting
  <1>30. ASSUME VetoStep PROVE TypeOK'
    <2>1. Catch  BY <1>30 DEF VetoStep
    <2> QED  BY <1>30, <2>1, CatchType DEF VetoStep, TypeOK
  <1>31. ASSUME LeaveStepOpen PROVE TypeOK'
    <2>1. Catch  BY <1>31 DEF LeaveStepOpen
    <2> QED  BY <1>31, <2>1, CatchType DEF LeaveStepOpen, TypeOK
  <1> QED
    BY <1>1, <1>2, <1>3, <1>4, <1>5, <1>6, <1>7, <1>8, <1>9, <1>10, <1>11, <1>12,
       <1>13, <1>14, <1>15, <1>16, <1>17, <1>18, <1>19, <1>20, <1>21, <1>22, <1>23,
       <1>24, <1>25, <1>26, <1>27, <1>28, <1>29, <1>30, <1>31
    DEF Next, Driver, Environment, Rest

\* Every reachable state of the driver, its inbox and its log is well typed.
THEOREM TypeCorrect == Spec => []TypeOK
  <1> QED  BY TypeInit, TypeStep, PTL DEF Spec

-----------------------------------------------------------------------------
(* The agent has a driver exactly while it is running.                     *)

\* The idle agent has none.
LEMMA PlacedInit == Init => Placed
  BY DEF Init, Placed

\* Closing a turn suspends the driver at its end or settles it.
LEMMA CloseTurnPlaces ==
  ASSUME NEW e, NEW throws, NEW stop, CloseTurn(e, throws, stop)
  PROVE  at' \in {"turn-end", "settled"}
  BY DEF CloseTurn, RecordEnd, LeaveTurnOpen

\* So does the catch block, or it reports the failure first.
LEMMA CatchPlaces ==
  ASSUME Catch
  PROVE  at' \in {"turn-end", "settled", "failed"}
  BY CloseTurnPlaces DEF Catch

\* A driver appears where the agent starts running and goes where it stops.
LEMMA PlacedStep == Placed /\ [Next]_vars => Placed'
  <1> SUFFICES ASSUME Placed, [Next]_vars PROVE Placed'
    OBVIOUS
  <1> USE DEF driver, inbox, local, progress, counts, history
  <1>1. ASSUME UNCHANGED <<kind, at>> PROVE Placed'
    BY <1>1 DEF Placed
  <1>2. ASSUME NEW r, NEW latch, NEW afterAbort, WakeDriver(r, latch, afterAbort)
        PROVE  Placed'
    BY <1>2 DEF WakeDriver, StartDriver, Placed
  <1>3. ASSUME NEW m \in Unsent, NEW list \in {"next-turn", "next-step"},
               NEW wakeup \in BOOLEAN, Send(m, list, wakeup)
        PROVE  Placed'
    <2>1. CASE wakeup  BY <1>2, <1>3, <2>1 DEF Send
    <2>2. CASE ~wakeup  BY <1>1, <1>3, <2>2 DEF Send
    <2> QED  BY <2>1, <2>2
  <1>4. ASSUME NEW m \in Unsent, NEW list \in {"next-turn", "next-step"},
               NEW wakeup \in BOOLEAN, NEW c \in Causes, NEW keep \in BOOLEAN,
               SendCancelled(m, list, wakeup, c, keep)
        PROVE  Placed'
    <2>1. CASE wakeup  BY <1>2, <1>4, <2>1 DEF SendCancelled
    <2>2. CASE ~wakeup  BY <1>1, <1>4, <2>2 DEF SendCancelled
    <2> QED  BY <2>1, <2>2
  <1>5. ASSUME \/ \E c \in Causes, keep \in BOOLEAN : Cancel(c, keep)
               \/ \E m \in Pending : RemovePending(m)
               \/ \E m \in Unsent : AcceptContext(m)
               \/ Dispose \/ DisposeRefused \/ Detach \/ Rest \/ UNCHANGED vars
        PROVE  Placed'
    <2>1. UNCHANGED <<kind, at>>
      BY <1>5 DEF Cancel, RemovePending, AcceptContext, Dispose, DisposeRefused, Detach,
                  Rest, vars
    <2> QED  BY <1>1, <2>1
  <1>6. ASSUME StartMaintenance PROVE Placed'
    BY <1>6 DEF StartMaintenance, Placed
  <1>7. ASSUME EndMaintenance \/ Retire PROVE Placed'
    BY <1>7 DEF EndMaintenance, Retire, Settle, StartDriver, Placed
  <1>8. ASSUME UNCHANGED kind, at # "off", at' # "off" PROVE Placed'
    BY <1>8 DEF Placed
  <1>9. ASSUME \/ OpenTurn \/ PreStepFails \/ EnterStep \/ VetoStep \/ LeaveStepOpen
               \/ RejectStep \/ SkipStep \/ AfterStep \/ StoppingFails \/ Stop
               \/ CloseFailedTurn
        PROVE  Placed'
    <2>1. UNCHANGED kind /\ at # "off"
      BY <1>9 DEF OpenTurn, PreStepFails, EnterStep, VetoStep, LeaveStepOpen, RejectStep,
         SkipStep, AfterStep, StoppingFails, Stop, CloseFailedTurn
    <2>2. \/ Catch \/ \E e, throws, stop : CloseTurn(e, throws, stop)
          \/ at' \in {"pre-step", "step-start", "stopping"}
      BY <1>9 DEF OpenTurn, PreStepFails, EnterStep, VetoStep, LeaveStepOpen, RejectStep,
         SkipStep, AfterStep, StoppingFails, Stop, CloseFailedTurn, Propose
    <2> QED  BY <1>8, <2>1, <2>2, CatchPlaces, CloseTurnPlaces
  <1>10. ASSUME \/ RefuseTurn \/ BeginTurn \/ VetoTurn \/ StepThrows \/ Request
                \/ RecordAnswer \/ CloseStep \/ NextTurn \/ LastTurn
                \/ \E d \in {"reject", "empty", "enter"} : PreStepDecides(d)
                \/ \E f \in {"completed", "max-tokens", "calls"} : CompleteAnswer(f)
                \/ \E concluded \in BOOLEAN : ToolsDone(concluded)
         PROVE  Placed'
    BY <1>8, <1>10 DEF RefuseTurn, BeginTurn, VetoTurn, StepThrows, Request, RecordAnswer,
       CloseStep, NextTurn, LastTurn, PreStepDecides, CompleteAnswer, ToolsDone
  <1> QED
    BY <1>1, <1>3, <1>4, <1>5, <1>6, <1>7, <1>9, <1>10 DEF Next, Driver, Environment

-----------------------------------------------------------------------------
(* The log is well formed: where the driver is suspended decides what is   *)
(* open (Aligned), so every append is one the invariant companion accepts, *)
(* unless a listener may refuse the events that close a turn or a step.    *)

\* The coordinates each event leaves open, and the number it advances.
LEMMA TraceFields ==
  ASSUME NEW tr \in Log!Trace, NEW n \in Nat, NEW s \in Nat
  PROVE  /\ LET new == Log!AfterTurnStart(tr, n)
            IN  /\ new.openTurn = n /\ new.openStep = tr.openStep
                /\ new.nextTurn = tr.nextTurn /\ new.nextStep = 1
                /\ new.pending = tr.pending
         /\ LET new == Log!AfterTurnEnd(tr, n)
            IN  /\ new.openTurn = 0 /\ new.openStep = tr.openStep
                /\ new.nextTurn = tr.nextTurn + 1 /\ new.nextStep = tr.nextStep
                /\ new.pending = tr.pending
         /\ LET new == Log!AfterStepStart(tr, n, s)
            IN  /\ new.openTurn = tr.openTurn /\ new.openStep = s
                /\ new.nextTurn = tr.nextTurn /\ new.nextStep = tr.nextStep
                /\ new.pending = tr.pending
         /\ LET new == Log!AfterStepEnd(tr, n, s)
            IN  /\ new.openTurn = tr.openTurn /\ new.openStep = 0
                /\ new.nextTurn = tr.nextTurn /\ new.nextStep = tr.nextStep + 1
                /\ new.pending = {}
         /\ LET new == Log!AfterMessage(tr, n, s)
            IN  /\ new.openTurn = tr.openTurn /\ new.openStep = tr.openStep
                /\ new.nextTurn = tr.nextTurn /\ new.nextStep = tr.nextStep
                /\ new.pending = tr.pending
  <1> USE DEF Log!Trace, Log!Event, Log!None
  <1>1. LET new == Log!AfterTurnStart(tr, n)
        IN  /\ new.openTurn = n /\ new.openStep = tr.openStep
            /\ new.nextTurn = tr.nextTurn /\ new.nextStep = 1
            /\ new.pending = tr.pending
    BY DEF Log!AfterTurnStart
  <1>2. LET new == Log!AfterTurnEnd(tr, n)
        IN  /\ new.openTurn = 0 /\ new.openStep = tr.openStep
            /\ new.nextTurn = tr.nextTurn + 1 /\ new.nextStep = tr.nextStep
            /\ new.pending = tr.pending
    BY DEF Log!AfterTurnEnd
  <1>3. LET new == Log!AfterStepStart(tr, n, s)
        IN  /\ new.openTurn = tr.openTurn /\ new.openStep = s
            /\ new.nextTurn = tr.nextTurn /\ new.nextStep = tr.nextStep
            /\ new.pending = tr.pending
    BY DEF Log!AfterStepStart
  <1>4. LET new == Log!AfterStepEnd(tr, n, s)
        IN  /\ new.openTurn = tr.openTurn /\ new.openStep = 0
            /\ new.nextTurn = tr.nextTurn /\ new.nextStep = tr.nextStep + 1
            /\ new.pending = {}
    BY DEF Log!AfterStepEnd
  <1>5. LET new == Log!AfterMessage(tr, n, s)
        IN  /\ new.openTurn = tr.openTurn /\ new.openStep = tr.openStep
            /\ new.nextTurn = tr.nextTurn /\ new.nextStep = tr.nextStep
            /\ new.pending = tr.pending
    BY DEF Log!AfterMessage
  <1> QED  BY <1>1, <1>2, <1>3, <1>4, <1>5

\* The idle agent's trace is the abstract log's first state.
LEMMA AlignedInit == Init => Aligned /\ Log!Init
  <1> SUFFICES ASSUME Init PROVE Aligned /\ Log!Init
    OBVIOUS
  <1>1. turn \in Nat  BY BoundsAssumption DEF Init
  <1>2. /\ trace = Log!FreshTrace(turn)
        /\ trace.openTurn = 0 /\ trace.openStep = 0
        /\ trace.nextTurn = turn + 1 /\ trace.nextStep = 1 /\ trace.pending = {}
    BY DEF Init, Log!FreshTrace, Log!None
  <1>3. Aligned
    BY <1>1, <1>2 DEF Init, Aligned, Placed, InTurn, InStep
  <1>4. trace.nextTurn \in Nat \ {0} /\ trace.nextTurn - 1 = turn
    BY <1>1, <1>2
  <1>5. Log!Init
    BY <1>2, <1>4 DEF Log!Init
  <1> QED  BY <1>3, <1>5

\* A move of the driver inside one part of the turn appends nothing.
LEMMA Within ==
  ASSUME Aligned, UNCHANGED <<kind, turn, step, trace>>,
         at # "off", at' \notin {"off", "kick"},
         at \in InTurn <=> at' \in InTurn, at \in InStep <=> at' \in InStep
  PROVE  Aligned' /\ [Log!Next]_trace
  BY DEF Aligned, Placed

\* Closing a turn is a step of the abstract log.
LEMMA CloseTurnAligned ==
  ASSUME TypeOK, Aligned, at \in InTurn \ InStep, UNCHANGED <<kind, turn, step>>,
         NEW e, NEW throws, NEW stop, CloseTurn(e, throws, stop),
         "veto-close" \notin Admitted
  PROVE  Aligned' /\ [Log!Next]_trace
  <1>1. turn \in Nat /\ step \in Nat /\ trace \in Log!Trace  BY DEF TypeOK
  <1>2. /\ trace.openTurn = turn /\ turn # 0 /\ trace.openStep = 0
        /\ trace.nextTurn = turn /\ trace.pending = {} /\ kind = "running"
    BY DEF Aligned, Placed, InTurn, InStep
  <1>3. at' = "turn-end" /\ trace' = Log!AfterTurnEnd(trace, turn)
    BY DEF CloseTurn, RecordEnd, LeaveTurnOpen
  <1>4. /\ trace'.openTurn = 0 /\ trace'.openStep = 0
        /\ trace'.nextTurn = turn + 1 /\ trace'.pending = {}
    BY <1>1, <1>2, <1>3, TraceFields
  <1>5. Aligned'
    BY <1>2, <1>3, <1>4 DEF Aligned, Placed, InTurn, InStep
  <1>6. Log!TurnEnd
    BY <1>2, <1>3 DEF Log!TurnEnd, Log!None
  <1> QED  BY <1>5, <1>6 DEF Log!Next

\* So is what the catch block does.
LEMMA CatchAligned ==
  ASSUME TypeOK, Aligned, at \in InTurn \ InStep, UNCHANGED <<kind, turn, step>>, Catch,
         "veto-close" \notin Admitted
  PROVE  Aligned' /\ [Log!Next]_trace
  <1>1. CASE Aborted
    BY <1>1, CloseTurnAligned DEF Catch
  <1>2. CASE ~Aborted
    BY <1>2, Within DEF Catch, InTurn, InStep
  <1> QED  BY <1>1, <1>2

\* The driver's settlement leaves the log alone.
LEMMA SettleAligned ==
  ASSUME TypeOK, Aligned, at \notin InTurn, Settle, UNCHANGED trace
  PROVE  Aligned' /\ [Log!Next]_trace
  <1>1. turn' = turn /\ step' = 0
    BY DEF Settle, StartDriver
  <1>2. \/ kind' = "running" /\ at' = "kick"
        \/ kind' = "idle" /\ at' = "off"
    BY DEF Settle, StartDriver
  <1> QED  BY <1>1, <1>2 DEF Aligned, Placed, InTurn, InStep

\* Waking the driver leaves the log alone.
LEMMA WakeDriverAligned ==
  ASSUME TypeOK, Aligned, NEW r, NEW latch, NEW afterAbort, WakeDriver(r, latch, afterAbort),
         UNCHANGED trace
  PROVE  Aligned' /\ [Log!Next]_trace
  <1>1. CASE kind = "idle"
    <2>1. kind' = "running" /\ at' = "kick" /\ turn' = turn /\ step' = 0
      BY <1>1 DEF WakeDriver, StartDriver
    <2> QED  BY <1>1, <2>1 DEF Aligned, Placed, InTurn, InStep
  <1>2. CASE kind # "idle"
    BY <1>2 DEF WakeDriver, Aligned, Placed
  <1> QED  BY <1>1, <1>2

\* Every step of the agent is a step of the abstract log or none of it.
LEMMA AlignedStep ==
  ASSUME "veto-close" \notin Admitted
  PROVE  TypeOK /\ Aligned /\ [Next]_vars => Aligned' /\ [Log!Next]_trace
  <1> SUFFICES ASSUME TypeOK, Aligned, [Next]_vars
               PROVE  Aligned' /\ [Log!Next]_trace
    OBVIOUS
  <1> USE DEF driver, inbox, local, progress, counts, history
  <1>0. turn \in Nat /\ step \in Nat /\ trace \in Log!Trace
    BY DEF TypeOK
  <1>1. ASSUME NEW m \in Unsent, NEW list \in {"next-turn", "next-step"},
               NEW wakeup \in BOOLEAN, Send(m, list, wakeup)
        PROVE  Aligned' /\ [Log!Next]_trace
    <2>1. CASE wakeup
      BY <1>1, <2>1, WakeDriverAligned DEF Send
    <2>2. CASE ~wakeup
      BY <1>1, <2>2 DEF Send, Aligned, Placed
    <2> QED  BY <2>1, <2>2
  <1>2. ASSUME NEW m \in Unsent, NEW list \in {"next-turn", "next-step"},
               NEW wakeup \in BOOLEAN, NEW c \in Causes, NEW keep \in BOOLEAN,
               SendCancelled(m, list, wakeup, c, keep)
        PROVE  Aligned' /\ [Log!Next]_trace
    <2>1. CASE wakeup
      BY <1>2, <2>1, WakeDriverAligned DEF SendCancelled
    <2>2. CASE ~wakeup
      BY <1>2, <2>2 DEF SendCancelled, Aligned, Placed
    <2> QED  BY <2>1, <2>2
  <1>3. ASSUME UNCHANGED <<kind, turn, step, trace, at>>
        PROVE  Aligned' /\ [Log!Next]_trace
    BY <1>3 DEF Aligned, Placed
  <1>4. ASSUME StartMaintenance
        PROVE  Aligned' /\ [Log!Next]_trace
    BY <1>4 DEF StartMaintenance, Aligned, Placed
  <1>5. ASSUME EndMaintenance
        PROVE  Aligned' /\ [Log!Next]_trace
    <2>1. at \notin InTurn  BY <1>5 DEF EndMaintenance, Aligned, Placed, InTurn, InStep
    <2> QED  BY <1>5, <2>1, SettleAligned DEF EndMaintenance
  <1>6. ASSUME RefuseTurn \/ VetoTurn \/ LastTurn
        PROVE  Aligned' /\ [Log!Next]_trace
    BY <1>6, Within DEF RefuseTurn, VetoTurn, LastTurn, InTurn, InStep
  <1>7. ASSUME BeginTurn
        PROVE  Aligned' /\ [Log!Next]_trace
    <2>1. /\ at = "kick" /\ step = 0 /\ kind = "running"
          /\ trace.openTurn = 0 /\ trace.openStep = 0
          /\ trace.nextTurn = turn + 1 /\ trace.pending = {}
      BY <1>7 DEF BeginTurn, Aligned, Placed, InTurn, InStep
    <2>2. /\ at' = "turn-start" /\ turn' = turn + 1 /\ step' = 0 /\ kind' = "running"
          /\ trace' = Log!AfterTurnStart(trace, turn + 1)
      BY <1>7, <2>1 DEF BeginTurn
    <2>3. /\ trace'.openTurn = turn + 1 /\ trace'.openStep = 0
          /\ trace'.nextTurn = turn + 1 /\ trace'.nextStep = 1 /\ trace'.pending = {}
      <3>1. turn + 1 \in Nat  BY <1>0
      <3> QED  BY <1>0, <2>1, <2>2, <3>1, TraceFields
    <2>4. Aligned'
      BY <1>0, <2>2, <2>3 DEF Aligned, Placed, InTurn, InStep
    <2>5. Log!TurnStart
      BY <2>1, <2>2 DEF Log!TurnStart, Log!None
    <2> QED  BY <2>4, <2>5 DEF Log!Next
  <1>8. ASSUME OpenTurn
        PROVE  Aligned' /\ [Log!Next]_trace
    <2>1. at \in InTurn \ InStep /\ at # "off"  BY <1>8 DEF OpenTurn, InTurn, InStep
    <2>2. CASE Aborted
      BY <1>8, <2>1, <2>2, CatchAligned DEF OpenTurn
    <2>3. CASE ~Aborted
      BY <1>8, <2>1, <2>3, Within DEF OpenTurn, Propose, InTurn, InStep
    <2> QED  BY <2>2, <2>3
  <1>9. ASSUME PreStepFails \/ StoppingFails \/ VetoStep
        PROVE  Aligned' /\ [Log!Next]_trace
    <2>1. at \in InTurn \ InStep
      BY <1>9 DEF PreStepFails, StoppingFails, VetoStep, InTurn, InStep
    <2> QED  BY <1>9, <2>1, CatchAligned DEF PreStepFails, StoppingFails, VetoStep
  <1>10. ASSUME NEW d \in {"reject", "empty", "enter"}, PreStepDecides(d)
         PROVE  Aligned' /\ [Log!Next]_trace
    BY <1>10, Within DEF PreStepDecides, InTurn, InStep
  <1>11. ASSUME RejectStep \/ SkipStep \/ CloseFailedTurn
         PROVE  Aligned' /\ [Log!Next]_trace
    <2>1. at \in InTurn \ InStep
      BY <1>11 DEF RejectStep, SkipStep, CloseFailedTurn, InTurn, InStep
    <2>2. UNCHANGED <<kind, turn, step>>
      BY <1>11 DEF RejectStep, SkipStep, CloseFailedTurn
    <2>3. \E e, throws, stop : CloseTurn(e, throws, stop)
      BY <1>11 DEF RejectStep, SkipStep, CloseFailedTurn
    <2> QED  BY <2>1, <2>2, <2>3, CloseTurnAligned
  <1>12. ASSUME EnterStep
         PROVE  Aligned' /\ [Log!Next]_trace
    <2>1. at \in InTurn \ InStep  BY <1>12 DEF EnterStep, InTurn, InStep
    <2>2. CASE ~MayOpen
      BY <1>12, <2>1, <2>2, CatchAligned DEF EnterStep
    <2>3. CASE MayOpen
      <3>1. /\ kind = "running" /\ turn # 0
            /\ trace.openTurn = turn /\ trace.openStep = 0
            /\ trace.nextTurn = turn /\ trace.nextStep = step + 1 /\ trace.pending = {}
        BY <1>12 DEF EnterStep, Aligned, Placed, InTurn, InStep
      <3>2. /\ at' = "step-start" /\ turn' = turn /\ step' = step + 1 /\ kind' = "running"
            /\ trace' = Log!AfterStepStart(trace, turn, step + 1)
        BY <1>12, <2>3, <3>1 DEF EnterStep
      <3>3. /\ trace'.openTurn = turn /\ trace'.openStep = step + 1
            /\ trace'.nextTurn = turn /\ trace'.nextStep = step + 1 /\ trace'.pending = {}
        <4>1. step + 1 \in Nat  BY <1>0
        <4> QED  BY <1>0, <3>1, <3>2, <4>1, TraceFields
      <3>4. Aligned'
        BY <1>0, <3>1, <3>2, <3>3 DEF Aligned, Placed, InTurn, InStep
      <3>5. Log!StepStart
        BY <3>1, <3>2 DEF Log!StepStart, Log!None
      <3> QED  BY <3>4, <3>5 DEF Log!Next
    <2> QED  BY <2>2, <2>3
  <1>13. ASSUME StepThrows \/ Request \/ \E concluded \in BOOLEAN : ToolsDone(concluded)
         PROVE  Aligned' /\ [Log!Next]_trace
    BY <1>13, Within DEF StepThrows, Request, ToolsDone, InTurn, InStep
  <1>14. ASSUME RecordAnswer \/ \E f \in {"completed", "max-tokens",
  "calls"} : CompleteAnswer(f)
         PROVE  Aligned' /\ [Log!Next]_trace
    <2>1. /\ kind = "running" /\ turn # 0 /\ step # 0 /\ at \in InStep
          /\ trace.openTurn = turn /\ trace.openStep = step
          /\ trace.nextTurn = turn /\ trace.nextStep = step /\ trace.pending = {}
      BY <1>14 DEF RecordAnswer, CompleteAnswer, Aligned, Placed, InTurn, InStep
    <2>2. /\ at' \in {"answered", "tools", "step-done"} /\ UNCHANGED <<kind, turn, step>>
          /\ \/ UNCHANGED trace
             \/ trace' = Log!AfterMessage(trace, turn, step)
      BY <1>14 DEF RecordAnswer, CompleteAnswer
    <2>3. CASE UNCHANGED trace
      <3>1. at # "off" /\ at' \notin {"off", "kick"} /\ at' \in InStep
            /\ at \in InTurn /\ at' \in InTurn
        BY <2>1, <2>2 DEF InStep, InTurn
      <3> QED  BY <2>2, <2>3, <3>1, <2>1, Within
    <2>4. CASE trace' = Log!AfterMessage(trace, turn, step)
      <3>1. /\ trace'.openTurn = turn /\ trace'.openStep = step
            /\ trace'.nextTurn = turn /\ trace'.nextStep = step /\ trace'.pending = {}
        BY <1>0, <2>1, <2>4, TraceFields
      <3>2. Aligned'
        BY <1>0, <2>1, <2>2, <3>1 DEF Aligned, Placed, InTurn, InStep
      <3>3. Log!AssistantMessage
        BY <2>1, <2>4 DEF Log!AssistantMessage, Log!None
      <3> QED  BY <3>2, <3>3 DEF Log!Next
    <2> QED  BY <2>2, <2>3, <2>4
  <1>15. ASSUME CloseStep
         PROVE  Aligned' /\ [Log!Next]_trace
    <2>1. /\ kind = "running" /\ turn # 0 /\ step # 0
          /\ trace.openTurn = turn /\ trace.openStep = step
          /\ trace.nextTurn = turn /\ trace.nextStep = step
      BY <1>15 DEF CloseStep, Aligned, Placed, InTurn, InStep
    <2>2. /\ at' = "step-end" /\ UNCHANGED <<kind, turn, step>>
          /\ trace' = Log!AfterStepEnd(trace, turn, step)
      BY <1>15 DEF CloseStep, StepClosed
    <2>3. /\ trace'.openTurn = turn /\ trace'.openStep = 0
          /\ trace'.nextTurn = turn /\ trace'.nextStep = step + 1 /\ trace'.pending = {}
      BY <1>0, <2>1, <2>2, TraceFields
    <2>4. Aligned'
      BY <1>0, <2>1, <2>2, <2>3 DEF Aligned, Placed, InTurn, InStep
    <2>5. Log!StepEnd
      BY <2>1, <2>2 DEF Log!StepEnd, Log!None
    <2> QED  BY <2>4, <2>5 DEF Log!Next
  <1>16. ASSUME AfterStep \/ Stop
         PROVE  Aligned' /\ [Log!Next]_trace
    <2>1. at \in InTurn \ InStep /\ at # "off" /\ UNCHANGED <<kind, turn, step>>
      BY <1>16 DEF AfterStep, Stop, InTurn, InStep
    <2>2. \/ Catch
          \/ \E e, throws, stop : CloseTurn(e, throws, stop)
          \/ at' \in {"stopping", "pre-step"} /\ UNCHANGED trace
      BY <1>16 DEF AfterStep, Stop, Propose
    <2> QED  BY <2>1, <2>2, CatchAligned, CloseTurnAligned, Within DEF InTurn, InStep
  <1>17. ASSUME NextTurn
         PROVE  Aligned' /\ [Log!Next]_trace
    BY <1>17 DEF NextTurn, Aligned, Placed, InTurn, InStep
  <1>18. ASSUME Retire
         PROVE  Aligned' /\ [Log!Next]_trace
    <2>1. at \notin InTurn  BY <1>18 DEF Retire, InTurn, InStep
    <2> QED  BY <1>18, <2>1, SettleAligned DEF Retire
  <1>19. ASSUME \/ \E c \in Causes, keep \in BOOLEAN : Cancel(c, keep)
                \/ \E m \in Pending : RemovePending(m)
                \/ \E m \in Unsent : AcceptContext(m)
                \/ Dispose \/ DisposeRefused \/ Detach \/ Rest \/ UNCHANGED vars
         PROVE  UNCHANGED <<kind, turn, step, trace, at>>
    BY <1>19 DEF Cancel, RemovePending, AcceptContext, Dispose, DisposeRefused, Detach,
                 Rest, vars
  <1>20. ~LeaveStepOpen
    BY DEF LeaveStepOpen
  <1> QED
    BY <1>1, <1>2, <1>3, <1>4, <1>5, <1>6, <1>7, <1>8, <1>9, <1>10, <1>11, <1>12,
       <1>13, <1>14, <1>15, <1>16, <1>17, <1>18, <1>19, <1>20
    DEF Next, Driver, Environment

\* Unless a listener may refuse the events that close a turn or a step, the
\* driver's log is always a log the invariant companion accepts: turns and steps
\* are numbered and nested properly on every path through failure, cancellation
\* and disposal.
THEOREM LogIsWellFormed ==
  ASSUME "veto-close" \notin Admitted
  PROVE  Spec => LogWellFormed
  <1>1. Spec => [](TypeOK /\ Aligned)
    <2>1. Init => TypeOK /\ Aligned  BY TypeInit, AlignedInit
    <2>2. TypeOK /\ Aligned /\ [Next]_vars => (TypeOK /\ Aligned)'
      BY TypeStep, AlignedStep
    <2> QED  BY <2>1, <2>2, PTL DEF Spec
  <1>2. Init => Log!Init  BY AlignedInit
  <1>3. TypeOK /\ Aligned /\ [Next]_vars => [Log!Next]_trace  BY AlignedStep
  <1> QED  BY <1>1, <1>2, <1>3, PTL DEF Spec, LogWellFormed, Log!Spec

\* Unless a listener may refuse the events that close a turn or a step, no turn
\* is open while nothing drives the agent.
THEOREM IdleIsBalanced ==
  ASSUME "veto-close" \notin Admitted
  PROVE  Spec => []IdleLogIsBalanced
  <1>1. Init => TypeOK /\ Aligned  BY TypeInit, AlignedInit
  <1>2. TypeOK /\ Aligned /\ [Next]_vars => (TypeOK /\ Aligned)'
    BY TypeStep, AlignedStep
  <1>3. Aligned => IdleLogIsBalanced
    BY DEF Aligned, Placed, IdleLogIsBalanced, InTurn, InStep
  <1> QED  BY <1>1, <1>2, <1>3, PTL DEF Spec

-----------------------------------------------------------------------------
(* The remembered wake.  An idle agent remembers none, which is what makes *)
(* LatchIsFresh inductive.                                                 *)

LatchInv ==
  /\ LatchIsFresh
  /\ kind = "idle" => reason = "none" /\ ~wakeRequested

\* The idle agent's wake latch is unset.
LEMMA LatchInit == Init => LatchInv
  BY DEF Init, LatchInv, LatchIsFresh

\* Waking input that finds the agent busy, the latch at most as set as before.
LEMMA WakeLatch ==
  ASSUME TypeOK, LatchInv, NEW r, NEW latch \in BOOLEAN, NEW afterAbort \in BOOLEAN,
         latch => wakeRequested,
         Aborted => r = reason, afterAbort => Aborted,
         WakeDriver(r, latch, afterAbort)
  PROVE  LatchInv'
  <1>1. CASE kind = "idle"
    BY <1>1 DEF WakeDriver, StartDriver, LatchInv, LatchIsFresh
  <1>2. CASE kind # "idle"
    <2>1. kind' = kind /\ reason' = r
      BY <1>2 DEF WakeDriver
    <2>2. wakeRequested' => latch \/ (r # "disposed" /\ (kind = "maintenance" \/ afterAbort))
      BY <1>2 DEF WakeDriver, Latches
    <2>3. wakeRequested' => kind = "maintenance" \/ (Aborted /\ reason # "disposed")
      BY <2>2 DEF LatchInv, LatchIsFresh, Aborted
    <2>4. wakeRequested' => kind' = "maintenance" \/ (reason' # "none" /\ reason' # "disposed")
      BY <2>1, <2>3 DEF Aborted
    <2> QED  BY <1>2, <2>1, <2>4 DEF LatchInv, LatchIsFresh, Aborted
  <1> QED  BY <1>1, <1>2

\* A cancel or a disposal leaves the latch fresh.
LEMMA AbortLatch ==
  ASSUME TypeOK, LatchInv, NEW c, NEW keep \in BOOLEAN, Abort(c, keep), UNCHANGED kind
  PROVE  LatchInv'
  <1>1. wakeRequested' => wakeRequested
    BY DEF Abort, LatchAfterCancel
  <1>2. Aborted \/ kind = "idle" => reason' = reason
    BY DEF Abort, FirstCause, Aborted
  <1> QED  BY <1>1, <1>2 DEF LatchInv, LatchIsFresh, Aborted

\* The settlement consumes the latch.
LEMMA SettleLatch ==
  ASSUME Settle PROVE LatchInv'
  BY DEF Settle, StartDriver, LatchInv, LatchIsFresh

\* The wake latch stays fresh through every step.
LEMMA LatchStep == TypeOK /\ LatchInv /\ [Next]_vars => LatchInv'
  <1> SUFFICES ASSUME TypeOK, LatchInv, [Next]_vars PROVE LatchInv'
    OBVIOUS
  <1> USE DEF driver, inbox, local, progress, counts, history
  <1>0. wakeRequested \in BOOLEAN  BY DEF TypeOK
  <1>1. ASSUME NEW m \in Unsent, NEW list \in {"next-turn", "next-step"},
               NEW wakeup \in BOOLEAN, Send(m, list, wakeup)
        PROVE  LatchInv'
    <2>1. CASE wakeup
      <3>1. /\ WakesAfterAbort(wakeup) \in BOOLEAN
            /\ WakesAfterAbort(wakeup) => Aborted
        BY DEF WakesAfterAbort
      <3>2. WakeDriver(reason, wakeRequested, WakesAfterAbort(wakeup))
        BY <1>1, <2>1 DEF Send
      <3> QED  BY <1>0, <3>1, <3>2, WakeLatch
    <2>2. CASE ~wakeup
      BY <1>1, <2>2 DEF Send, LatchInv, LatchIsFresh, Aborted
    <2> QED  BY <2>1, <2>2
  <1>2. ASSUME NEW m \in Unsent, NEW list \in {"next-turn", "next-step"},
               NEW wakeup \in BOOLEAN, NEW c \in Causes, NEW keep \in BOOLEAN,
               SendCancelled(m, list, wakeup, c, keep)
        PROVE  LatchInv'
    <2> DEFINE r == IF kind = "idle" THEN reason ELSE FirstCause(reason, c)
    <2>1. Aborted => r = reason  BY DEF FirstCause, Aborted
    <2>2. /\ LatchAfterCancel(keep) \in BOOLEAN
          /\ LatchAfterCancel(keep) => wakeRequested
      BY DEF LatchAfterCancel
    <2>3. CASE wakeup
      <3>1. /\ WakesAfterAbort(wakeup) \in BOOLEAN
            /\ WakesAfterAbort(wakeup) => Aborted
        BY DEF WakesAfterAbort
      <3>2. WakeDriver(r, LatchAfterCancel(keep), WakesAfterAbort(wakeup))
        BY <1>2, <2>3 DEF SendCancelled
      <3> HIDE DEF r
      <3> QED  BY <2>1, <2>2, <3>1, <3>2, WakeLatch
    <2>4. CASE ~wakeup
      <3>1. /\ reason' = r /\ kind' = kind
            /\ wakeRequested' = LatchAfterCancel(keep)
        BY <1>2, <2>4 DEF SendCancelled
      <3>2. wakeRequested' => wakeRequested  BY <2>2, <3>1
      <3>3. kind = "idle" => reason' = reason  BY <3>1
      <3>4. Aborted => reason' = reason  BY <2>1, <3>1
      <3> QED  BY <3>1, <3>2, <3>3, <3>4 DEF LatchInv, LatchIsFresh, Aborted
    <2> QED  BY <2>3, <2>4
  <1>3. ASSUME \/ Dispose
               \/ \E c \in Causes, keep \in BOOLEAN : Cancel(c, keep)
        PROVE  LatchInv'
    <2>1. \E c : \E keep \in BOOLEAN : Abort(c, keep)  BY <1>3 DEF Dispose, Cancel
    <2>2. UNCHANGED kind  BY <1>3 DEF Dispose, Cancel
    <2> QED  BY <2>1, <2>2, AbortLatch
  <1>4. ASSUME EndMaintenance \/ Retire PROVE LatchInv'
    BY <1>4, SettleLatch DEF EndMaintenance, Retire
  <1>5. ASSUME StartMaintenance \/ NextTurn PROVE LatchInv'
    BY <1>5 DEF StartMaintenance, NextTurn, FreshLatch, LatchInv, LatchIsFresh
  <1>6. ASSUME UNCHANGED <<kind, reason, wakeRequested>> PROVE LatchInv'
    BY <1>6 DEF LatchInv, LatchIsFresh, Aborted
  <1>7. ASSUME \/ \E m \in Pending : RemovePending(m)
               \/ \E m \in Unsent : AcceptContext(m)
               \/ DisposeRefused \/ Detach \/ Rest \/ UNCHANGED vars
               \/ RefuseTurn \/ BeginTurn \/ VetoTurn \/ OpenTurn \/ PreStepFails
               \/ \E d \in {"reject", "empty", "enter"} : PreStepDecides(d)
               \/ RejectStep \/ SkipStep \/ EnterStep \/ VetoStep \/ LeaveStepOpen
               \/ StepThrows \/ Request \/ RecordAnswer
               \/ \E f \in {"completed", "max-tokens", "calls"} : CompleteAnswer(f)
               \/ \E concluded \in BOOLEAN : ToolsDone(concluded)
               \/ CloseStep \/ AfterStep \/ StoppingFails \/ Stop \/ CloseFailedTurn
               \/ LastTurn
        PROVE  UNCHANGED <<kind, reason, wakeRequested>>
    BY <1>7 DEF RemovePending, AcceptContext, DisposeRefused, Detach, Rest, vars,
       RefuseTurn, BeginTurn, VetoTurn, OpenTurn, PreStepFails, PreStepDecides, RejectStep,
       SkipStep, EnterStep, VetoStep, LeaveStepOpen, StepThrows, Request, RecordAnswer,
       CompleteAnswer, ToolsDone, CloseStep, AfterStep,
       StoppingFails, Stop, CloseFailedTurn, LastTurn
  <1> QED
    BY <1>1, <1>2, <1>3, <1>4, <1>5, <1>6, <1>7 DEF Next, Driver, Environment

\* A wake is remembered only behind maintenance or an aborted activity, never
\* behind one disposal aborted: a stale latch cannot open a turn of its own.
THEOREM LatchStaysFresh == Spec => []LatchIsFresh
  <1>1. LatchInv => LatchIsFresh  BY DEF LatchInv
  <1> QED  BY <1>1, TypeInit, TypeStep, LatchInit, LatchStep, PTL DEF Spec

-----------------------------------------------------------------------------
(* Disposal.                                                               *)

\* Unless disposal is requested from an append observer, nothing runs once the
\* registries have dropped the agent.
THEOREM DetachedStaysQuiescent ==
  ASSUME "observer-dispose" \notin Admitted
  PROVE  Spec => []DetachedIsQuiescent
  <1> DEFINE Inv == life = "detached" => kind = "idle"
  <1>1. Init => Inv  BY DEF Init
  <1>2. TypeOK /\ Placed /\ Inv /\ [Next]_vars => Inv'
    <2> SUFFICES ASSUME TypeOK, Placed, Inv, [Next]_vars, life' = "detached"
                 PROVE  kind' = "idle"
      OBVIOUS
    <2> USE DEF driver, inbox, local, progress, counts, history
    <2>1. CASE Detach
      BY <2>1 DEF Detach, Quiescent
    <2>2. ASSUME NEW m \in Unsent, NEW list \in {"next-turn", "next-step"},
                 NEW wakeup \in BOOLEAN, NEW c \in Causes, NEW keep \in BOOLEAN,
                 Send(m, list, wakeup) \/ SendCancelled(m, list, wakeup, c, keep)
          PROVE  kind' = "idle"
      BY <2>2 DEF Send, SendCancelled, MaySend
    <2>3. CASE UNCHANGED <<life, kind>>
      BY <2>3
    <2>4. CASE StartMaintenance \/ EndMaintenance \/ Retire \/ Dispose \/ DisposeRefused
      BY <2>4 DEF StartMaintenance, EndMaintenance, Retire, Dispose, DisposeRefused, Placed
    <2>5. ASSUME NEW m \in Unsent, NEW list \in {"next-turn", "next-step"},
                 NEW wakeup \in BOOLEAN, Send(m, list, wakeup)
          PROVE  kind' = "idle"
      BY <2>5 DEF Send, MaySend
    <2>6. ASSUME \/ \E m \in Pending : RemovePending(m)
                 \/ \E m \in Unsent : AcceptContext(m)
                 \/ \E c \in Causes, keep \in BOOLEAN : Cancel(c, keep)
                 \/ Rest \/ UNCHANGED vars
                 \/ RefuseTurn \/ BeginTurn \/ VetoTurn \/ OpenTurn \/ PreStepFails
                 \/ \E d \in {"reject", "empty", "enter"} : PreStepDecides(d)
                 \/ RejectStep \/ SkipStep \/ EnterStep \/ VetoStep \/ LeaveStepOpen
                 \/ StepThrows \/ Request \/ RecordAnswer
                 \/ \E f \in {"completed", "max-tokens", "calls"} : CompleteAnswer(f)
                 \/ \E concluded \in BOOLEAN : ToolsDone(concluded)
                 \/ CloseStep \/ AfterStep \/ StoppingFails \/ Stop \/ CloseFailedTurn
                 \/ NextTurn \/ LastTurn
          PROVE  UNCHANGED <<life, kind>>
      BY <2>6 DEF RemovePending, AcceptContext, Cancel, Rest, vars, RefuseTurn, BeginTurn,
         VetoTurn, OpenTurn, PreStepFails, PreStepDecides, RejectStep, SkipStep, EnterStep,
         VetoStep, LeaveStepOpen,
         StepThrows, Request, RecordAnswer, CompleteAnswer, ToolsDone, CloseStep, AfterStep,
         StoppingFails, Stop,
         CloseFailedTurn, NextTurn, LastTurn
    <2> QED
      BY <2>1, <2>2, <2>3, <2>4, <2>5, <2>6 DEF Next, Driver, Environment
  <1>3. Inv => DetachedIsQuiescent  BY DEF DetachedIsQuiescent
  <1> QED  BY <1>1, <1>2, <1>3, TypeInit, TypeStep, PlacedInit, PlacedStep, PTL DEF Spec

-----------------------------------------------------------------------------
(* Cancellation.                                                           *)

\* Only the driver appends.
LEMMA EnvironmentIsSilent ==
  ASSUME Environment \/ EndMaintenance \/ Detach \/ Rest \/ UNCHANGED vars
  PROVE  UNCHANGED trace
  <1>1. CASE EndMaintenance \/ Detach \/ Rest \/ UNCHANGED vars
    BY <1>1 DEF EndMaintenance, Detach, Rest, vars
  <1>2. CASE StartMaintenance \/ Dispose \/ DisposeRefused
    BY <1>2 DEF StartMaintenance, Dispose, DisposeRefused
  <1>3. CASE \/ \E m \in Pending : RemovePending(m)
             \/ \E c \in Causes, keep \in BOOLEAN : Cancel(c, keep)
    BY <1>3 DEF RemovePending, Cancel
  <1>4. ASSUME NEW m \in Unsent,
               \/ \E list \in {"next-turn", "next-step"}, wakeup \in BOOLEAN :
                    \/ Send(m, list, wakeup)
                    \/ \E c \in Causes, keep \in BOOLEAN :
                         SendCancelled(m, list, wakeup, c, keep)
               \/ AcceptContext(m)
        PROVE  UNCHANGED trace
    BY <1>4 DEF Send, SendCancelled, AcceptContext
  <1> QED  BY <1>1, <1>2, <1>3, <1>4 DEF Environment

\* An aborted driver moves on neither to a turn nor to a step, a request or a
\* complete answer; all it still appends is the closing of what is open and the
\* answer it was about to record.
LEMMA AbortedMoves ==
  ASSUME TypeOK, Aborted, Driver
  PROVE  /\ at' \notin {"turn-start", "step-start", "request", "answered"}
         /\ \/ trace' \in {trace, Log!AfterTurnEnd(trace, turn),
                           Log!AfterStepEnd(trace, turn, step)}
            \/ at = "answered" /\ trace' = Log!AfterMessage(trace, turn, step)
  <1> USE DEF driver, inbox, local, progress, counts, history
  <1>0. ASSUME Catch
        PROVE  /\ at' \in {"turn-end", "settled", "failed"}
               /\ trace' \in {trace, Log!AfterTurnEnd(trace, turn)}
    <2>1. CloseTurn("aborted", TRUE, FALSE)  BY <1>0 DEF Catch
    <2> QED  BY <1>0, <2>1, CatchPlaces DEF CloseTurn, RecordEnd, LeaveTurnOpen
  <1>1. CASE BeginTurn \/ \E f \in {"completed", "max-tokens", "calls"} : CompleteAnswer(f)
    BY <1>1 DEF BeginTurn, MayBegin, CompleteAnswer
  <1>2. CASE RecordAnswer
    BY <1>2 DEF RecordAnswer
  <1>3. CASE CloseStep
    BY <1>3 DEF CloseStep, StepClosed
  <1>4. CASE OpenTurn \/ PreStepFails \/ EnterStep \/ VetoStep \/ LeaveStepOpen
             \/ AfterStep \/ StoppingFails
    <2>1. Catch
      BY <1>4 DEF OpenTurn, PreStepFails, EnterStep, MayOpen, VetoStep, LeaveStepOpen,
         AfterStep, StoppingFails
    <2> QED  BY <1>0, <2>1
  <1>5. CASE RejectStep \/ SkipStep \/ CloseFailedTurn
    <2>1. \E e, throws, stop : CloseTurn(e, throws, stop)
      BY <1>5 DEF RejectStep, SkipStep, CloseFailedTurn
    <2> QED  BY <2>1, CloseTurnPlaces DEF CloseTurn, RecordEnd, LeaveTurnOpen
  <1>6. CASE Stop
    BY <1>6 DEF Stop
  <1>7. CASE RefuseTurn \/ VetoTurn \/ NextTurn \/ LastTurn
    BY <1>7 DEF RefuseTurn, VetoTurn, NextTurn, LastTurn
  <1>8. CASE Retire
    BY <1>8 DEF Retire, Settle, StartDriver
  <1>9. CASE \/ StepThrows \/ Request
             \/ \E d \in {"reject", "empty", "enter"} : PreStepDecides(d)
             \/ \E concluded \in BOOLEAN : ToolsDone(concluded)
    BY <1>9 DEF StepThrows, Request, PreStepDecides, ToolsDone
  <1> QED
    BY <1>1, <1>2, <1>3, <1>4, <1>5, <1>6, <1>7, <1>8, <1>9 DEF Driver

\* The environment moves no driver except by starting one.
LEMMA EnvironmentMovesNothing ==
  ASSUME Environment \/ EndMaintenance \/ Detach \/ Rest \/ UNCHANGED vars
  PROVE  at' \in {at, "kick", "off"}
  <1> USE DEF driver, inbox, local, progress, counts, history
  <1>1. CASE EndMaintenance \/ Detach \/ Rest \/ UNCHANGED vars
    BY <1>1 DEF EndMaintenance, Settle, StartDriver, Detach, Rest, vars
  <1>2. CASE StartMaintenance \/ Dispose \/ DisposeRefused
    BY <1>2 DEF StartMaintenance, Dispose, DisposeRefused
  <1>3. CASE \/ \E m \in Pending : RemovePending(m)
             \/ \E c \in Causes, keep \in BOOLEAN : Cancel(c, keep)
             \/ \E m \in Unsent : AcceptContext(m)
    BY <1>3 DEF RemovePending, Cancel, AcceptContext
  <1>4. ASSUME NEW m \in Unsent, NEW list \in {"next-turn", "next-step"},
               NEW wakeup \in BOOLEAN,
               \/ Send(m, list, wakeup)
               \/ \E c \in Causes, keep \in BOOLEAN : SendCancelled(m, list, wakeup, c, keep)
        PROVE  at' \in {at, "kick", "off"}
    BY <1>4 DEF Send, SendCancelled, WakeDriver, StartDriver
  <1> QED  BY <1>1, <1>2, <1>3, <1>4 DEF Environment

\* Once its activity is aborted the driver opens neither a turn nor a step, asks
\* the model for nothing and completes no answer; it may still record the one
\* answer that was complete when the abort came, and closes what is open.
THEOREM AbortStops == Spec => AbortStopsWork
  <1> DEFINE Stops ==
        /\ at' \in {"turn-start", "step-start", "request", "answered"} => at' = at
        /\ \/ UNCHANGED trace
           \/ trace'.last.type \in {"turn/end", "step/end"}
           \/ trace'.last.type = "assistant/message" /\ at = "answered"
  <1>1. TypeOK /\ [Next]_vars => [Aborted => Stops]_vars
    <2> SUFFICES ASSUME TypeOK, [Next]_vars, Aborted
                 PROVE  Stops
      OBVIOUS
    <2>1. trace \in Log!Trace  BY DEF TypeOK
    <2>2. /\ Log!AfterTurnEnd(trace, turn).last.type = "turn/end"
          /\ Log!AfterStepEnd(trace, turn, step).last.type = "step/end"
          /\ Log!AfterMessage(trace, turn, step).last.type = "assistant/message"
      BY <2>1 DEF Log!Trace, Log!AfterTurnEnd, Log!AfterStepEnd, Log!AfterMessage, Log!Event
    <2>3. CASE Driver
      BY <2>2, <2>3, AbortedMoves
    <2>4. CASE Environment \/ EndMaintenance \/ Detach \/ Rest \/ UNCHANGED vars
      BY <2>4, EnvironmentIsSilent, EnvironmentMovesNothing
    <2> QED  BY <2>3, <2>4 DEF Next
  <1> QED  BY <1>1, TypeInit, TypeStep, PTL DEF Spec, AbortStopsWork

-----------------------------------------------------------------------------
(* The inbox.  What the two lists hold and what became of the messages that *)
(* left them.                                                               *)

\* A new message is appended at the end: the list holds it once, and what it
\* held before (Inbox.insert).
LEMMA AppendKeepsInjective ==
  ASSUME NEW S, NEW list \in Seq(S), NEW m \in S
  PROVE  /\ ToSet(Append(list, m)) = ToSet(list) \cup {m}
         /\ IsInjective(list) /\ m \notin ToSet(list) => IsInjective(Append(list, m))
<1> DEFINE longer == Append(list, m)
<1>1. /\ longer \in Seq(S) /\ Len(longer) = Len(list) + 1
      /\ \A i \in 1..Len(list) : longer[i] = list[i]
      /\ longer[Len(list) + 1] = m
  BY AppendProperties
<1>2. /\ DOMAIN list = 1..Len(list) /\ DOMAIN longer = 1..(Len(list) + 1)
      /\ Len(list) \in Nat
  BY <1>1
<1> HIDE DEF longer
<1>3. ToSet(longer) = ToSet(list) \cup {m}
  <2>1. ASSUME NEW x \in ToSet(longer) PROVE x \in ToSet(list) \cup {m}
    <3>1. PICK i \in 1..(Len(list) + 1) : x = longer[i]  BY <1>2 DEF ToSet
    <3>2. CASE i = Len(list) + 1  BY <3>1, <3>2, <1>1
    <3>3. CASE i \in 1..Len(list)  BY <3>1, <3>3, <1>1, <1>2 DEF ToSet
    <3> QED  BY <3>2, <3>3, <1>2
  <2>2. ASSUME NEW x \in ToSet(list) PROVE x \in ToSet(longer)
    <3>1. PICK i \in 1..Len(list) : x = list[i]  BY <1>2 DEF ToSet
    <3>2. i \in DOMAIN longer /\ x = longer[i]  BY <3>1, <1>1, <1>2
    <3> QED  BY <3>2 DEF ToSet
  <2>3. m \in ToSet(longer)
    <3>1. Len(list) + 1 \in DOMAIN longer  BY <1>2
    <3> QED  BY <3>1, <1>1 DEF ToSet
  <2> QED  BY <2>1, <2>2, <2>3
<1>4. ASSUME IsInjective(list), m \notin ToSet(list)
      PROVE  IsInjective(longer)
  <2>1. \A i \in 1..Len(list) : list[i] # m
    BY <1>4, <1>2 DEF ToSet
  <2>2. ASSUME NEW i \in 1..(Len(list) + 1), NEW j \in 1..(Len(list) + 1),
               longer[i] = longer[j]
        PROVE  i = j
    <3>1. CASE i \in 1..Len(list) /\ j \in 1..Len(list)
      BY <3>1, <2>2, <1>1, <1>2, <1>4 DEF IsInjective
    <3>2. CASE i = Len(list) + 1 /\ j \in 1..Len(list)
      BY <3>2, <2>2, <2>1, <1>1
    <3>3. CASE i \in 1..Len(list) /\ j = Len(list) + 1
      BY <3>3, <2>2, <2>1, <1>1
    <3>4. CASE i = Len(list) + 1 /\ j = Len(list) + 1
      BY <3>4
    <3> QED  BY <3>1, <3>2, <3>3, <3>4, <1>2
  <2> QED  BY <2>2, <1>2 DEF IsInjective
<1> QED  BY <1>3, <1>4 DEF longer

\* Taking one message out of a list leaves the others, each as often as before
\* (Inbox.remove).
LEMMA RemovalKeepsOthers ==
  ASSUME NEW S, NEW list \in Seq(S), NEW i \in DOMAIN list
  PROVE  /\ ToSet(list) \subseteq ToSet(RemoveAt(list, i)) \cup {list[i]}
         /\ ToSet(RemoveAt(list, i)) \subseteq ToSet(list)
         /\ IsInjective(list) =>
              /\ IsInjective(RemoveAt(list, i))
              /\ list[i] \notin ToSet(RemoveAt(list, i))
<1> DEFINE shorter == RemoveAt(list, i)
<1>1. i \in 1..Len(list) /\ DOMAIN list = 1..Len(list) /\ Len(list) \in Nat /\ i \in Nat
  OBVIOUS
<1>2. /\ SubSeq(list, 1, i - 1) \in Seq(S) /\ Len(SubSeq(list, 1, i - 1)) = i - 1
      /\ \A k \in 1..(i - 1) : SubSeq(list, 1, i - 1)[k] = list[k]
  BY <1>1
<1>3. /\ SubSeq(list, i + 1, Len(list)) \in Seq(S)
      /\ Len(SubSeq(list, i + 1, Len(list))) = Len(list) - i
      /\ \A k \in 1..(Len(list) - i) : SubSeq(list, i + 1, Len(list))[k] = list[i + k]
  BY <1>1
<1>4. /\ shorter \in Seq(S) /\ Len(shorter) = Len(list) - 1
      /\ \A k \in 1..(Len(list) - 1) :
           shorter[k] = IF k < i THEN list[k] ELSE list[k + 1]
  <2> DEFINE before == SubSeq(list, 1, i - 1)
             after == SubSeq(list, i + 1, Len(list))
  <2>1. shorter = before \o after  BY DEF RemoveAt
  <2>2. /\ before \in Seq(S) /\ Len(before) = i - 1
        /\ after \in Seq(S) /\ Len(after) = Len(list) - i
    BY <1>2, <1>3
  <2> HIDE DEF before, after, shorter
  <2>3. /\ shorter \in Seq(S) /\ Len(shorter) = Len(before) + Len(after)
        /\ \A k \in 1..(Len(before) + Len(after)) :
             shorter[k] = IF k <= Len(before) THEN before[k] ELSE after[k - Len(before)]
    BY <2>1, <2>2, ConcatProperties
  <2>4. ASSUME NEW k \in 1..(Len(list) - 1)
        PROVE  shorter[k] = IF k < i THEN list[k] ELSE list[k + 1]
    <3>1. shorter[k] = IF k <= i - 1 THEN before[k] ELSE after[k - (i - 1)]
      BY <2>2, <2>3, <1>1
    <3>2. CASE k < i
      <4>1. k \in 1..(i - 1)  BY <3>2, <1>1
      <4> QED  BY <3>1, <3>2, <4>1, <1>1, <1>2 DEF before
    <3>3. CASE ~(k < i)
      <4>1. k - (i - 1) \in 1..(Len(list) - i)  BY <3>3, <1>1
      <4>2. i + (k - (i - 1)) = k + 1  BY <1>1
      <4>3. after[k - (i - 1)] = list[i + (k - (i - 1))]  BY <4>1, <1>3 DEF after
      <4>4. shorter[k] = after[k - (i - 1)]
        <5>1. ~(k <= i - 1)  BY <3>3, <1>1
        <5> QED  BY <3>1, <5>1
      <4> QED  BY <3>3, <4>2, <4>3, <4>4
    <3> QED  BY <3>2, <3>3
  <2> QED  BY <2>2, <2>3, <2>4, <1>1
<1>5. DOMAIN shorter = 1..(Len(list) - 1)
  BY <1>4, <1>1
<1> HIDE DEF shorter
<1>6. ASSUME NEW x \in ToSet(list), x # list[i] PROVE x \in ToSet(shorter)
  <2>1. PICK j \in 1..Len(list) : x = list[j]  BY <1>1 DEF ToSet
  <2>2. CASE j < i
    <3>1. j \in DOMAIN shorter /\ shorter[j] = x  BY <2>1, <2>2, <1>1, <1>4, <1>5
    <3> QED  BY <3>1 DEF ToSet
  <2>3. CASE j > i
    <3>1. j - 1 \in DOMAIN shorter /\ shorter[j - 1] = x  BY <2>1, <2>3, <1>1, <1>4, <1>5
    <3> QED  BY <3>1 DEF ToSet
  <2>4. j # i  BY <2>1, <1>6
  <2> QED  BY <2>2, <2>3, <2>4, <1>1
<1>7. ASSUME NEW k \in DOMAIN shorter
      PROVE  \E j \in DOMAIN list : /\ j # i /\ shorter[k] = list[j]
                                    /\ j = IF k < i THEN k ELSE k + 1
  BY <1>1, <1>4, <1>5
<1>8. ToSet(shorter) \subseteq ToSet(list)
  BY <1>7 DEF ToSet
<1>9. ASSUME IsInjective(list)
      PROVE  IsInjective(shorter) /\ list[i] \notin ToSet(shorter)
  <2>1. list[i] \notin ToSet(shorter)
    BY <1>7, <1>9 DEF ToSet, IsInjective
  <2>2. ASSUME NEW k \in DOMAIN shorter, NEW l \in DOMAIN shorter, shorter[k] = shorter[l]
        PROVE  k = l
    <3>1. PICK j \in DOMAIN list : shorter[k] = list[j] /\ j = IF k < i THEN k ELSE k + 1
      BY <1>7
    <3>2. PICK n \in DOMAIN list : shorter[l] = list[n] /\ n = IF l < i THEN l ELSE l + 1
      BY <1>7
    <3>3. j = n  BY <2>2, <3>1, <3>2, <1>9 DEF IsInjective
    <3>4. k \in Nat /\ l \in Nat  BY <1>5
    <3> QED  BY <3>1, <3>2, <3>3, <3>4, <1>1
  <2> QED  BY <2>1, <2>2 DEF IsInjective
<1> QED  BY <1>6, <1>8, <1>9 DEF shorter

\* The queue without its first prompt (Inbox.claim at a turn boundary).
LEMMA TailKeepsOthers ==
  ASSUME NEW S, NEW list \in Seq(S), list # <<>>
  PROVE  /\ Head(list) \in ToSet(list)
         /\ ToSet(list) \subseteq ToSet(Tail(list)) \cup {Head(list)}
         /\ ToSet(Tail(list)) \subseteq ToSet(list)
         /\ IsInjective(list) =>
              IsInjective(Tail(list)) /\ Head(list) \notin ToSet(Tail(list))
<1> DEFINE rest == Tail(list)
<1>1. /\ Head(list) = list[1] /\ Len(list) \in Nat /\ Len(list) # 0
      /\ rest \in Seq(S) /\ Len(rest) = Len(list) - 1
      /\ \A k \in 1..(Len(list) - 1) : rest[k] = list[k + 1]
  BY HeadTailProperties, EmptySeq
<1>2. DOMAIN list = 1..Len(list) /\ DOMAIN rest = 1..(Len(list) - 1)
  BY <1>1
<1> HIDE DEF rest
<1>3. Head(list) \in ToSet(list)
  BY <1>1, <1>2 DEF ToSet
<1>4. ASSUME NEW x \in ToSet(list), x # list[1] PROVE x \in ToSet(rest)
  <2>1. PICK j \in 1..Len(list) : x = list[j]  BY <1>2 DEF ToSet
  <2>2. j # 1  BY <2>1, <1>4
  <2>3. j - 1 \in DOMAIN rest /\ rest[j - 1] = x  BY <2>1, <2>2, <1>1, <1>2
  <2> QED  BY <2>3 DEF ToSet
<1>5. ASSUME NEW k \in DOMAIN rest
      PROVE  k \in Nat /\ k + 1 # 1 /\ k + 1 \in DOMAIN list /\ rest[k] = list[k + 1]
  BY <1>1, <1>2
<1>6. ToSet(rest) \subseteq ToSet(list)
  BY <1>5 DEF ToSet
<1>7. ASSUME IsInjective(list)
      PROVE  IsInjective(rest) /\ list[1] \notin ToSet(rest)
  <2>1. 1 \in DOMAIN list  BY <1>1, <1>2
  <2>2. list[1] \notin ToSet(rest)
    BY <2>1, <1>5, <1>7 DEF ToSet, IsInjective
  <2>3. ASSUME NEW k \in DOMAIN rest, NEW l \in DOMAIN rest, rest[k] = rest[l]
        PROVE  k = l
    <3>1. k + 1 = l + 1  BY <2>3, <1>5, <1>7 DEF IsInjective
    <3> QED  BY <3>1, <1>5
  <2> QED  BY <2>2, <2>3 DEF IsInjective
<1> QED  BY <1>1, <1>3, <1>4, <1>6, <1>7 DEF rest

\* Nothing is pending in an emptied inbox.
LEMMA EmptyList ==
  IsInjective(<<>>) /\ ToSet(<<>>) = {}
  <1>1. DOMAIN <<>> = {}  OBVIOUS
  <1> QED  BY <1>1 DEF IsInjective, ToSet

\* A new message enters one list, and was nowhere before.
LEMMA InsertConserves ==
  ASSUME TypeOK, MessagesConserved, NEW m \in Unsent, NEW list, Insert(m, list),
         UNCHANGED <<claimed, discarded>>
  PROVE  MessagesConserved' /\ Pending' = Pending \cup {m}
  <1>1. /\ m \in Message /\ m \notin Pending /\ m \notin claimed /\ m \notin discarded
        /\ nextTurn \in Seq(Message) /\ nextStep \in Seq(Message)
    BY DEF Unsent, TypeOK
  <1>2. m \notin ToSet(nextTurn) /\ m \notin ToSet(nextStep)
    BY <1>1 DEF Pending
  <1>3. CASE list = "next-turn"
    <2>1. nextTurn' = Append(nextTurn, m) /\ nextStep' = nextStep
      BY <1>3 DEF Insert
    <2>2. /\ ToSet(nextTurn') = ToSet(nextTurn) \cup {m} /\ IsInjective(nextTurn')
          /\ ToSet(nextStep') = ToSet(nextStep) /\ IsInjective(nextStep')
      BY <2>1, <1>1, <1>2, AppendKeepsInjective DEF MessagesConserved
    <2> QED  BY <2>2, <1>1, <1>2 DEF MessagesConserved, Pending
  <1>4. CASE list # "next-turn"
    <2>1. nextStep' = Append(nextStep, m) /\ nextTurn' = nextTurn
      BY <1>4 DEF Insert
    <2>2. /\ ToSet(nextStep') = ToSet(nextStep) \cup {m} /\ IsInjective(nextStep')
          /\ ToSet(nextTurn') = ToSet(nextTurn) /\ IsInjective(nextTurn')
      BY <2>1, <1>1, <1>2, AppendKeepsInjective DEF MessagesConserved
    <2> QED  BY <2>2, <1>1, <1>2 DEF MessagesConserved, Pending
  <1> QED  BY <1>3, <1>4

\* A clear discards what was pending, and perhaps a message just arriving.
LEMMA ClearConserves ==
  ASSUME MessagesConserved, NEW X \in SUBSET Unsent,
         nextTurn' = <<>>, nextStep' = <<>>, claimed' = claimed,
         discarded' = discarded \cup Pending \cup X
  PROVE  MessagesConserved'
  <1>1. X \cap claimed = {}  BY DEF Unsent
  <1>2. /\ ToSet(nextTurn') = {} /\ ToSet(nextStep') = {}
        /\ IsInjective(nextTurn') /\ IsInjective(nextStep')
    BY EmptyList
  <1> QED  BY <1>1, <1>2 DEF MessagesConserved, Pending

\* A claim moves its batch from the lists to the claimed messages.
LEMMA ClaimConserves ==
  ASSUME TypeOK, MessagesConserved, NEW list, Claim(list), UNCHANGED discarded
  PROVE  /\ MessagesConserved'
         /\ Pending \subseteq Pending' \cup Batch(list)
         /\ ordinary' = ordinary \cup (IF list = "next-turn" /\ nextTurn # <<>>
                                       THEN {Head(nextTurn)} ELSE {})
  <1>1. nextTurn \in Seq(Message) /\ nextStep \in Seq(Message)  BY DEF TypeOK
  <1>2. /\ ToSet(nextStep') = {} /\ IsInjective(nextStep')
    BY EmptyList DEF Claim
  <1>3. CASE list = "next-turn" /\ nextTurn # <<>>
    <2>1. nextTurn' = Tail(nextTurn) /\ Batch(list) = ToSet(nextStep) \cup {Head(nextTurn)}
      BY <1>3 DEF Claim, LeftQueued, Batch
    <2>2. /\ Head(nextTurn) \in ToSet(nextTurn)
          /\ ToSet(nextTurn) \subseteq ToSet(nextTurn') \cup {Head(nextTurn)}
          /\ ToSet(nextTurn') \subseteq ToSet(nextTurn)
          /\ IsInjective(nextTurn') /\ Head(nextTurn) \notin ToSet(nextTurn')
      BY <2>1, <1>1, <1>3, TailKeepsOthers DEF MessagesConserved
    <2>3. claimed' = claimed \cup ToSet(nextStep) \cup {Head(nextTurn)}
      BY <2>1 DEF Claim
    <2>4. MessagesConserved'
      BY <1>2, <2>2, <2>3 DEF MessagesConserved, Pending
    <2>5. Batch(list) \cap ToSet(nextTurn) = {Head(nextTurn)}
      BY <2>1, <2>2 DEF MessagesConserved
    <2>6. ordinary' = ordinary \cup {Head(nextTurn)}
      BY <2>5 DEF Claim
    <2>7. Pending \subseteq Pending' \cup Batch(list)
      BY <2>1, <2>2 DEF Pending
    <2> QED  BY <1>3, <2>4, <2>6, <2>7
  <1>4. CASE ~(list = "next-turn" /\ nextTurn # <<>>)
    <2>1. nextTurn' = nextTurn /\ Batch(list) = ToSet(nextStep)
      BY <1>4 DEF Claim, LeftQueued, Batch
    <2>2. ToSet(nextTurn') = ToSet(nextTurn) /\ IsInjective(nextTurn')
      BY <2>1 DEF MessagesConserved
    <2>3. claimed' = claimed \cup ToSet(nextStep)
      BY <2>1 DEF Claim
    <2>4. MessagesConserved'
      BY <1>2, <2>2, <2>3 DEF MessagesConserved, Pending
    <2>5. Batch(list) \cap ToSet(nextTurn) = {}
      BY <2>1 DEF MessagesConserved
    <2>6. ordinary' = ordinary
      BY <2>5 DEF Claim
    <2>7. Pending \subseteq Pending' \cup Batch(list)
      BY <2>1, <2>2 DEF Pending
    <2> QED  BY <1>4, <2>4, <2>6, <2>7
  <1> QED  BY <1>3, <1>4

\* A removal moves one message from its list to the discarded ones.
LEMMA RemoveConserves ==
  ASSUME TypeOK, MessagesConserved, NEW m, RemovePending(m)
  PROVE  MessagesConserved' /\ Pending \subseteq Pending' \cup {m}
  <1>1. nextTurn \in Seq(Message) /\ nextStep \in Seq(Message)  BY DEF TypeOK
  <1>2. discarded' = discarded \cup {m} /\ claimed' = claimed
    BY DEF RemovePending
  <1>3. ASSUME NEW i \in DOMAIN nextTurn, nextTurn[i] = m,
               nextTurn' = RemoveAt(nextTurn, i), nextStep' = nextStep
        PROVE  MessagesConserved' /\ Pending \subseteq Pending' \cup {m}
    <2>1. /\ ToSet(nextTurn) \subseteq ToSet(nextTurn') \cup {m}
          /\ ToSet(nextTurn') \subseteq ToSet(nextTurn)
          /\ IsInjective(nextTurn') /\ m \notin ToSet(nextTurn')
      BY <1>1, <1>3, RemovalKeepsOthers DEF MessagesConserved
    <2>2. ToSet(nextStep') = ToSet(nextStep) /\ IsInjective(nextStep')
      BY <1>3 DEF MessagesConserved
    <2>3. m \in ToSet(nextTurn)  BY <1>3 DEF ToSet
    <2> QED  BY <1>2, <2>1, <2>2, <2>3 DEF MessagesConserved, Pending
  <1>4. ASSUME NEW i \in DOMAIN nextStep, nextStep[i] = m,
               nextStep' = RemoveAt(nextStep, i), nextTurn' = nextTurn
        PROVE  MessagesConserved' /\ Pending \subseteq Pending' \cup {m}
    <2>1. /\ ToSet(nextStep) \subseteq ToSet(nextStep') \cup {m}
          /\ ToSet(nextStep') \subseteq ToSet(nextStep)
          /\ IsInjective(nextStep') /\ m \notin ToSet(nextStep')
      BY <1>1, <1>4, RemovalKeepsOthers DEF MessagesConserved
    <2>2. ToSet(nextTurn') = ToSet(nextTurn) /\ IsInjective(nextTurn')
      BY <1>4 DEF MessagesConserved
    <2>3. m \in ToSet(nextStep)  BY <1>4 DEF ToSet
    <2> QED  BY <1>2, <2>1, <2>2, <2>3 DEF MessagesConserved, Pending
  <1> QED  BY <1>3, <1>4 DEF RemovePending

\* A cancel or a disposal keeps the inbox or clears it.
LEMMA AbortConserves ==
  ASSUME MessagesConserved, NEW c, NEW keep \in BOOLEAN, Abort(c, keep), UNCHANGED claimed
  PROVE  MessagesConserved'
  <1>1. CASE keep
    BY <1>1 DEF Abort, inbox, MessagesConserved, Pending
  <1>2. CASE ~keep
    <2>1. discarded' = discarded \cup Pending \cup {}  BY <1>2 DEF Abort
    <2>2. {} \in SUBSET Unsent  OBVIOUS
    <2> QED  BY <1>2, <2>1, <2>2, ClearConserves DEF Abort
  <1> QED  BY <1>1, <1>2

\* Exactness as an inductive invariant: the turn that is about to claim its
\* prompt holds none yet, so the claim at its boundary is the only one.
InboxInv ==
  /\ MessagesConserved
  /\ OneOrdinaryPerTurn
  /\ at = "turn-start" => ordinary = {}

\* A restored inbox holds each of its messages once.
LEMMA InboxInit == Init => InboxInv
  <1> SUFFICES ASSUME Init PROVE InboxInv
    OBVIOUS
  <1>1. ASSUME NEW list \in RestoredLists PROVE IsInjective(list)
    <2>1. CASE list = <<>>  BY <2>1, EmptyList
    <2>2. CASE \E m \in Restored : list = <<m>>
      <3>1. DOMAIN list = {1}  BY <2>2
      <3> QED  BY <3>1 DEF IsInjective
    <2> QED  BY <2>1, <2>2 DEF RestoredLists
  <1>2. /\ IsInjective(nextTurn) /\ IsInjective(nextStep)
        /\ ToSet(nextTurn) \cap ToSet(nextStep) = {}
        /\ claimed = {} /\ discarded = {} /\ ordinary = {}
    BY <1>1 DEF Init
  <1> QED  BY <1>2 DEF InboxInv, MessagesConserved, OneOrdinaryPerTurn

\* The driver either leaves the turn or claims a batch; a claim at the turn
\* boundary is the first of its turn, a later one takes no prompt.
LEMMA ProposeInbox ==
  ASSUME TypeOK, InboxInv, NEW list, Propose(list), UNCHANGED discarded,
         at = "turn-start" \/ list = "next-step"
  PROVE  InboxInv'
  <1>1. /\ MessagesConserved'
        /\ ordinary' = ordinary \cup (IF list = "next-turn" /\ nextTurn # <<>>
                                      THEN {Head(nextTurn)} ELSE {})
    BY ClaimConserves DEF InboxInv, Propose
  <1>2. at' = "pre-step"  BY DEF Propose
  <1>3. OneOrdinaryPerTurn'
    BY <1>1 DEF InboxInv, OneOrdinaryPerTurn
  <1> QED  BY <1>1, <1>2, <1>3 DEF InboxInv

\* Exactness survives every step.
LEMMA InboxStep == TypeOK /\ InboxInv /\ [Next]_vars => InboxInv'
  <1> SUFFICES ASSUME TypeOK, InboxInv, [Next]_vars PROVE InboxInv'
    OBVIOUS
  <1> USE DEF driver, inbox, local, progress, counts, history
  <1>0. ASSUME MessagesConserved', UNCHANGED ordinary,
               at' = "turn-start" => at = "turn-start"
        PROVE  InboxInv'
    BY <1>0 DEF InboxInv, OneOrdinaryPerTurn
  <1>1. ASSUME NEW r, NEW latch, NEW afterAbort, WakeDriver(r, latch, afterAbort)
        PROVE  at' = "turn-start" => at = "turn-start"
    BY <1>1 DEF WakeDriver, StartDriver
  <1>2. ASSUME NEW m \in Unsent, NEW list \in {"next-turn", "next-step"},
               NEW wakeup \in BOOLEAN, Send(m, list, wakeup)
        PROVE  InboxInv'
    <2>1. \E l : Insert(m, l)  BY <1>2 DEF Send
    <2>2. UNCHANGED <<claimed, discarded, ordinary>>  BY <1>2 DEF Send
    <2>3. MessagesConserved'  BY <2>1, <2>2, InsertConserves DEF InboxInv
    <2>4. at' = "turn-start" => at = "turn-start"
      BY <1>1, <1>2 DEF Send
    <2> QED  BY <1>0, <2>2, <2>3, <2>4
  <1>3. ASSUME NEW m \in Unsent, NEW list \in {"next-turn", "next-step"},
               NEW wakeup \in BOOLEAN, NEW c \in Causes, NEW keep \in BOOLEAN,
               SendCancelled(m, list, wakeup, c, keep)
        PROVE  InboxInv'
    <2>1. UNCHANGED <<claimed, ordinary>>  BY <1>3 DEF SendCancelled
    <2>2. at' = "turn-start" => at = "turn-start"
      BY <1>1, <1>3 DEF SendCancelled
    <2>3. MessagesConserved'
      <3>1. CASE keep
        <4>1. \E l : Insert(m, l)  BY <1>3, <3>1 DEF SendCancelled
        <4>2. UNCHANGED discarded  BY <1>3, <3>1 DEF SendCancelled
        <4> QED  BY <2>1, <4>1, <4>2, InsertConserves DEF InboxInv
      <3>2. CASE ~keep
        <4>1. /\ nextTurn' = <<>> /\ nextStep' = <<>>
              /\ discarded' = discarded \cup Pending \cup {m}
          BY <1>3, <3>2 DEF SendCancelled
        <4>2. {m} \in SUBSET Unsent  OBVIOUS
        <4> QED  BY <2>1, <4>1, <4>2, ClearConserves DEF InboxInv
      <3> QED  BY <3>1, <3>2
    <2> QED  BY <1>0, <2>1, <2>2, <2>3
  <1>4. ASSUME Dispose \/ \E c \in Causes, keep \in BOOLEAN : Cancel(c, keep)
        PROVE  InboxInv'
    <2>1. \E c : \E keep \in BOOLEAN : Abort(c, keep)  BY <1>4 DEF Dispose, Cancel
    <2>2. UNCHANGED <<claimed, ordinary, at>>  BY <1>4 DEF Dispose, Cancel
    <2>3. MessagesConserved'  BY <2>1, <2>2, AbortConserves DEF InboxInv
    <2> QED  BY <1>0, <2>2, <2>3
  <1>5. ASSUME NEW m \in Pending, RemovePending(m)
        PROVE  InboxInv'
    <2>1. MessagesConserved'  BY <1>5, RemoveConserves DEF InboxInv
    <2>2. UNCHANGED <<ordinary, at>>  BY <1>5 DEF RemovePending
    <2> QED  BY <1>0, <2>1, <2>2
  <1>6. ASSUME NEW m \in Unsent, AcceptContext(m)
        PROVE  InboxInv'
    <2>1. Insert(m, "next-step") /\ UNCHANGED <<claimed, discarded, ordinary, at>>
      BY <1>6 DEF AcceptContext
    <2>2. MessagesConserved'  BY <2>1, InsertConserves DEF InboxInv
    <2> QED  BY <1>0, <2>1, <2>2
  <1>7. ASSUME OpenTurn \/ AfterStep \/ Stop
        PROVE  InboxInv'
    <2>1. /\ UNCHANGED discarded
          /\ \/ at = "turn-start" /\ Propose(target)
             \/ Propose("next-step")
             \/ UNCHANGED <<nextTurn, nextStep, claimed, ordinary>>
                /\ at' \in {"turn-end", "failed", "stopping", "settled"}
      BY <1>7 DEF OpenTurn, AfterStep, Stop, LaterList, Catch, CloseTurn, RecordEnd,
         LeaveTurnOpen
    <2>2. CASE UNCHANGED <<nextTurn, nextStep, claimed, ordinary>>
               /\ at' \in {"turn-end", "failed", "stopping", "settled"}
      BY <2>1, <2>2 DEF InboxInv, MessagesConserved, OneOrdinaryPerTurn, Pending
    <2>3. CASE at = "turn-start" /\ Propose(target)
      BY <2>1, <2>3, ProposeInbox
    <2>4. CASE Propose("next-step")
      BY <2>1, <2>4, ProposeInbox
    <2> QED  BY <2>1, <2>2, <2>3, <2>4
  <1>8. ASSUME BeginTurn PROVE InboxInv'
    BY <1>8 DEF BeginTurn, InboxInv, MessagesConserved, OneOrdinaryPerTurn, Pending
  <1>9. ASSUME UNCHANGED <<nextTurn, nextStep, claimed, discarded, ordinary>>,
               at' = "turn-start" => at = "turn-start"
        PROVE  InboxInv'
    BY <1>9 DEF InboxInv, MessagesConserved, OneOrdinaryPerTurn, Pending
  <1>10. ASSUME \/ StartMaintenance \/ EndMaintenance \/ DisposeRefused \/ Detach \/ Rest
                \/ UNCHANGED vars \/ RefuseTurn \/ VetoTurn \/ PreStepFails
                \/ \E d \in {"reject", "empty", "enter"} : PreStepDecides(d)
                \/ RejectStep \/ SkipStep \/ EnterStep \/ VetoStep \/ LeaveStepOpen
                \/ StepThrows \/ Request \/ RecordAnswer
                \/ \E f \in {"completed", "max-tokens", "calls"} : CompleteAnswer(f)
                \/ \E concluded \in BOOLEAN : ToolsDone(concluded)
                \/ CloseStep \/ StoppingFails \/ CloseFailedTurn \/ NextTurn \/ LastTurn
                \/ Retire
         PROVE  /\ UNCHANGED <<nextTurn, nextStep, claimed, discarded, ordinary>>
                /\ at' = "turn-start" => at = "turn-start"
    BY <1>10 DEF StartMaintenance, EndMaintenance, DisposeRefused, Detach, Rest, vars,
       RefuseTurn, VetoTurn, PreStepFails, PreStepDecides, RejectStep, SkipStep, EnterStep,
       VetoStep, LeaveStepOpen,
       StepThrows, Request, RecordAnswer, CompleteAnswer, ToolsDone, CloseStep, StoppingFails,
       CloseFailedTurn,
       NextTurn, LastTurn, Retire, Settle, StartDriver, Catch, CloseTurn, RecordEnd,
       LeaveTurnOpen
  <1> QED
    BY <1>2, <1>3, <1>4, <1>5, <1>6, <1>7, <1>8, <1>9, <1>10 DEF Next, Driver, Environment

\* Every message is pending once, or claimed, or discarded, and a turn takes one
\* prompt however much steering and injected context joins it.
THEOREM InboxStaysExact == Spec => []InboxIsExact
  <1>1. InboxInv => InboxIsExact  BY DEF InboxInv, InboxIsExact
  <1> QED  BY <1>1, TypeInit, TypeStep, InboxInit, InboxStep, PTL DEF Spec

-----------------------------------------------------------------------------
(* What a turn was, and that disposal began.                               *)

\* Only the start of another turn, or the driver's retirement, forgets that a
\* step hit the token ceiling: no later step of the turn and no way of closing
\* it reports a completion.
THEOREM TokenCeilingSticks == Spec => MaxTokensSticky
  <1>1. [Next]_vars => [turnEnds = "max-tokens" /\ at # "kick" => turnEnds' # "completed"]_vars
    <2> SUFFICES ASSUME [Next]_vars, turnEnds = "max-tokens", at # "kick"
                 PROVE  turnEnds' # "completed"
      OBVIOUS
    <2> USE DEF driver, inbox, local, progress, counts, history
    <2>1. CASE UNCHANGED turnEnds
      BY <2>1
    <2>2. CASE OpenTurn \/ PreStepFails \/ RejectStep \/ SkipStep \/ EnterStep
                        \/ VetoStep \/ LeaveStepOpen \/ AfterStep
               \/ StoppingFails \/ Stop \/ CloseFailedTurn
      BY <2>2 DEF OpenTurn, PreStepFails, RejectStep, SkipStep, EnterStep, VetoStep,
         LeaveStepOpen, AfterStep,
         StoppingFails, Stop, CloseFailedTurn, Catch, CloseTurn, RecordEnd, LeaveTurnOpen,
         Propose
    <2>3. CASE BeginTurn \/ CloseStep \/ Retire
      BY <2>3 DEF BeginTurn, CloseStep, Outcome, Retire
    <2>4. ASSUME \/ \E m \in Unsent :
                      \/ \E list \in {"next-turn", "next-step"}, wakeup \in BOOLEAN :
                           \/ Send(m, list, wakeup)
                           \/ \E c \in Causes, keep \in BOOLEAN :
                                SendCancelled(m, list, wakeup, c, keep)
                      \/ AcceptContext(m)
                 \/ \E m \in Pending : RemovePending(m)
                 \/ \E c \in Causes, keep \in BOOLEAN : Cancel(c, keep)
                 \/ StartMaintenance \/ EndMaintenance \/ Dispose \/ DisposeRefused
                 \/ Detach \/ Rest \/ UNCHANGED vars \/ RefuseTurn \/ VetoTurn
                 \/ \E d \in {"reject", "empty", "enter"} : PreStepDecides(d)
                 \/ StepThrows \/ Request \/ RecordAnswer
                 \/ \E f \in {"completed", "max-tokens", "calls"} : CompleteAnswer(f)
                 \/ \E concluded \in BOOLEAN : ToolsDone(concluded)
                 \/ NextTurn \/ LastTurn
          PROVE  UNCHANGED turnEnds
      <3>1. CASE \E m \in Unsent :
                   \/ \E list \in {"next-turn", "next-step"}, wakeup \in BOOLEAN :
                        \/ Send(m, list, wakeup)
                        \/ \E c \in Causes, keep \in BOOLEAN :
                             SendCancelled(m, list, wakeup, c, keep)
                   \/ AcceptContext(m)
        BY <3>1 DEF Send, SendCancelled, AcceptContext
      <3>2. CASE \/ \E m \in Pending : RemovePending(m)
                 \/ \E c \in Causes, keep \in BOOLEAN : Cancel(c, keep)
                 \/ StartMaintenance \/ EndMaintenance \/ Dispose \/ DisposeRefused
                 \/ Detach \/ Rest \/ UNCHANGED vars
        BY <3>2 DEF RemovePending, Cancel, StartMaintenance, EndMaintenance, Dispose,
           DisposeRefused, Detach, Rest, vars
      <3>3. CASE \/ RefuseTurn \/ VetoTurn \/ StepThrows \/ Request \/ RecordAnswer
                 \/ NextTurn \/ LastTurn
                 \/ \E d \in {"reject", "empty", "enter"} : PreStepDecides(d)
                 \/ \E f \in {"completed", "max-tokens", "calls"} : CompleteAnswer(f)
                 \/ \E concluded \in BOOLEAN : ToolsDone(concluded)
        BY <3>3 DEF RefuseTurn, VetoTurn, StepThrows, Request, NextTurn, LastTurn,
           PreStepDecides, RecordAnswer, CompleteAnswer, ToolsDone
      <3> QED  BY <2>4, <3>1, <3>2, <3>3
    <2> QED  BY <2>1, <2>2, <2>3, <2>4 DEF Next, Driver, Environment
  <1> QED  BY <1>1, PTL DEF Spec, MaxTokensSticky

\* Once disposal began the driver is gone, or aborted with no wake to replay.
\* What the tools of the step under way still stage cannot open a turn: the
\* abort throws that turn away before it closes.
ClosingInv ==
  life # "live" /\ kind # "idle" =>
    /\ Aborted /\ ~wakeRequested
    /\ HasPending => \/ at \in {"tools", "step-done", "step-end", "settled"}
                     \/ at = "turn-end" /\ threw

\* Disposal has not begun when the agent is created.
LEMMA ClosingInit == Init => ClosingInv
  BY DEF Init, ClosingInv

\* Nothing but disposal itself starts closing the agent, and no step undoes it.
LEMMA ClosingStep ==
  ASSUME "observer-dispose" \notin Admitted, "late-send" \notin Admitted
  PROVE  TypeOK /\ Placed /\ ClosingInv /\ [Next]_vars => ClosingInv'
  <1> SUFFICES ASSUME TypeOK, Placed, ClosingInv, [Next]_vars,
                      life' # "live", kind' # "idle"
               PROVE  /\ Aborted' /\ ~wakeRequested'
                      /\ HasPending' => \/ at' \in {"tools", "step-done", "step-end", "settled"}
                                        \/ at' = "turn-end" /\ threw'
    BY DEF ClosingInv
  <1> USE DEF driver, inbox, local, progress, counts, history, Aborted, HasPending
  <1>1. CASE Dispose
    BY <1>1 DEF Dispose, Abort, FirstCause, LatchAfterCancel, Placed
  <1>2. CASE DisposeRefused \/ Detach \/ StartMaintenance
             \/ \E c \in Causes, keep \in BOOLEAN : Cancel(c, keep)
    BY <1>2 DEF DisposeRefused, Detach, Quiescent, StartMaintenance, Cancel
  <1>3. ASSUME NEW m \in Unsent, NEW list \in {"next-turn", "next-step"},
               NEW wakeup \in BOOLEAN, NEW c \in Causes, NEW keep \in BOOLEAN,
               Send(m, list, wakeup) \/ SendCancelled(m, list, wakeup, c, keep)
        PROVE  FALSE
    BY <1>3 DEF Send, SendCancelled, MaySend
  <1>4. ASSUME NEW m \in Unsent, NEW list \in {"next-turn", "next-step"},
               NEW wakeup \in BOOLEAN, Send(m, list, wakeup)
        PROVE  FALSE
    BY <1>4 DEF Send, MaySend
  <1>5. CASE Rest \/ UNCHANGED vars
    BY <1>5 DEF Rest, vars, ClosingInv
  <1>7. ASSUME NEW m \in Pending, RemovePending(m)
        PROVE  /\ UNCHANGED <<kind, reason, wakeRequested, life, at, threw>>
               /\ HasPending
    <2>1. HasPending
      <3>1. DOMAIN <<>> = {}  OBVIOUS
      <3> QED  BY <1>7, <3>1 DEF RemovePending
    <2> QED  BY <1>7, <2>1 DEF RemovePending
  <1>8. ASSUME NEW m \in Pending, RemovePending(m)
        PROVE  /\ Aborted' /\ ~wakeRequested'
               /\ HasPending' => \/ at' \in {"tools", "step-done", "step-end", "settled"}
                                 \/ at' = "turn-end" /\ threw'
    BY <1>7, <1>8 DEF ClosingInv
  <1>9. CASE \E m \in Unsent : AcceptContext(m)
    BY <1>9 DEF AcceptContext, ClosingInv
  <1>10. CASE EndMaintenance \/ Retire
    <2>1. ~wakeRequested
      <3>1. life # "live" /\ kind # "idle"
        BY <1>10 DEF EndMaintenance, Retire, Placed
      <3> QED  BY <3>1 DEF ClosingInv
    <2>2. Settle /\ ~Replays
      BY <1>10, <2>1 DEF EndMaintenance, Retire, Replays
    <2> QED  BY <2>2 DEF Settle
  <1>11. CASE Driver /\ ~Retire
    <2>1. /\ UNCHANGED life /\ UNCHANGED kind /\ kind = "running"
      BY <1>11 DEF Driver, RefuseTurn, BeginTurn, VetoTurn, OpenTurn, PreStepFails,
         PreStepDecides, RejectStep, SkipStep, EnterStep, VetoStep, LeaveStepOpen, StepThrows,
         Request, RecordAnswer, CompleteAnswer, ToolsDone, CloseStep, AfterStep, StoppingFails, Stop, CloseFailedTurn, NextTurn,
         LastTurn, Placed
    <2>2. /\ Aborted /\ ~wakeRequested
          /\ HasPending => \/ at \in {"tools", "step-done", "step-end", "settled"}
                           \/ at = "turn-end" /\ threw
      BY <2>1 DEF ClosingInv
    <2>3. CASE RefuseTurn \/ BeginTurn \/ VetoTurn \/ NextTurn \/ LastTurn
      BY <2>2, <2>3 DEF RefuseTurn, BeginTurn, MayBegin, VetoTurn, NextTurn, LastTurn
    <2>4. CASE OpenTurn \/ PreStepFails \/ RejectStep \/ SkipStep \/ EnterStep
                        \/ VetoStep \/ LeaveStepOpen
               \/ StoppingFails \/ Stop \/ CloseFailedTurn
      BY <2>2, <2>4 DEF OpenTurn, PreStepFails, RejectStep, SkipStep, EnterStep, VetoStep,
         LeaveStepOpen, MayOpen,
         StoppingFails, Stop, CloseFailedTurn, Catch, CloseTurn, RecordEnd, LeaveTurnOpen
    <2>5. CASE AfterStep
      BY <2>2, <2>5 DEF AfterStep, Catch, CloseTurn, RecordEnd, LeaveTurnOpen
    <2>6. CASE \/ StepThrows \/ Request \/ RecordAnswer \/ CloseStep
               \/ \E d \in {"reject", "empty", "enter"} : PreStepDecides(d)
               \/ \E f \in {"completed", "max-tokens", "calls"} : CompleteAnswer(f)
               \/ \E concluded \in BOOLEAN : ToolsDone(concluded)
      BY <2>2, <2>6 DEF StepThrows, Request, CloseStep, PreStepDecides, RecordAnswer,
         CompleteAnswer, ToolsDone
    <2> QED  BY <1>11, <2>3, <2>4, <2>5, <2>6 DEF Driver
  <1> QED
    BY <1>1, <1>2, <1>3, <1>4, <1>5, <1>8, <1>9, <1>10, <1>11
    DEF Next, Environment

\* Whoever acts on an idle agent, nothing is appended before its driver moves.
LEMMA IdleAppendsNothing ==
  ASSUME Placed, kind = "idle", [Next]_vars
  PROVE  UNCHANGED trace
  <1> USE DEF driver, inbox, local, progress, counts, history
  <1>1. at = "off"  BY DEF Placed
  <1>2. CASE Driver
    BY <1>1, <1>2 DEF Driver, RefuseTurn, BeginTurn, VetoTurn, OpenTurn, PreStepFails,
       PreStepDecides, RejectStep, SkipStep, EnterStep, VetoStep, LeaveStepOpen, StepThrows,
       Request, RecordAnswer, CompleteAnswer, ToolsDone, CloseStep, AfterStep, StoppingFails, Stop, CloseFailedTurn, NextTurn,
       LastTurn, Retire
  <1>3. CASE ~Driver
    BY <1>3, EnvironmentIsSilent DEF Next
  <1> QED  BY <1>2, <1>3

\* What a turn was and that disposal began are never forgotten, unless disposal
\* is asked for by an append observer or input may still arrive while the driver
\* is being aborted.
THEOREM TurnsStayHonest ==
  ASSUME "observer-dispose" \notin Admitted, "late-send" \notin Admitted
  PROVE  Spec => TurnsAreHonest
  <1>1. TypeOK /\ Placed /\ ClosingInv /\ [Next]_vars =>
          [life # "live" => trace'.openTurn \in {0, trace.openTurn}]_vars
    <2> SUFFICES ASSUME TypeOK, Placed, ClosingInv, [Next]_vars, life # "live"
                 PROVE  trace'.openTurn \in {0, trace.openTurn}
      OBVIOUS
    <2>1. CASE kind = "idle"
      BY <2>1, IdleAppendsNothing
    <2>2. CASE kind # "idle"
      <3>1. Aborted  BY <2>2 DEF ClosingInv
      <3>2. trace \in Log!Trace  BY DEF TypeOK
      <3>3. /\ Log!AfterTurnEnd(trace, turn).openTurn = 0
            /\ Log!AfterStepEnd(trace, turn, step).openTurn = trace.openTurn
            /\ Log!AfterMessage(trace, turn, step).openTurn = trace.openTurn
        BY <3>2 DEF Log!Trace, Log!AfterTurnEnd, Log!AfterStepEnd, Log!AfterMessage, Log!None
      <3>4. CASE Driver
        BY <3>1, <3>3, <3>4, AbortedMoves
      <3>5. CASE Environment \/ EndMaintenance \/ Detach \/ Rest \/ UNCHANGED vars
        BY <3>5, EnvironmentIsSilent
      <3> QED  BY <3>4, <3>5 DEF Next
    <2> QED  BY <2>1, <2>2
  <1>2. Spec => [](TypeOK /\ Placed /\ ClosingInv)
    BY TypeInit, TypeStep, PlacedInit, PlacedStep, ClosingInit, ClosingStep, PTL DEF Spec
  <1>3. Spec => DisposalOpensNoTurn
    BY <1>1, <1>2, PTL DEF Spec, DisposalOpensNoTurn
  <1> QED  BY <1>3, TokenCeilingSticks DEF TurnsAreHonest

-----------------------------------------------------------------------------
(* Promised wakes.                                                         *)

\* Who still owes a wake, place by place: behind maintenance or an abort the
\* latch remembers it; on the ways out of a turn that do not look at the inbox
\* nothing is owed any more; an agent that is being disposed of owes nothing.
WakeInv ==
  /\ owed \subseteq Pending
  /\ kind = "idle" => owed = {}
  /\ life = "disposing" \/ reason = "disposed" => owed = {}
  /\ life = "live" => reason # "disposed"
  /\ (kind = "maintenance" \/ Aborted) /\ owed # {} => wakeRequested
  /\ ~Aborted /\ (at = "settled" \/ (at = "turn-end" /\ (threw \/ stops))) => owed = {}
  /\ at = "decided" /\ decision = "empty" /\ step = 0 => owed = {}

\* Nothing is owed when the agent is created.
LEMMA WakeInit == Init => WakeInv
  BY DEF Init, WakeInv, Aborted

\* A step after which nothing is owed.
LEMMA NothingOwed ==
  ASSUME owed' = {}, life' = "live" => reason' # "disposed"
  PROVE  WakeInv'
  BY DEF WakeInv

\* Waking input that arrives where it may starts the driver, is seen by it, or
\* is remembered.
LEMMA WakingOwes ==
  ASSUME TypeOK, Placed, WakeInv,
         NEW r \in {"none", "disposed"} \cup Causes, NEW latch \in BOOLEAN,
         WakeDriver(r, latch, WakesAfterAbort(TRUE)),
         at \notin Publishing, life = "live", UNCHANGED <<life, decision, threw, stops>>,
         ~(at = "settled" /\ ~Aborted), ~(at = "decided" /\ decision = "empty" /\ step = 0),
         r # "disposed",
         r = reason \/ kind # "running", kind = "idle" => r = reason,
         owed' \subseteq Pending'
  PROVE  WakeInv'
  <1>1. CASE kind = "idle"
    BY <1>1 DEF WakeDriver, StartDriver, WakeInv, Aborted
  <1>2. CASE kind # "idle"
    <2>1. /\ kind' = kind /\ at' = at /\ reason' = r /\ step' = step
          /\ wakeRequested' = (latch \/ Latches(kind, r, WakesAfterAbort(TRUE)))
      BY <1>2 DEF WakeDriver
    <2>2. kind = "maintenance" => wakeRequested'
      BY <2>1 DEF Latches
    <2>3. kind = "running" /\ Aborted => wakeRequested'
      BY <2>1 DEF Latches, WakesAfterAbort
    <2>4. kind' = "maintenance" \/ Aborted' => wakeRequested'
      BY <1>2, <2>1, <2>2, <2>3 DEF Aborted, TypeOK
    <2>5. at' # "turn-end"  BY <2>1 DEF Publishing
    <2>6. ~(at' = "settled" /\ ~Aborted') /\ ~(at' = "decided" /\ decision' = "empty" /\ step' = 0)
      <3>1. kind = "maintenance" => at # "settled"  BY DEF Placed
      <3>2. kind = "running" => r = reason  OBVIOUS
      <3>3. kind \in {"maintenance", "running"}  BY <1>2 DEF TypeOK
      <3> QED  BY <2>1, <3>1, <3>2, <3>3 DEF Aborted
    <2> QED  BY <1>2, <2>1, <2>4, <2>5, <2>6 DEF WakeInv
  <1> QED  BY <1>1, <1>2

\* The settlement of an activity replays what is owed.
LEMMA SettleOwes ==
  ASSUME TypeOK, WakeInv, Settle, UNCHANGED <<nextTurn, nextStep, life, owed>>,
         kind = "maintenance" \/ at = "settled"
  PROVE  WakeInv'
  <1>1. owed \subseteq Pending /\ Pending' = Pending
    BY DEF WakeInv, Pending
  <1>2. reason' = "none" /\ at' \in {"kick", "off"}
    BY DEF Settle, StartDriver
  <1>3. CASE Replays
    <2>1. kind' = "running" /\ at' = "kick"  BY <1>3 DEF Settle, StartDriver
    <2> QED  BY <1>1, <1>2, <2>1 DEF WakeInv, Aborted
  <1>4. CASE ~Replays
    <2>1. HasPending \/ Pending = {}
      BY EmptyList DEF HasPending, Pending
    <2>2. owed # {} => wakeRequested
      BY DEF WakeInv
    <2>3. owed = {}
      BY <1>1, <1>4, <2>1, <2>2 DEF Replays
    <2> QED  BY <1>2, <2>3, NothingOwed
  <1> QED  BY <1>3, <1>4

\* The driver's own steps take messages out of what is owed or park them where
\* the turn ends without a further look at the inbox.
LEMMA DriverOwes ==
  ASSUME TypeOK, Placed, WakeInv, UNCHANGED <<kind, reason, wakeRequested, life>>,
         kind = "running",
         owed' \subseteq owed, owed' \subseteq Pending',
         ~Aborted /\ (at' = "settled" \/ (at' = "turn-end" /\ (threw' \/ stops'))) => owed' = {},
         at' = "decided" /\ decision' = "empty" /\ step' = 0 => owed' = {}
  PROVE  WakeInv'
  BY DEF WakeInv, Aborted

\* Promises survive every step, unless waking input may come where the driver
\* looks at the inbox no more.
LEMMA WakeStep ==
  ASSUME "settled-send" \notin Admitted, "empty-turn" \notin Admitted
  PROVE  TypeOK /\ Placed /\ InboxInv /\ WakeInv /\ [Next]_vars => WakeInv'
  <1> SUFFICES ASSUME TypeOK, Placed, InboxInv, WakeInv, [Next]_vars PROVE WakeInv'
    OBVIOUS
  <1> USE DEF driver, inbox, local, progress, counts, history
  <1>0. "settled-send" \notin Admitted /\ "empty-turn" \notin Admitted
    OBVIOUS
  <1>1. ASSUME NEW m \in Unsent, NEW list \in {"next-turn", "next-step"},
               NEW wakeup \in BOOLEAN, Send(m, list, wakeup)
        PROVE  WakeInv'
    <2>0. CASE life # "live"
      <3>1. life = "disposing" /\ owed' = owed /\ life' = life
        BY <1>1, <2>0 DEF Send, MaySend
      <3>2. owed' = {}  BY <3>1 DEF WakeInv
      <3> QED  BY <3>1, <3>2, NothingOwed
    <2> SUFFICES ASSUME life = "live" PROVE WakeInv'
      BY <2>0
    <2>1. Pending' = Pending \cup {m}
      <3>1. \E l : Insert(m, l)  BY <1>1 DEF Send
      <3>2. UNCHANGED <<claimed, discarded>>  BY <1>1 DEF Send
      <3> QED  BY <3>1, <3>2, InsertConserves DEF InboxInv
    <2>2. /\ life = "live" /\ at \notin Publishing
          /\ UNCHANGED <<life, decision, threw, stops>>
      BY <1>1 DEF Send, MaySend
    <2>3. CASE wakeup
      <3>1. WakeDriver(reason, wakeRequested, WakesAfterAbort(TRUE))
        BY <1>1, <2>3 DEF Send
      <3>2. ~(at = "settled" /\ ~Aborted) /\ ~(at = "decided" /\ decision = "empty" /\ step = 0)
        BY <1>0, <1>1, <2>3 DEF Send, MaySend
      <3>3. reason \in {"none", "disposed"} \cup Causes /\ wakeRequested \in BOOLEAN
        BY DEF TypeOK
      <3>4. reason # "disposed"  BY <2>2 DEF WakeInv
      <3>5. owed' \subseteq Pending'
        BY <1>1, <2>1 DEF Send, WakeInv
      <3> QED  BY <2>2, <3>1, <3>2, <3>3, <3>4, <3>5, WakingOwes
    <2>4. CASE ~wakeup
      <3>1. UNCHANGED <<kind, reason, wakeRequested, step, at, owed>>
        BY <1>1, <2>4 DEF Send
      <3> QED  BY <2>1, <2>2, <3>1 DEF WakeInv, Aborted
    <2> QED  BY <2>3, <2>4
  <1>2. ASSUME NEW m \in Unsent, NEW list \in {"next-turn", "next-step"},
               NEW wakeup \in BOOLEAN, NEW c \in Causes, NEW keep \in BOOLEAN,
               SendCancelled(m, list, wakeup, c, keep)
        PROVE  WakeInv'
    <2> DEFINE r == IF kind = "idle" THEN reason ELSE FirstCause(reason, c)
    <2>1. /\ life = "live" /\ at \notin Publishing
          /\ UNCHANGED <<life, decision, threw, stops>>
      BY <1>2 DEF SendCancelled, MaySend
    <2>2. r \in {"none", "disposed"} \cup Causes /\ r # "disposed"
      <3>1. c # "disposed" /\ reason # "disposed"
        BY <2>1, SetsAssumption DEF WakeInv
      <3> QED  BY <3>1 DEF TypeOK, FirstCause
    <2>3. LatchAfterCancel(keep) \in BOOLEAN /\ WakesAfterAbort(FALSE) = FALSE
      BY DEF LatchAfterCancel, WakesAfterAbort
    <2>4. reason' # "disposed"
      <3>1. CASE wakeup
        BY <1>2, <2>2, <3>1 DEF SendCancelled, WakeDriver, StartDriver
      <3>2. CASE ~wakeup
        BY <1>2, <2>2, <3>2 DEF SendCancelled
      <3> QED  BY <3>1, <3>2
    <2>5. CASE ~keep \/ (kind = "running" /\ ~Aborted)
      <3>1. owed' = {}  BY <1>2, <2>5 DEF SendCancelled
      <3> QED  BY <2>4, <3>1, NothingOwed
    <2>6. CASE keep /\ ~(kind = "running" /\ ~Aborted)
      <3>1. Pending' = Pending \cup {m}
        <4>1. \E l : Insert(m, l)  BY <1>2, <2>6 DEF SendCancelled
        <4>2. UNCHANGED <<claimed, discarded>>  BY <1>2, <2>6 DEF SendCancelled
        <4> QED  BY <4>1, <4>2, InsertConserves DEF InboxInv
      <3>2. owed' = IF wakeup THEN owed \cup {m} ELSE owed
        BY <1>2, <2>6 DEF SendCancelled
      <3>3. owed' \subseteq Pending'
        BY <3>1, <3>2 DEF WakeInv
      <3>4. kind = "running" => r = reason
        BY <2>6 DEF FirstCause, Aborted
      <3>5. CASE wakeup
        <4>1. WakeDriver(r, LatchAfterCancel(keep), WakesAfterAbort(TRUE))
          BY <1>2, <3>5 DEF SendCancelled
        <4>2. ~(at = "settled" /\ ~Aborted) /\ ~(at = "decided" /\ decision = "empty" /\ step = 0)
          BY <1>0, <1>2, <3>5 DEF SendCancelled, MaySend
        <4>3. kind = "idle" => r = reason  OBVIOUS
        <4> HIDE DEF r
        <4> QED  BY <2>1, <2>2, <2>3, <3>3, <3>4, <4>1, <4>2, <4>3, WakingOwes
      <3>6. CASE ~wakeup
        <4>1. /\ UNCHANGED <<kind, step, at, owed>> /\ reason' = r
              /\ wakeRequested' = LatchAfterCancel(keep)
          BY <1>2, <3>2, <3>6 DEF SendCancelled
        <4>2. wakeRequested => wakeRequested'
          BY <2>6, <4>1 DEF LatchAfterCancel
        <4>3. CASE kind = "idle"
          <5>1. owed' = {}  BY <4>1, <4>3 DEF WakeInv
          <5> QED  BY <2>4, <5>1, NothingOwed
        <4>4. CASE kind # "idle"
          <5>1. Aborted => Aborted'
            BY <4>1, <4>4 DEF FirstCause, Aborted
          <5>2. kind = "maintenance" \/ Aborted
            BY <2>6, <4>4 DEF TypeOK
          <5>3. kind = "maintenance" => at = "off"  BY DEF Placed
          <5> QED  BY <2>1, <2>4, <3>3, <4>1, <4>2, <4>4, <5>1, <5>2, <5>3 DEF WakeInv
        <4> QED  BY <4>3, <4>4
      <3> QED  BY <3>5, <3>6
    <2> QED  BY <2>5, <2>6
  <1>3. ASSUME NEW c \in Causes, NEW keep \in BOOLEAN, Cancel(c, keep)
        PROVE  WakeInv'
    <2>1. /\ life = "live" /\ Abort(c, keep)
          /\ UNCHANGED <<kind, step, at, life, decision, threw, stops>>
      BY <1>3 DEF Cancel
    <2>2. reason' # "disposed"
      <3>1. c # "disposed" /\ reason # "disposed"
        BY <2>1, SetsAssumption DEF WakeInv
      <3> QED  BY <2>1, <3>1 DEF Abort, FirstCause
    <2>3. CASE ~keep \/ (kind = "running" /\ ~Aborted)
      <3>1. owed' = {}  BY <2>1, <2>3 DEF Abort
      <3> QED  BY <2>2, <3>1, NothingOwed
    <2>4. CASE keep /\ (kind # "running" \/ Aborted)
      <3>1. UNCHANGED <<nextTurn, nextStep, owed>>
        BY <2>1, <2>4 DEF Abort
      <3>2. Pending' = Pending  BY <3>1 DEF Pending
      <3>3. wakeRequested => wakeRequested'
        BY <2>1, <2>4 DEF Abort, LatchAfterCancel
      <3>4. CASE kind = "idle"
        <4>1. owed' = {}  BY <3>1, <3>4 DEF WakeInv
        <4> QED  BY <2>2, <4>1, NothingOwed
      <3>5. CASE kind # "idle"
        <4>1. Aborted => Aborted'
          BY <2>1, <3>5 DEF Abort, FirstCause, Aborted
        <4>2. kind = "maintenance" \/ Aborted  BY <2>4, <3>5 DEF TypeOK
        <4>3. kind = "maintenance" => at = "off"  BY DEF Placed
        <4> QED  BY <2>1, <2>2, <3>1, <3>2, <3>3, <3>5, <4>1, <4>2, <4>3 DEF WakeInv
      <3> QED  BY <3>4, <3>5
    <2> QED  BY <2>3, <2>4 DEF TypeOK
  <1>4. ASSUME Dispose PROVE WakeInv'
    <2>1. owed' = {} /\ life' = "disposing"  BY <1>4 DEF Dispose, Abort
    <2> QED  BY <2>1, NothingOwed
  <1>5. ASSUME NEW m \in Pending, RemovePending(m)
        PROVE  WakeInv'
    <2>1. Pending \subseteq Pending' \cup {m}
      BY <1>5, RemoveConserves DEF InboxInv
    <2>2. owed' = owed \ {m}  BY <1>5 DEF RemovePending
    <2>3. owed' \subseteq Pending' /\ owed' \subseteq owed
      BY <2>1, <2>2 DEF WakeInv
    <2>4. UNCHANGED <<kind, reason, wakeRequested, step, at, decision, threw, stops, life>>
      BY <1>5 DEF RemovePending
    <2> QED  BY <2>3, <2>4 DEF WakeInv, Aborted
  <1>6. ASSUME NEW m \in Unsent, AcceptContext(m)
        PROVE  WakeInv'
    <2>1. /\ Insert(m, "next-step") /\ UNCHANGED <<claimed, discarded, owed>>
          /\ UNCHANGED <<kind, reason, wakeRequested, step, at, decision, threw, stops, life>>
      BY <1>6 DEF AcceptContext
    <2>2. Pending \subseteq Pending'  BY <2>1, InsertConserves DEF InboxInv
    <2> QED  BY <2>1, <2>2 DEF WakeInv, Aborted
  <1>7. ASSUME StartMaintenance PROVE WakeInv'
    <2>1. owed' = {}  BY <1>7 DEF StartMaintenance, WakeInv
    <2> QED  BY <1>7, <2>1, NothingOwed DEF StartMaintenance
  <1>8. ASSUME EndMaintenance \/ Retire PROVE WakeInv'
    <2>1. /\ Settle /\ UNCHANGED <<nextTurn, nextStep, life, owed>>
          /\ kind = "maintenance" \/ at = "settled"
      BY <1>8 DEF EndMaintenance, Retire
    <2> QED  BY <2>1, SettleOwes
  <1>9. ASSUME DisposeRefused \/ Detach \/ Rest \/ UNCHANGED vars PROVE WakeInv'
    <2>1. CASE Detach
      <3>1. owed' = {} /\ life' = "detached"  BY <2>1 DEF Detach, WakeInv
      <3> QED  BY <3>1, NothingOwed
    <2>2. CASE Rest \/ UNCHANGED vars
      <3>1. UNCHANGED vars  BY <2>2 DEF Rest
      <3> QED  BY <3>1 DEF vars, WakeInv, Aborted, Pending
    <2>3. CASE DisposeRefused
      <3>1. UNCHANGED <<kind, reason, wakeRequested, step, at, decision, threw, stops,
                        nextTurn, nextStep, owed>> /\ life' = "detached"
        BY <2>3 DEF DisposeRefused
      <3> QED  BY <3>1 DEF WakeInv, Aborted, Pending
    <2> QED  BY <1>9, <2>1, <2>2, <2>3
  <1>10. ASSUME NextTurn PROVE WakeInv'
    <2>1. /\ reason' = "none" /\ at' = "kick" /\ kind' = "running"
          /\ UNCHANGED <<nextTurn, nextStep, owed, life>>
      BY <1>10 DEF NextTurn, Placed
    <2> QED  BY <2>1 DEF WakeInv, Aborted, Pending
  <1>11. ASSUME Driver, ~Retire, ~NextTurn PROVE WakeInv'
    <2>1. kind = "running" /\ UNCHANGED <<kind, reason, wakeRequested, life>>
      BY <1>11 DEF Driver, RefuseTurn, BeginTurn, VetoTurn, OpenTurn, PreStepFails,
         PreStepDecides, RejectStep, SkipStep, EnterStep, VetoStep, LeaveStepOpen, StepThrows,
         Request, RecordAnswer, CompleteAnswer, ToolsDone, CloseStep, AfterStep, StoppingFails, Stop, CloseFailedTurn, LastTurn,
         Placed
    <2>2. HasPending \/ owed = {}
      BY EmptyList DEF HasPending, Pending, WakeInv
    <2>3. owed \subseteq Pending  BY DEF WakeInv
    <2>4. ASSUME NEW list, Propose(list), UNCHANGED discarded
          PROVE  owed' \subseteq owed /\ owed' \subseteq Pending' /\ at' = "pre-step"
      <3>1. owed' = owed \ Batch(list) /\ at' = "pre-step"
        BY <2>4 DEF Propose, Claim
      <3>2. Pending \subseteq Pending' \cup Batch(list)
        BY <2>4, ClaimConserves DEF InboxInv, Propose
      <3> QED  BY <2>3, <3>1, <3>2
    <2>5. ASSUME UNCHANGED <<nextTurn, nextStep>>, owed' \in {owed, {}}
          PROVE  owed' \subseteq owed /\ owed' \subseteq Pending'
      BY <2>3, <2>5 DEF Pending
    <2>6. ASSUME Catch
          PROVE  /\ owed' \in {owed, {}}
                 /\ at' \in {"turn-end", "settled", "failed"} /\ (at' # "failed" => Aborted)
      BY <2>6 DEF Catch, CloseTurn, RecordEnd, LeaveTurnOpen
    <2>7. CASE OpenTurn \/ AfterStep \/ Stop
      <3>1. UNCHANGED discarded
        BY <2>7 DEF OpenTurn, AfterStep, Stop
      <3>2. \/ \E list : Propose(list)
            \/ Catch /\ UNCHANGED <<nextTurn, nextStep>>
            \/ UNCHANGED <<nextTurn, nextStep, owed>> /\ at' = "stopping"
            \/ CloseTurn(turnEnds, FALSE, FALSE) /\ UNCHANGED <<nextTurn, nextStep>>
        BY <2>7 DEF OpenTurn, AfterStep, Stop
      <3>3. CASE \E list : Propose(list)
        BY <2>1, <2>4, <3>1, <3>3, DriverOwes
      <3>4. CASE Catch /\ UNCHANGED <<nextTurn, nextStep>>
        BY <2>1, <2>5, <2>6, <3>4, DriverOwes
      <3>5. CASE UNCHANGED <<nextTurn, nextStep, owed>> /\ at' = "stopping"
        BY <2>1, <2>5, <3>5, DriverOwes
      <3>6. CASE CloseTurn(turnEnds, FALSE, FALSE) /\ UNCHANGED <<nextTurn, nextStep>>
        <4>1. /\ owed' \in {owed, {}}
              /\ \/ at' = "turn-end" /\ ~threw' /\ ~stops'
                 \/ at' = "settled" /\ (~Aborted => owed' = {})
          BY <3>6 DEF CloseTurn, RecordEnd, LeaveTurnOpen
        <4> QED  BY <2>1, <2>5, <3>6, <4>1, DriverOwes
      <3> QED  BY <3>2, <3>3, <3>4, <3>5, <3>6
    <2>8. CASE PreStepFails \/ StoppingFails \/ VetoStep \/ LeaveStepOpen
                            \/ (EnterStep /\ ~MayOpen)
      <3>1. Catch /\ UNCHANGED <<nextTurn, nextStep>>
        BY <2>8 DEF PreStepFails, StoppingFails, VetoStep, LeaveStepOpen, EnterStep
      <3> QED  BY <2>1, <2>5, <2>6, <3>1, DriverOwes
    <2>9. CASE RejectStep \/ CloseFailedTurn
      <3>1. /\ owed' \in {owed, {}} /\ UNCHANGED <<nextTurn, nextStep>>
            /\ at' \in {"turn-end", "settled"} /\ (~Aborted => owed' = {})
        BY <2>9 DEF RejectStep, CloseFailedTurn, CloseTurn, RecordEnd, LeaveTurnOpen
      <3> QED  BY <2>1, <2>5, <3>1, DriverOwes
    <2>10. CASE SkipStep
      <3>1. /\ owed' \in {owed, {}} /\ UNCHANGED <<nextTurn, nextStep>>
            /\ at' \in {"turn-end", "settled"}
            /\ decision = "empty" /\ at = "decided"
            /\ \/ turnEnds # "none" /\ at' = "turn-end" /\ ~threw' /\ ~stops'
               \/ at' = "settled" /\ (~Aborted => owed' = {})
               \/ step = 0
        BY <2>10 DEF SkipStep, Skips, CloseTurn, RecordEnd, LeaveTurnOpen
      <3>2. step = 0 => owed' = {}
        BY <3>1 DEF WakeInv
      <3> QED  BY <2>1, <2>5, <3>1, <3>2, DriverOwes
    <2>11. CASE RefuseTurn \/ VetoTurn \/ LastTurn
      <3>1. /\ owed' \in {owed, {}} /\ UNCHANGED <<nextTurn, nextStep>> /\ at' = "settled"
        BY <2>11 DEF RefuseTurn, VetoTurn, LastTurn
      <3>2. ~Aborted => owed' = {}
        <4>1. CASE RefuseTurn  BY <4>1 DEF RefuseTurn
        <4>2. CASE VetoTurn  BY <4>2 DEF VetoTurn
        <4>3. CASE LastTurn  BY <4>3, <2>2 DEF LastTurn, WakeInv
        <4> QED  BY <2>11, <4>1, <4>2, <4>3
      <3> QED  BY <2>1, <2>5, <3>1, <3>2, DriverOwes
    <2>12. ASSUME NEW d \in {"reject", "empty", "enter"}, PreStepDecides(d)
           PROVE  WakeInv'
      <3>1. /\ UNCHANGED <<nextTurn, nextStep, owed, step>> /\ at' = "decided" /\ decision' = d
            /\ d = "empty" /\ step = 0 => ~HasPending
        BY <1>0, <2>12 DEF PreStepDecides
      <3>2. decision' = "empty" /\ step' = 0 => owed' = {}
        BY <2>2, <3>1
      <3> QED  BY <2>1, <2>5, <3>1, <3>2, DriverOwes
    <2>13. CASE \/ BeginTurn \/ (EnterStep /\ MayOpen) \/ StepThrows \/ Request
                \/ RecordAnswer \/ CloseStep
                \/ \E f \in {"completed", "max-tokens", "calls"} : CompleteAnswer(f)
                \/ \E concluded \in BOOLEAN : ToolsDone(concluded)
      <3>1. /\ UNCHANGED <<nextTurn, nextStep, owed>>
            /\ at' \notin {"settled", "turn-end", "decided"}
        BY <2>13 DEF BeginTurn, EnterStep, StepThrows, Request, CloseStep, RecordAnswer,
           CompleteAnswer, ToolsDone
      <3> QED  BY <2>1, <2>5, <3>1, DriverOwes
    <2> QED
      BY <1>11, <2>7, <2>8, <2>9, <2>10, <2>11, <2>12, <2>13 DEF Driver
  <1> QED
    BY <1>1, <1>2, <1>3, <1>4, <1>5, <1>6, <1>7, <1>8, <1>9, <1>10, <1>11
    DEF Next, Environment

\* An idle agent owes nobody a wake: whatever was sent to wake it was claimed,
\* discarded, or parked by a rejection, a failure or a cancel that keeps it.
\* Only waking input in the last microtask of a driver, or behind a first step
\* that was proposed empty, can be lost.
THEOREM WakesAreHonoured ==
  ASSUME "settled-send" \notin Admitted, "empty-turn" \notin Admitted
  PROVE  Spec => []WakeHonoured
  <1>1. WakeInv => WakeHonoured  BY DEF WakeInv, WakeHonoured
  <1> QED
    BY <1>1, TypeInit, TypeStep, PlacedInit, PlacedStep, InboxInit, InboxStep,
       WakeInit, WakeStep, PTL DEF Spec
=============================================================================
