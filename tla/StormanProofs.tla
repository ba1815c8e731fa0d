--------------------------- MODULE StormanProofs ---------------------------
(* Theorems about Storman, for every value of its constants.               *)
EXTENDS Storman, SequenceTheorems, TLAPS

-----------------------------------------------------------------------------
(* Type correctness.                                                       *)

\* Each start of the service creates at most one semaphore, and only a
\* service that has created one receives requests.
GenInv ==
  /\ gen <= restarts + 1
  /\ spc \in {"mount", "create", "dead"} => gen <= restarts
  /\ spc \in Working \cup {"sleep"} => gen >= 1
  /\ cpc = "wait" => cgen >= 1

TypeInv == TypeOK /\ GenInv

-----------------------------------------------------------------------------
(* The timing argument, as long as the service has not been killed.        *)

\* Any two operations together take less than one polling period.
Timely == 2 * MaxOp < DELAY_STORMAN

\* The command has left its request, or dropped it, and has not taken the
\* semaphore.
Pending == cpc \in {"take", "wait", "fault"}

Empty == storman_queue = <<>>

\* smi_glob holds the answer to the present command and the service will not
\* write to it before the next request.
Settled ==
  /\ smi_glob.id = cur.id /\ smi_glob.data = "answer"
  /\ Empty /\ spc \notin BeforeGive

NoKillInv ==
  /\ restarts = 0 /\ spc # "dead"
  /\ spc \in {"mount", "create"} => gen = 0
  /\ cpc = "wait" => cgen = 1 /\ gen = 1

TimeInv ==
  /\ cpc \notin {"send", "wait"} => ct = 0
  /\ cpc = "wait" => ct <= TAKE_TICKS
  /\ spc = "sleep" => st <= DELAY_STORMAN
  /\ spc \in Working => st <= MaxOp

\* Requests carry increasing identities on their way through the queue.
OrderInv ==
  /\ cur.id = ncmd
  /\ smi_glob.id <= cur.id
  /\ cpc = "send" => smi_glob.id < cur.id /\ fate = "queued"
  /\ ~Empty => /\ smi_glob.id < storman_queue[1].id
               /\ storman_queue[1].id <= cur.id
               /\ cpc = "send" => storman_queue[1].id < cur.id

\* A request that will be answered belongs to the command that is pending.
OwnerInv ==
  /\ cpc \in {"print", "rest"} \/ Pending => cur.action \in Answered
  /\ ~Empty /\ storman_queue[1].action \in Answered
       => Pending /\ storman_queue[1] = cur /\ fate = "queued"
  /\ spc \in BeforeGive /\ smi_glob.action \in Answered
       => /\ Pending /\ Empty /\ fate = "queued"
          /\ smi_glob.id = cur.id /\ smi_glob.action = cur.action
  /\ spc = "give" => smi_glob.data = "answer" /\ smi_glob.action \in Answered

SemInv ==
  /\ \A g \in Gens : sem[g] = 1 => g = 1 /\ Pending /\ Settled
  /\ cpc \in {"print", "rest"} => Settled
  /\ cpc = "wait" /\ fate = "answered" => sem[1] = 1
  /\ cpc = "take" /\ fate = "answered" => sem[1] = 1

\* The answer of a pending request arrives before its deadline.
InQueueInTime ==
  /\ ~Empty /\ storman_queue[1] = cur
  /\ spc = "sleep" => (DELAY_STORMAN - st) + MaxOp < TAKE_TICKS - ct
  /\ spc \in Working
       => (MaxOp - st) + DELAY_STORMAN + MaxOp < TAKE_TICKS - ct
InWorkInTime ==
  /\ Empty /\ spc \in BeforeGive
  /\ smi_glob.id = cur.id /\ smi_glob.action = cur.action
  /\ MaxOp - st < TAKE_TICKS - ct
DeadlineInv ==
  cpc \in {"take", "wait"} /\ fate = "queued" => InQueueInTime \/ InWorkInTime

AnswerInv == /\ NoKillInv /\ TimeInv /\ OrderInv /\ OwnerInv /\ SemInv
             /\ DeadlineInv /\ OwnAnswer

UntilKill == restarts = 0 => AnswerInv
-----------------------------------------------------------------------------
\* The queue has one slot.
LEMMA OneSlot ==
  ASSUME NEW S, NEW q \in Seq(S), q # <<>>, Len(q) <= 1
  PROVE  /\ Len(q) = 1 /\ q[1] \in S /\ Head(q) = q[1]
         /\ Tail(q) = <<>> /\ Tail(q) \in Seq(S)
  <1>1. Len(q) \in Nat /\ Len(q) # 0
    OBVIOUS
  <1>2. Len(q) = 1
    BY <1>1
  <1>3. q[1] \in S /\ Head(q) = q[1]
    BY <1>2
  <1>4. Len(Tail(q)) = 0 /\ Tail(q) \in Seq(S)
    BY <1>2
  <1> QED
    BY <1>2, <1>3, <1>4, EmptySeq

LEMMA TypeInit == Init => TypeInv
  <1> SUFFICES ASSUME Init PROVE TypeInv
    OBVIOUS
  <1>1. NoRequest \in Requests /\ 0 \in Cmds
    BY ConstantsAreTimes DEF NoRequest, Requests, Cmds, Actions
  <1>2. smi_glob \in Globals
    BY ConstantsAreTimes DEF Init, Globals, Cmds, Actions
  <1>3. sem \in [Gens -> {0, 1}] /\ restarts \in 0 .. MaxRestarts
    BY ConstantsAreTimes DEF Init, Gens
  <1>4. leaked \in BOOLEAN /\ visible \in BOOLEAN
    BY DEF Init
  <1>5. storman_queue \in Seq(Requests) /\ Len(storman_queue) <= STORMAN_QUEUE_DEPTH
    BY DEF Init, STORMAN_QUEUE_DEPTH
  <1> QED
    BY <1>1, <1>2, <1>3, <1>4, <1>5
    DEF Init, TypeInv, TypeOK, GenInv, CliPcs, SmPcs, Working

\* The ways one step of an operation ends keep the types of what they set.
LEMMA OutcomeTypes ==
  ASSUME TypeInv, spc \in Working,
         \/ Finish \/ Fail(FALSE) \/ Fail(TRUE)
         \/ \E pc \in {"body", "give", "close"} : Continue(pc)
  PROVE  /\ spc' \in Working \cup {"sleep"} /\ st' \in Nat
         /\ fate' \in {"queued", "dropped", "failed", "answered"}
         /\ leaked' \in BOOLEAN
  <1>1. CASE Finish
    BY <1>1 DEF Finish, TypeInv, TypeOK, Working
  <1>2. CASE Fail(FALSE) \/ Fail(TRUE)
    <2>1. leaked' \in BOOLEAN
      BY <1>2 DEF Fail
    <2> QED
      BY <2>1, <1>2 DEF Fail, TypeInv, TypeOK, Working
  <1>3. ASSUME NEW pc \in {"body", "give", "close"}, Continue(pc)
        PROVE  /\ spc' \in Working /\ st' \in Nat /\ leaked' \in BOOLEAN
               /\ fate' \in {"queued", "dropped", "failed", "answered"}
    BY <1>3 DEF Continue, TypeInv, TypeOK, Working
  <1> QED
    BY <1>1, <1>2, <1>3

LEMMA TypeStep == TypeInv /\ [Next]_vars => TypeInv'
  <1> SUFFICES ASSUME TypeInv, [Next]_vars PROVE TypeInv'
    OBVIOUS
  <1> USE ConstantsAreTimes
      DEF TypeInv, TypeOK, GenInv, CliPcs, SmPcs, Working, Cmds, Gens,
          Requests, Globals, STORMAN_QUEUE_DEPTH, cliVars, stormanVars
  <1>1. ASSUME NEW a \in Actions, Command(a) PROVE TypeInv'
    BY <1>1 DEF Command
  <1>2. CASE Send
    BY <1>2 DEF Send, AfterSend
  <1>3. CASE SendTimeout
    BY <1>3, ZenonT(30) DEF SendTimeout, AfterSend
  <1>4. CASE StartTake
    BY <1>4 DEF StartTake
  <1>5. CASE Take
    BY <1>5 DEF Take
  <1>6. CASE TakeTimeout
    BY <1>6 DEF TakeTimeout
  <1>7. CASE PrintFirst
    BY <1>7 DEF PrintFirst, PrintStep
  <1>8. CASE PrintRest
    BY <1>8 DEF PrintRest, PrintStep
  <1>9. ASSUME NEW first \in BOOLEAN, Mount(first) PROVE TypeInv'
    BY <1>9 DEF Mount
  <1>10. CASE CreateSem
    BY <1>10 DEF CreateSem
  <1>11. CASE Receive
    <2>1. storman_queue # <<>> /\ storman_queue \in Seq(Requests)
      BY <1>11 DEF Receive
    <2>2. /\ Head(storman_queue) \in Requests
          /\ Tail(storman_queue) = <<>> /\ Tail(storman_queue) \in Seq(Requests)
      <3> HIDE DEF Requests
      <3> QED
        BY <2>1, OneSlot
    <2>3. smi_glob' \in Globals
      BY <1>11, <2>2 DEF Receive
    <2> QED
      BY <1>11, <2>2, <2>3 DEF Receive
  <1>12. CASE PollEmpty
    BY <1>12 DEF PollEmpty
  <1>13. CASE Open
    <2>1. /\ spc' \in Working \cup {"sleep"} /\ st' \in Nat
          /\ fate' \in {"queued", "dropped", "failed", "answered"} /\ leaked' \in BOOLEAN
          /\ spc \in Working
      <3> HIDE DEF TypeInv
      <3> QED
        BY <1>13, OutcomeTypes DEF Open
    <2>2. handle' \in {"open", "closed"}
      BY <1>13 DEF Open
    <2> QED
      BY <2>1, <2>2, <1>13 DEF Open, Untouched
  <1>14. CASE Body
    <2>1. /\ spc' \in Working \cup {"sleep"} /\ st' \in Nat
          /\ fate' \in {"queued", "dropped", "failed", "answered"} /\ leaked' \in BOOLEAN
          /\ spc \in Working
      <3> HIDE DEF TypeInv
      <3> QED
        BY <1>14, OutcomeTypes DEF Body
    <2>2. smi_glob' \in Globals
      BY <1>14 DEF Body, Answer
    <2> QED
      BY <2>1, <2>2, <1>14 DEF Body, Untouched
  <1>15. CASE Close
    <2>1. /\ spc' \in Working \cup {"sleep"} /\ st' \in Nat
          /\ fate' \in {"queued", "dropped", "failed", "answered"} /\ leaked' \in BOOLEAN
          /\ spc \in Working
      <3> HIDE DEF TypeInv
      <3> QED
        BY <1>15, OutcomeTypes DEF Close
    <2> QED
      BY <2>1, <1>15 DEF Close, Untouched
  <1>16. CASE Change
    <2>1. /\ spc' \in Working \cup {"sleep"} /\ st' \in Nat
          /\ fate' \in {"queued", "dropped", "failed", "answered"} /\ leaked' \in BOOLEAN
          /\ spc \in Working
      <3> HIDE DEF TypeInv
      <3> QED
        BY <1>16, OutcomeTypes DEF Change
    <2> QED
      BY <2>1, <1>16 DEF Change, Untouched
  <1>17. CASE Query
    <2>1. /\ spc' \in Working \cup {"sleep"} /\ st' \in Nat
          /\ fate' \in {"queued", "dropped", "failed", "answered"} /\ leaked' \in BOOLEAN
          /\ spc \in Working
      <3> HIDE DEF TypeInv
      <3> QED
        BY <1>17, OutcomeTypes DEF Query
    <2>2. smi_glob' \in Globals
      BY <1>17 DEF Query, Answer
    <2> QED
      BY <2>1, <2>2, <1>17 DEF Query, Untouched
  <1>18. CASE Give
    BY <1>18 DEF Give, Untouched
  <1>19. CASE Report
    BY <1>19 DEF Report, Finish, Untouched
  <1>20. CASE Kill
    BY <1>20 DEF Kill
  <1>21. CASE Restart
    BY <1>21 DEF Restart
  <1>22. CASE Tick
    BY <1>22 DEF Tick
  <1>23. CASE UNCHANGED vars
    BY <1>23 DEF vars
  <1> HIDE DEF TypeInv
  <1> QED
    BY <1>1, <1>2, <1>3, <1>4, <1>5, <1>6, <1>7, <1>8, <1>9, <1>10, <1>11, <1>12, <1>13, <1>14, <1>15, <1>16, <1>17, <1>18, <1>19, <1>20, <1>21, <1>22, <1>23 DEF Next, Cli, Service

\* The types of Storman, TypeOK: in every behaviour, for every delay, bound on
\* the operations and number of restarts, the one-slot queue never overflows,
\* and the semaphore that is given exists.
THEOREM TypeCorrect == Spec => []TypeOK
  <1>1. TypeInv => TypeOK
    BY DEF TypeInv
  <1> QED
    BY TypeInit, TypeStep, <1>1, PTL DEF Spec

-----------------------------------------------------------------------------
LEMMA AnswerInit == Init => AnswerInv
  <1> SUFFICES ASSUME Init PROVE AnswerInv
    OBVIOUS
  <1> USE ConstantsAreTimes DEF Init
  <1>1. NoKillInv /\ TimeInv /\ DeadlineInv /\ OwnAnswer
    BY DEF NoKillInv, TimeInv, DeadlineInv, OwnAnswer, Working
  <1>2. OrderInv /\ OwnerInv /\ SemInv
    BY DEF OrderInv, OwnerInv, SemInv, NoRequest, Empty, Pending, BeforeGive, Gens
  <1> QED
    BY <1>1, <1>2 DEF AnswerInv

\* What the type invariant says of the values AnswerInv compares, before the
\* first kill.
LEMMA Values ==
  ASSUME TypeInv, restarts = 0
  PROVE  /\ DELAY_STORMAN \in Nat /\ MaxOp \in Nat /\ ct \in Nat /\ st \in Nat
         /\ cur.id \in Nat /\ smi_glob.id \in Nat /\ ncmd \in Nat
         /\ gen \in {0, 1} /\ 1 \in Gens /\ sem \in [Gens -> {0, 1}]
         /\ cpc \in CliPcs /\ spc \in SmPcs /\ smi_glob \in Globals
  BY ConstantsAreTimes DEF TypeInv, TypeOK, GenInv, Requests, Globals, Cmds, Gens

LEMMA Slot ==
  ASSUME TypeInv
  PROVE  /\ Empty => Len(storman_queue) = 0
         /\ ~Empty => /\ Len(storman_queue) = 1
                      /\ storman_queue[1].id \in Nat
                      /\ Head(storman_queue) = storman_queue[1]
                      /\ Tail(storman_queue) = <<>>
  <1>1. storman_queue \in Seq(Requests) /\ Len(storman_queue) <= 1
    BY DEF TypeInv, TypeOK, STORMAN_QUEUE_DEPTH
  <1>2. \A r \in Requests : r.id \in Nat
    BY ConstantsAreTimes DEF Requests, Cmds
  <1>3. ASSUME ~Empty
        PROVE  /\ Len(storman_queue) = 1 /\ storman_queue[1] \in Requests
               /\ Head(storman_queue) = storman_queue[1]
               /\ Tail(storman_queue) = <<>>
    BY <1>1, <1>3, OneSlot DEF Empty
  <1> QED
    BY <1>2, <1>3 DEF Empty

\* Time brings the deadline of a command and the next step of the service
\* closer at the same pace.
LEMMA TickDeadline ==
  ASSUME TypeInv, TimeInv, restarts = 0, Tick, DeadlineInv
  PROVE  DeadlineInv'
  <1>1. /\ cpc' = cpc /\ spc' = spc /\ fate' = fate /\ cur' = cur
        /\ smi_glob' = smi_glob /\ storman_queue' = storman_queue
    BY DEF Tick
  <1>2. /\ ct \in Nat /\ st \in Nat /\ (ct' = ct \/ ct' = ct + 1)
        /\ spc \in Working \cup {"sleep"} => st' = st + 1
    BY Values DEF Tick
  <1>3. DELAY_STORMAN \in Nat /\ MaxOp \in Nat /\ TAKE_TICKS \in Nat
    BY ConstantsAreTimes DEF TAKE_TICKS
  <1>4. ASSUME InQueueInTime PROVE InQueueInTime'
    <2>1. ASSUME spc = "sleep"
          PROVE  (DELAY_STORMAN - st') + MaxOp < TAKE_TICKS - ct'
      BY <1>2, <1>3, <1>4, <2>1 DEF InQueueInTime
    <2>2. ASSUME spc \in Working
          PROVE  (MaxOp - st') + DELAY_STORMAN + MaxOp < TAKE_TICKS - ct'
      BY <1>2, <1>3, <1>4, <2>2 DEF InQueueInTime
    <2> QED
      BY <1>1, <1>4, <2>1, <2>2 DEF InQueueInTime, Empty
  <1>5. ASSUME InWorkInTime PROVE InWorkInTime'
    <2>1. spc \in Working
      BY <1>5 DEF InWorkInTime, BeforeGive, Working
    <2>2. MaxOp - st' < TAKE_TICKS - ct'
      BY <1>2, <1>3, <1>5, <2>1 DEF InWorkInTime
    <2> QED
      BY <1>1, <1>5, <2>2 DEF InWorkInTime, Empty
  <1> QED
    BY <1>1, <1>4, <1>5 DEF DeadlineInv

\* No step but a kill breaks AnswerInv, if any two operations take less than one
\* polling period.
LEMMA AnswerStep ==
  ASSUME Timely, restarts = 0, restarts' = 0, TypeInv, AnswerInv, [Next]_vars
  PROVE  AnswerInv'
  <1> USE Values, Slot
      DEF Timely, Working, BeforeGive, TAKE_TICKS, Pending, Settled, CliPcs,
          SmPcs, cliVars, stormanVars, AnswerInv, NoKillInv, TimeInv, OrderInv,
          OwnerInv, SemInv, DeadlineInv, InQueueInTime, InWorkInTime, OwnAnswer,
          Empty
  <1>1. ASSUME NEW a \in Actions, Command(a) PROVE AnswerInv'
    BY <1>1 DEF Command
  <1>2. CASE Send
    <2>e. storman_queue = <<>>
      BY <1>2 DEF Send, STORMAN_QUEUE_DEPTH
    <2>0. storman_queue' = <<cur>> /\ storman_queue'[1] = cur
      BY <1>2, <2>e DEF Send
    <2>1. NoKillInv'
      BY <1>2, <2>0 DEF Send, AfterSend
    <2>2. TimeInv'
      BY <1>2, <2>0 DEF Send, AfterSend
    <2>3. OrderInv'
      BY <1>2, <2>0 DEF Send, AfterSend
    <2>4. OwnerInv'
      BY <1>2, <2>0 DEF Send, AfterSend
    <2>5. SemInv'
      BY <1>2, <2>0 DEF Send, AfterSend
    <2>6. DeadlineInv'
      BY <1>2, <2>0 DEF Send, AfterSend
    <2>7. OwnAnswer'
      BY <1>2, <2>0 DEF Send, AfterSend
    <2> QED
      BY <2>1, <2>2, <2>3, <2>4, <2>5, <2>6, <2>7
  <1>3. CASE SendTimeout
    BY <1>3 DEF SendTimeout, AfterSend
  <1>4. CASE StartTake
    <2>1. NoKillInv'
      BY <1>4 DEF StartTake, TypeInv, GenInv
    <2>2. TimeInv'
      BY <1>4 DEF StartTake, TypeInv, GenInv
    <2>3. OrderInv'
      BY <1>4 DEF StartTake, TypeInv, GenInv
    <2>4. OwnerInv'
      BY <1>4 DEF StartTake, TypeInv, GenInv
    <2>5. SemInv'
      BY <1>4 DEF StartTake, TypeInv, GenInv
    <2>6. DeadlineInv'
      BY <1>4 DEF StartTake, TypeInv, GenInv
    <2>7. OwnAnswer'
      BY <1>4 DEF StartTake, TypeInv, GenInv
    <2> QED
      BY <2>1, <2>2, <2>3, <2>4, <2>5, <2>6, <2>7
  <1>5. CASE Take
    BY <1>5 DEF Take
  <1>6. CASE TakeTimeout
    BY <1>6 DEF TakeTimeout
  <1>7. CASE PrintFirst
    BY <1>7 DEF PrintFirst, PrintStep
  <1>8. CASE PrintRest
    BY <1>8 DEF PrintRest, PrintStep
  <1>9. ASSUME NEW first \in BOOLEAN, Mount(first) PROVE AnswerInv'
    BY <1>9 DEF Mount
  <1>10. CASE CreateSem
    BY <1>10 DEF CreateSem
  <1>11. CASE Receive
    BY <1>11, SMTT(30) DEF Receive
  <1>12. CASE PollEmpty
    BY <1>12 DEF PollEmpty
  <1>13. CASE Open
    BY <1>13, SMTT(30) DEF Open, Continue, Fail, Untouched
  <1>14. CASE Body
    <2>0. /\ smi_glob'.id = smi_glob.id /\ smi_glob'.action = smi_glob.action
          /\ spc' = "give" => smi_glob'.data = "answer"
      BY <1>14 DEF Body, Answer, Globals, Continue, Fail
    <2>1. NoKillInv'
      BY <1>14, <2>0 DEF Body, Continue, Fail, Untouched
    <2>2. TimeInv'
      BY <1>14, <2>0 DEF Body, Continue, Fail, Untouched
    <2>3. OrderInv'
      BY <1>14, <2>0 DEF Body, Continue, Fail, Untouched
    <2>4. OwnerInv'
      BY <1>14, <2>0 DEF Body, Continue, Fail, Untouched
    <2>5. SemInv'
      BY <1>14, <2>0 DEF Body, Continue, Fail, Untouched
    <2>6. DeadlineInv'
      BY <1>14, <2>0 DEF Body, Continue, Fail, Untouched
    <2>7. OwnAnswer'
      BY <1>14, <2>0 DEF Body, Continue, Fail, Untouched
    <2> QED
      BY <2>1, <2>2, <2>3, <2>4, <2>5, <2>6, <2>7
  <1>15. CASE Close
    <2>1. NoKillInv'
      BY <1>15 DEF Close, Finish, Fail, Untouched
    <2>2. TimeInv'
      BY <1>15 DEF Close, Finish, Fail, Untouched
    <2>3. OrderInv'
      BY <1>15 DEF Close, Finish, Fail, Untouched
    <2>4. OwnerInv'
      BY <1>15 DEF Close, Finish, Fail, Untouched
    <2>5. SemInv'
      BY <1>15 DEF Close, Finish, Fail, Untouched
    <2>6. DeadlineInv'
      BY <1>15, SMTT(30) DEF Close, Finish, Fail, Untouched
    <2>7. OwnAnswer'
      BY <1>15 DEF Close, Finish, Fail, Untouched
    <2> QED
      BY <2>1, <2>2, <2>3, <2>4, <2>5, <2>6, <2>7
  <1>16. CASE Change
    BY <1>16, SMTT(30) DEF Change, Finish, Fail, Untouched
  <1>17. CASE Query
    <2>0. /\ smi_glob'.id = smi_glob.id /\ smi_glob'.action = smi_glob.action
          /\ spc' = "give" => smi_glob'.data = "answer"
      BY <1>17 DEF Query, Answer, Globals, Continue, Fail
    <2>1. NoKillInv'
      BY <1>17, <2>0 DEF Query, Continue, Fail, Untouched
    <2>2. TimeInv'
      BY <1>17, <2>0 DEF Query, Continue, Fail, Untouched
    <2>3. OrderInv'
      BY <1>17, <2>0 DEF Query, Continue, Fail, Untouched
    <2>4. OwnerInv'
      BY <1>17, <2>0 DEF Query, Continue, Fail, Untouched
    <2>5. SemInv'
      BY <1>17, <2>0 DEF Query, Continue, Fail, Untouched
    <2>6. DeadlineInv'
      BY <1>17, <2>0 DEF Query, Continue, Fail, Untouched
    <2>7. OwnAnswer'
      BY <1>17, <2>0 DEF Query, Continue, Fail, Untouched
    <2> QED
      BY <2>1, <2>2, <2>3, <2>4, <2>5, <2>6, <2>7
  <1>18. CASE Give
    <2>e. gen = 1
      BY <1>18 DEF Give, TypeInv, GenInv
    <2>0. sem' = [sem EXCEPT ![1] = 1]
      BY <1>18, <2>e DEF Give
    <2>1. NoKillInv'
      BY <1>18, <2>e, <2>0 DEF Give, Untouched
    <2>2. TimeInv'
      BY <1>18, <2>e, <2>0 DEF Give, Untouched
    <2>3. OrderInv'
      BY <1>18, <2>e, <2>0 DEF Give, Untouched
    <2>4. OwnerInv'
      BY <1>18, <2>e, <2>0 DEF Give, Untouched
    <2>5. SemInv'
      BY <1>18, <2>e, <2>0 DEF Give, Untouched
    <2>6. DeadlineInv'
      BY <1>18, <2>e, <2>0 DEF Give, Untouched
    <2>7. OwnAnswer'
      BY <1>18, <2>e, <2>0 DEF Give, Untouched
    <2> QED
      BY <2>1, <2>2, <2>3, <2>4, <2>5, <2>6, <2>7
  <1>19. CASE Report
    BY <1>19 DEF Report, Finish, Untouched
  <1>20. CASE Kill
    BY <1>20 DEF Kill, TypeInv, TypeOK
  <1>21. CASE Restart
    BY <1>21 DEF Restart
  <1>22. CASE Tick
    <2>1. NoKillInv'
      BY <1>22 DEF Tick
    <2>2. TimeInv'
      BY <1>22 DEF Tick
    <2>3. OrderInv'
      BY <1>22 DEF Tick
    <2>4. OwnerInv'
      BY <1>22 DEF Tick
    <2>5. SemInv'
      BY <1>22 DEF Tick
    <2>6. DeadlineInv'
      BY <1>22, TickDeadline
    <2>7. OwnAnswer'
      BY <1>22 DEF Tick
    <2> QED
      BY <2>1, <2>2, <2>3, <2>4, <2>5, <2>6, <2>7
  <1>23. CASE UNCHANGED vars
    <2>1. NoKillInv'
      BY <1>23 DEF vars
    <2>2. TimeInv'
      BY <1>23 DEF vars
    <2>3. OrderInv'
      BY <1>23 DEF vars
    <2>4. OwnerInv'
      BY <1>23 DEF vars
    <2>5. SemInv'
      BY <1>23 DEF vars
    <2>6. DeadlineInv'
      BY <1>23 DEF vars
    <2>7. OwnAnswer'
      BY <1>23 DEF vars
    <2> QED
      BY <2>1, <2>2, <2>3, <2>4, <2>5, <2>6, <2>7
  <1> HIDE DEF AnswerInv
  <1> QED
    BY <1>1, <1>2, <1>3, <1>4, <1>5, <1>6, <1>7, <1>8, <1>9, <1>10, <1>11, <1>12,
       <1>13, <1>14, <1>15, <1>16, <1>17, <1>18, <1>19, <1>20, <1>21, <1>22, <1>23 DEF Next, Cli, Service

\* Nothing undoes a kill.
LEMMA KillsStay ==
  ASSUME TypeInv, [Next]_vars, restarts' = 0
  PROVE  restarts = 0
  <1>1. restarts \in Nat
    BY ConstantsAreTimes DEF TypeInv, TypeOK
  <1>2. restarts' = restarts \/ restarts' = restarts + 1
    BY DEF Next, vars, Cli, Service, Command, Send, SendTimeout, StartTake, Take,
       TakeTimeout, PrintFirst, PrintRest, PrintStep, Mount, CreateSem, Receive,
       PollEmpty, Open, Body, Close, Change, Query, Give, Report, Kill, Restart,
       Tick, Untouched
  <1> QED
    BY <1>1, <1>2

LEMMA UntilKillInvariant ==
  ASSUME Timely
  PROVE  Spec => [](TypeInv /\ UntilKill)
  <1>1. TypeInv /\ UntilKill /\ [Next]_vars => UntilKill'
    BY AnswerStep, KillsStay DEF UntilKill
  <1>2. Init => UntilKill
    BY AnswerInit DEF UntilKill
  <1> QED
    BY TypeInit, TypeStep, <1>1, <1>2, PTL DEF Spec

\* OwnAnswer: if no two operations of the service together take as long as one
\* polling period, then until the service is killed the shell prints for each
\* command the answer to that command and nothing else.
THEOREM AnswersAreOwn ==
  ASSUME Timely
  PROVE  Spec => []OwnAnswer
  <1>1. UntilKill => OwnAnswer
    BY DEF UntilKill, AnswerInv, OwnAnswer
  <1> QED
    BY UntilKillInvariant, <1>1, PTL

\* NoLateAnswer: under the same assumption a command that gives up waiting
\* before any kill has lost its request or seen it fail; no answer comes after the
\* shell has gone.
THEOREM NoAnswerIsLate ==
  ASSUME Timely
  PROVE  Spec => NoLateAnswer
  <1> DEFINE Explained ==
        (cpc = "wait" /\ cpc' = "idle" /\ restarts = 0)
          => fate \in {"dropped", "failed"}
  <1>1. ASSUME TypeInv, AnswerInv, [Next]_vars, cpc = "wait", cpc' = "idle"
        PROVE  TakeTimeout
    BY <1>1 DEF Next, vars, Cli, Service, Command, Send, SendTimeout, StartTake,
       Take, PrintFirst, PrintRest, PrintStep, Mount, CreateSem, Receive,
       PollEmpty, Open, Body, Close, Change, Query, Give, Report, Kill, Restart,
       Tick, Untouched, cliVars
  <1>2. ASSUME TypeInv, AnswerInv, [Next]_vars, restarts = 0 PROVE Explained
    <2>1. ASSUME cpc = "wait", sem[cgen] = 0, ct = TAKE_TICKS, fate = "queued"
          PROVE FALSE
      BY <1>2, <2>1, Values DEF AnswerInv, NoKillInv, TimeInv, DeadlineInv,
         InQueueInTime, InWorkInTime, TAKE_TICKS, SmPcs, Working, BeforeGive
    <2>2. ASSUME cpc = "wait", sem[cgen] = 0, fate = "answered" PROVE FALSE
      BY <1>2, <2>2, Values DEF AnswerInv, NoKillInv, SemInv
    <2>3. fate \in {"queued", "dropped", "failed", "answered"}
      BY <1>2 DEF TypeInv, TypeOK
    <2> QED
      BY <1>1, <1>2, <2>1, <2>2, <2>3 DEF TakeTimeout
  <1>3. TypeInv /\ UntilKill /\ [Next]_vars => [Explained]_vars
    BY <1>2 DEF UntilKill
  <1> QED
    BY UntilKillInvariant, <1>3, PTL DEF Spec, NoLateAnswer
-----------------------------------------------------------------------------
(* The handle of the service.                                              *)

\* Until it is leaked, the handle is open only where an operation that opened
\* it is on its way to close it, or was killed on that way.
HandleInv ==
  ~leaked =>
    /\ spc \in {"mount", "create", "sleep", "work", "report"} => handle = "closed"
    /\ spc = "give" /\ smi_glob.action \notin HandleActions => handle = "closed"
    /\ spc = "body" => smi_glob.action \in HandleActions

LEMMA HandleStep == TypeInv /\ HandleInv /\ [Next]_vars => HandleInv'
  <1> SUFFICES ASSUME TypeInv, HandleInv, [Next]_vars PROVE HandleInv'
    OBVIOUS
  <1> USE DEF HandleInv, cliVars, stormanVars, Untouched, Finish, Fail, Continue
  <1>1. ASSUME NEW a \in Actions, Command(a) PROVE HandleInv'
    BY <1>1 DEF Command
  <1>2. CASE Cli
    BY <1>2 DEF Cli, Send, SendTimeout, StartTake, Take, TakeTimeout, PrintFirst,
       PrintRest, PrintStep
  <1>3. ASSUME NEW first \in BOOLEAN, Mount(first) PROVE HandleInv'
    BY <1>3 DEF Mount
  <1>4. CASE CreateSem
    BY <1>4 DEF CreateSem
  <1>5. CASE Receive \/ PollEmpty
    BY <1>5 DEF Receive, PollEmpty
  <1>6. CASE Open
    BY <1>6 DEF Open
  <1>7. CASE Body
    <2>1. CASE leaked'
      BY <2>1
    <2>2. CASE spc' = "close"
      BY <2>2
    <2>3. CASE smi_glob.action \in Answered /\ Continue("give") /\ Answer
      <3>1. smi_glob \in Globals
        BY DEF TypeInv, TypeOK
      <3>2. smi_glob'.action = smi_glob.action
        BY <2>3, <3>1 DEF Answer, Globals
      <3> QED
        BY <1>7, <2>3, <3>2 DEF Body
    <2> QED
      BY <1>7, <2>1, <2>2, <2>3 DEF Body
  <1>8. CASE Close
    BY <1>8 DEF Close
  <1>9. CASE Change
    <2>1. leaked \in BOOLEAN
      BY DEF TypeInv, TypeOK
    <2>2. (leaked' = leaked) \/ (leaked' = (leaked \/ FALSE))
      BY <1>9 DEF Change
    <2>3. leaked' = leaked
      BY <2>1, <2>2, SMT
    <2> QED
      BY <1>9, <2>3 DEF Change
  <1>10. CASE Query
    <2>1. leaked \in BOOLEAN
      BY DEF TypeInv, TypeOK
    <2>2. (leaked' = leaked) \/ (leaked' = (leaked \/ FALSE))
      BY <1>10 DEF Query
    <2>3. leaked' = leaked
      BY <2>1, <2>2, SMT
    <2> QED
      BY <1>10, <2>3 DEF Query, Answer
  <1>11. CASE Give
    BY <1>11 DEF Give
  <1>12. CASE Report
    BY <1>12 DEF Report
  <1>13. CASE Kill
    BY <1>13 DEF Kill
  <1>14. CASE Restart
    BY <1>14 DEF Restart
  <1>15. CASE Tick
    BY <1>15 DEF Tick
  <1>16. CASE UNCHANGED vars
    BY <1>16 DEF vars
  <1> QED
    BY <1>1, <1>2, <1>3, <1>4, <1>5, <1>6, <1>7, <1>8, <1>9, <1>10, <1>11, <1>12,
       <1>13, <1>14, <1>15, <1>16 DEF Next, Service

\* HandleClosed: with any mixture of actions, of calls that fail, kills and
\* restarts, the service sleeps with its handle closed, unless in this life of
\* the task a read, write or seek of an open file has failed.
THEOREM NoHandleLeaks == Spec => []HandleClosed
  <1>1. Init => HandleInv
    BY DEF Init, HandleInv
  <1>2. HandleInv => HandleClosed
    BY DEF HandleInv, HandleClosed
  <1> QED
    BY TypeInit, TypeStep, HandleStep, <1>1, <1>2, PTL DEF Spec
=============================================================================
