----------------------- MODULE DeviceCommands_proofs -----------------------
(***************************************************************************)
(* Type correctness of DeviceCommands, that no process of a gateway begins *)
(* a command twice, and that no caller is stranded, for any commands,      *)
(* times and faults; the last if no timeout is longer than the age at      *)
(* which documents are swept.                                              *)
(***************************************************************************)
EXTENDS DeviceCommands, TLAPS

Read(c) == check[c] \in {"asked", "replied"}

(***************************************************************************)
(* The inductive invariant.                                                *)
(***************************************************************************)

(* Of a command that was not asked for there is nothing.                   *)
NothingBefore ==
  \A c \in Commands : outcome[c] = "none" =>
    /\ insert[c] = "no" /\ watcher[c] = "none" /\ check[c] = "idle" /\ age[c] = 0
    /\ c \notin timer /\ c \notin notice /\ c \notin removing

(* No document exists before it is inserted, so that nobody has seen it.   *)
UnseenBefore ==
  \A c \in Commands : insert[c] \in {"no", "sent"} =>
    docs[c] = "none" /\ ~Read(c) /\ c \notin local /\ c \notin executed /\ times[c] = 0

(* A command that the gateway has forgotten, but has executed, will not    *)
(* come back: it is in no collection, and it is inserted only once.        *)
ForgottenIsGone ==
  \A c \in Commands : c \notin executed => times[c] = 0 \/ (docs[c] = "none" /\ c \notin local)

(* What a caller that waits can still rely on.                             *)
WaitingIsSent == \A c \in Commands : Waiting(c) => insert[c] \in {"sent", "done"} /\ c \notin removing
FiredIsLate == \A c \in Commands : Waiting(c) /\ c \notin timer => age[c] >= Timeout
NoneIsMissed == \A c \in Commands : Waiting(c) /\ check[c] = "none" => c \in missed
WillLook == \A c \in Commands : Waiting(c) /\ c \notin missed => c \in timer \/ check[c] # "idle"
NotSwept == \A c \in Commands : Waiting(c) /\ c \notin missed => age[c] <= SweepAge \/ Read(c)
HasDocument ==
  \A c \in Commands : Waiting(c) /\ insert[c] = "done" /\ c \notin missed =>
    docs[c] # "none" \/ (Read(c) /\ age[c] >= Timeout)

Executions == NothingBefore /\ UnseenBefore /\ ForgottenIsGone /\ AtMostOnce
Callers == WaitingIsSent /\ FiredIsLate /\ NoneIsMissed /\ WillLook /\ NotSwept /\ HasDocument

(***************************************************************************)
(* Every step preserves it.                                                *)
(***************************************************************************)

OfCommand(c) ==
  \/ Ask(c) \/ CallerStep(c) \/ GatewayStep(c) \/ FunctionEnds(c) \/ RemoveOldCommand(c)
  \/ InsertFails(c) \/ ReadFails(c) \/ RemoveFails(c) \/ WatcherFails(c)

(* Every fault is counted.                                                 *)
LEMMA FaultCounts ==
  ASSUME TypeOK, NEW kind, Fault(kind)
  PROVE  faults' \in 0 .. MaxFaults
BY FaultsAssumption DEF TypeOK, Fault

(* The types: what each step writes is of its kind.                        *)
LEMMA TypeStep ==
  ASSUME TypeOK, [Next]_vars
  PROVE  TypeOK'
<1> USE TimesAssumption, FaultsAssumption
   DEF TypeOK, Oldest, Waiting, callerVars, gatewayVars, linkVars
<1>1. CASE \E c \in Commands : OfCommand(c)
  <2> PICK c \in Commands : OfCommand(c)
    BY <1>1
  <2>1. CASE Ask(c)
    BY <2>1 DEF Ask
  <2>2. CASE WatcherOpens(c)
    BY <2>2 DEF WatcherOpens
  <2>3. CASE InsertCommand(c)
    BY <2>3 DEF InsertCommand, Changed
  <2>4. CASE InsertFails(c)
    <3>1. faults' \in 0 .. MaxFaults
      BY <2>4, FaultCounts DEF InsertFails, TypeOK
    <3> QED BY <2>4, <3>1 DEF InsertFails
  <2>5. CASE Notify(c)
    BY <2>5 DEF Notify, DoCheckReply
  <2>6. CASE TimerFires(c)
    BY <2>6 DEF TimerFires, DoCheckReply
  <2>7. CASE ReadCommand(c)
    <3>1. faults' \in 0 .. MaxFaults
      BY <2>7, FaultCounts, ZenonT(60) DEF ReadCommand, TypeOK
    <3> QED BY <2>7, <3>1, ZenonT(60) DEF ReadCommand
  <2>8. CASE ReadFails(c)
    <3>1. faults' \in 0 .. MaxFaults
      BY <2>8, FaultCounts DEF ReadFails, TypeOK
    <3> QED BY <2>8, <3>1 DEF ReadFails, CheckEnds
  <2>9. CASE ConcludeCheck(c)
    BY <2>9 DEF ConcludeCheck, Settle, CheckEnds
  <2>10. CASE RemoveCommand(c)
    BY <2>10 DEF RemoveCommand, Changed
  <2>11. CASE RemoveFails(c)
    <3>1. faults' \in 0 .. MaxFaults
      BY <2>11, FaultCounts DEF RemoveFails, TypeOK
    <3> QED BY <2>11, <3>1 DEF RemoveFails
  <2>12. CASE WatcherFails(c)
    <3>1. faults' \in 0 .. MaxFaults
      BY <2>12, FaultCounts DEF WatcherFails, TypeOK
    <3> QED BY <2>12, <3>1 DEF WatcherFails
  <2>13. CASE Publish(c)
    BY <2>13 DEF Publish, Execute
  <2>14. CASE PublishRemoval(c)
    BY <2>14 DEF PublishRemoval
  <2>15. CASE FunctionEnds(c)
    BY <2>15 DEF FunctionEnds
  <2>16. CASE FunctionReply(c)
    BY <2>16 DEF FunctionReply, Changed
  <2>17. CASE RemoveOldCommand(c)
    BY <2>17 DEF RemoveOldCommand, Changed
  <2> QED BY <2>1, <2>2, <2>3, <2>4, <2>5, <2>6, <2>7, <2>8, <2>9, <2>10, <2>11, <2>12, <2>13, <2>14,
            <2>15, <2>16, <2>17
     DEF OfCommand, CallerStep, GatewayStep
<1>2. CASE SetUpObservers
  BY <1>2 DEF SetUpObservers, Execute
<1>3. CASE Connect
  BY <1>3 DEF Connect
<1>4. CASE Disconnect
  <2>1. faults' \in 0 .. MaxFaults
    BY <1>4, FaultCounts DEF Disconnect
  <2> QED BY <1>4, <2>1 DEF Disconnect, Drop
<1>5. CASE GatewayRestarts
  <2>1. faults' \in 0 .. MaxFaults
    BY <1>5, FaultCounts DEF GatewayRestarts
  <2> QED BY <1>5, <2>1 DEF GatewayRestarts, Drop
<1>6. CASE CallerDies
  <2>1. faults' \in 0 .. MaxFaults
    BY <1>6, FaultCounts DEF CallerDies
  <2> QED BY <1>6, <2>1 DEF CallerDies
<1>7. CASE Tick
  BY <1>7 DEF Tick, Prompt
<1>8. CASE UNCHANGED vars
  BY <1>8 DEF vars
<1> QED BY <1>1, <1>2, <1>3, <1>4, <1>5, <1>6, <1>7, <1>8 DEF Next, OfCommand

(* What was executed: the gateway's half of the protocol.                  *)
LEMMA ExecutionsStep ==
  ASSUME TypeOK, Executions, [Next]_vars
  PROVE  Executions'
<1> USE TimesAssumption, FaultsAssumption
   DEF TypeOK, Oldest, Waiting, callerVars, gatewayVars, linkVars,
       Executions, NothingBefore, UnseenBefore, ForgottenIsGone, AtMostOnce, Read
<1>1. CASE \E c \in Commands : OfCommand(c)
  <2> PICK c \in Commands : OfCommand(c)
    BY <1>1
  <2>1. CASE Ask(c)
    BY <2>1 DEF Ask
  <2>2. CASE WatcherOpens(c)
    BY <2>2 DEF WatcherOpens
  <2>3. CASE InsertCommand(c)
    BY <2>3 DEF InsertCommand, Changed
  <2>4. CASE InsertFails(c)
    BY <2>4, ZenonT(60) DEF InsertFails
  <2>5. CASE Notify(c)
    BY <2>5 DEF Notify, DoCheckReply
  <2>6. CASE TimerFires(c)
    BY <2>6 DEF TimerFires, DoCheckReply
  <2>7. CASE ReadCommand(c)
    BY <2>7, ZenonT(60) DEF ReadCommand
  <2>8. CASE ReadFails(c)
    BY <2>8, ZenonT(60) DEF ReadFails, CheckEnds
  <2>9. CASE ConcludeCheck(c)
    BY <2>9 DEF ConcludeCheck, Settle, CheckEnds
  <2>10. CASE RemoveCommand(c)
    BY <2>10 DEF RemoveCommand, Changed
  <2>11. CASE RemoveFails(c)
    BY <2>11 DEF RemoveFails
  <2>12. CASE WatcherFails(c)
    BY <2>12, ZenonT(60) DEF WatcherFails
  <2>13. CASE Publish(c)
    BY <2>13 DEF Publish, Execute
  <2>14. CASE PublishRemoval(c)
    BY <2>14 DEF PublishRemoval
  <2>15. CASE FunctionEnds(c)
    BY <2>15 DEF FunctionEnds
  <2>16. CASE FunctionReply(c)
    BY <2>16 DEF FunctionReply, Changed
  <2>17. CASE RemoveOldCommand(c)
    BY <2>17 DEF RemoveOldCommand, Changed
  <2> QED BY <2>1, <2>2, <2>3, <2>4, <2>5, <2>6, <2>7, <2>8, <2>9, <2>10, <2>11, <2>12, <2>13, <2>14,
            <2>15, <2>16, <2>17
     DEF OfCommand, CallerStep, GatewayStep
<1>2. CASE SetUpObservers
  BY <1>2 DEF SetUpObservers, Execute
<1>3. CASE Connect
  BY <1>3 DEF Connect
<1>4. CASE Disconnect
  BY <1>4 DEF Disconnect, Drop
<1>5. CASE GatewayRestarts
  <2> HIDE DEF Executions, NothingBefore, UnseenBefore, ForgottenIsGone, AtMostOnce
  <2>1. NothingBefore'
    BY <1>5
       DEF GatewayRestarts, Drop, callerVars, TypeOK, Waiting, Executions, Read,
           UnseenBefore, NothingBefore
  <2>2. UnseenBefore'
    BY <1>5
       DEF GatewayRestarts, Drop, callerVars, TypeOK, Waiting, Executions, Read,
           UnseenBefore, NothingBefore
  <2>3. ForgottenIsGone'
    BY <1>5
       DEF GatewayRestarts, Drop, callerVars, TypeOK, Waiting, Executions, Read,
           UnseenBefore, ForgottenIsGone
  <2>4. AtMostOnce'
    <3>1. times' = [c \in Commands |-> 0]
      BY <1>5 DEF GatewayRestarts
    <3>2. \A c \in Commands : times'[c] = 0
      BY <3>1, Zenon
    <3> QED BY <3>2 DEF AtMostOnce
  <2> QED BY <2>1, <2>2, <2>3, <2>4 DEF Executions
<1>6. CASE CallerDies
  BY <1>6 DEF CallerDies
<1>7. CASE Tick
  BY <1>7 DEF Tick, Prompt
<1>8. CASE UNCHANGED vars
  BY <1>8 DEF vars
<1> QED BY <1>1, <1>2, <1>3, <1>4, <1>5, <1>6, <1>7, <1>8 DEF Next, OfCommand

(* What a caller relies on: its half.                                      *)
LEMMA CallersStep ==
  ASSUME Timeout <= SweepAge, TypeOK, Executions, Callers, [Next]_vars
  PROVE  Callers'
<1> USE TimesAssumption, FaultsAssumption
   DEF TypeOK, Oldest, Waiting, callerVars, gatewayVars, linkVars
<1>1. CASE \E c \in Commands : OfCommand(c)
  <2> PICK c \in Commands : OfCommand(c)
    BY <1>1
  <2>1. CASE Ask(c)
    BY <2>1
       DEF Ask, Executions, NothingBefore, UnseenBefore, Callers, WaitingIsSent,
           FiredIsLate, NoneIsMissed, WillLook, NotSwept, HasDocument, Read
  <2>2. CASE WatcherOpens(c)
    BY <2>2
       DEF WatcherOpens, Executions, NothingBefore, UnseenBefore, Callers,
           WaitingIsSent, FiredIsLate, NoneIsMissed, WillLook, NotSwept, HasDocument,
           Read
  <2>3. CASE InsertCommand(c)
    BY <2>3
       DEF InsertCommand, Changed, Executions, NothingBefore, UnseenBefore, Callers,
           WaitingIsSent, FiredIsLate, NoneIsMissed, WillLook, NotSwept, HasDocument,
           Read
  <2>4. CASE InsertFails(c)
    <3>1. WaitingIsSent'
      BY <2>4 DEF InsertFails, Read, Callers, Executions, NothingBefore, WaitingIsSent
    <3>2. FiredIsLate'
      BY <2>4 DEF InsertFails, Read, Callers, FiredIsLate
    <3>3. NoneIsMissed'
      BY <2>4
         DEF InsertFails, Read, Callers, HasDocument, UnseenBefore, Executions,
             WaitingIsSent, NoneIsMissed
    <3>4. WillLook'
      BY <2>4 DEF InsertFails, Read, Callers, NoneIsMissed, FiredIsLate, WillLook
    <3>5. NotSwept'
      BY <2>4 DEF InsertFails, Read, Callers, NotSwept
    <3>6. HasDocument'
      BY <2>4 DEF InsertFails, Read, Callers, WaitingIsSent, HasDocument
    <3> QED BY <3>1, <3>2, <3>3, <3>4, <3>5, <3>6 DEF Callers
  <2>5. CASE Notify(c)
    BY <2>5
       DEF Notify, DoCheckReply, Executions, NothingBefore, UnseenBefore, Callers,
           WaitingIsSent, FiredIsLate, NoneIsMissed, WillLook, NotSwept, HasDocument,
           Read
  <2>6. CASE TimerFires(c)
    BY <2>6
       DEF TimerFires, DoCheckReply, Executions, NothingBefore, UnseenBefore, Callers,
           WaitingIsSent, FiredIsLate, NoneIsMissed, WillLook, NotSwept, HasDocument,
           Read
  <2>7. CASE ReadCommand(c)
    <3>1. WaitingIsSent'
      BY <2>7 DEF ReadCommand, Read, Callers, Executions, NothingBefore, WaitingIsSent
    <3>2. FiredIsLate'
      BY <2>7 DEF ReadCommand, Read, Callers, FiredIsLate
    <3>3. NoneIsMissed'
      BY <2>7, ZenonT(60)
         DEF ReadCommand, Read, Callers, HasDocument, UnseenBefore, Executions,
             WaitingIsSent, NoneIsMissed
    <3>4. WillLook'
      BY <2>7 DEF ReadCommand, Read, Callers, NoneIsMissed, FiredIsLate, WillLook
    <3>5. NotSwept'
      BY <2>7, ZenonT(60) DEF ReadCommand, Read, Callers, NotSwept
    <3>6. HasDocument'
      BY <2>7, ZenonT(60) DEF ReadCommand, Read, Callers, WaitingIsSent, HasDocument
    <3> QED BY <3>1, <3>2, <3>3, <3>4, <3>5, <3>6 DEF Callers
  <2>8. CASE ReadFails(c)
    <3>1. WaitingIsSent'
      BY <2>8
         DEF ReadFails, CheckEnds, Read, Callers, Executions, NothingBefore,
             WaitingIsSent
    <3>2. FiredIsLate'
      BY <2>8 DEF ReadFails, CheckEnds, Read, Callers, FiredIsLate
    <3>3. NoneIsMissed'
      BY <2>8
         DEF ReadFails, CheckEnds, Read, Callers, HasDocument, UnseenBefore,
             Executions, WaitingIsSent, NoneIsMissed
    <3>4. WillLook'
      BY <2>8 DEF ReadFails, CheckEnds, Read, Callers, NoneIsMissed, FiredIsLate, WillLook
    <3>5. NotSwept'
      BY <2>8 DEF ReadFails, CheckEnds, Read, Callers, NotSwept
    <3>6. HasDocument'
      BY <2>8 DEF ReadFails, CheckEnds, Read, Callers, WaitingIsSent, HasDocument
    <3> QED BY <3>1, <3>2, <3>3, <3>4, <3>5, <3>6 DEF Callers
  <2>9. CASE ConcludeCheck(c)
    <3>1. WaitingIsSent'
      BY <2>9
         DEF ConcludeCheck, Settle, CheckEnds, Read, Callers, Executions,
             NothingBefore, WaitingIsSent
    <3>2. FiredIsLate'
      BY <2>9 DEF ConcludeCheck, Settle, CheckEnds, Read, Callers, FiredIsLate
    <3>3. NoneIsMissed'
      BY <2>9
         DEF ConcludeCheck, Settle, CheckEnds, Read, Callers, HasDocument,
             UnseenBefore, Executions, WaitingIsSent, NoneIsMissed
    <3>4. WillLook'
      BY <2>9
         DEF ConcludeCheck, Settle, CheckEnds, Read, Callers, NoneIsMissed,
             FiredIsLate, WillLook
    <3>5. NotSwept'
      BY <2>9 DEF ConcludeCheck, Settle, CheckEnds, Read, Callers, NotSwept
    <3>6. HasDocument'
      BY <2>9
         DEF ConcludeCheck, Settle, CheckEnds, Read, Callers, WaitingIsSent,
             HasDocument
    <3> QED BY <3>1, <3>2, <3>3, <3>4, <3>5, <3>6 DEF Callers
  <2>10. CASE RemoveCommand(c)
    BY <2>10
       DEF RemoveCommand, Changed, Executions, NothingBefore, UnseenBefore, Callers,
           WaitingIsSent, FiredIsLate, NoneIsMissed, WillLook, NotSwept, HasDocument,
           Read
  <2>11. CASE RemoveFails(c)
    BY <2>11
       DEF RemoveFails, Executions, NothingBefore, UnseenBefore, Callers,
           WaitingIsSent, FiredIsLate, NoneIsMissed, WillLook, NotSwept, HasDocument,
           Read
  <2>12. CASE WatcherFails(c)
    <3>1. WaitingIsSent'
      BY <2>12 DEF WatcherFails, Read, Callers, Executions, NothingBefore, WaitingIsSent
    <3>2. FiredIsLate'
      BY <2>12 DEF WatcherFails, Read, Callers, FiredIsLate
    <3>3. NoneIsMissed'
      BY <2>12
         DEF WatcherFails, Read, Callers, HasDocument, UnseenBefore, Executions,
             WaitingIsSent, NoneIsMissed
    <3>4. WillLook'
      BY <2>12 DEF WatcherFails, Read, Callers, NoneIsMissed, FiredIsLate, WillLook
    <3>5. NotSwept'
      BY <2>12 DEF WatcherFails, Read, Callers, NotSwept
    <3>6. HasDocument'
      BY <2>12 DEF WatcherFails, Read, Callers, WaitingIsSent, HasDocument
    <3> QED BY <3>1, <3>2, <3>3, <3>4, <3>5, <3>6 DEF Callers
  <2>13. CASE Publish(c)
    BY <2>13
       DEF Publish, Execute, Executions, NothingBefore, UnseenBefore, Callers,
           WaitingIsSent, FiredIsLate, NoneIsMissed, WillLook, NotSwept, HasDocument,
           Read
  <2>14. CASE PublishRemoval(c)
    BY <2>14
       DEF PublishRemoval, Executions, NothingBefore, UnseenBefore, Callers,
           WaitingIsSent, FiredIsLate, NoneIsMissed, WillLook, NotSwept, HasDocument,
           Read
  <2>15. CASE FunctionEnds(c)
    BY <2>15
       DEF FunctionEnds, Executions, NothingBefore, UnseenBefore, Callers,
           WaitingIsSent, FiredIsLate, NoneIsMissed, WillLook, NotSwept, HasDocument,
           Read
  <2>16. CASE FunctionReply(c)
    BY <2>16
       DEF FunctionReply, Changed, Executions, NothingBefore, UnseenBefore, Callers,
           WaitingIsSent, FiredIsLate, NoneIsMissed, WillLook, NotSwept, HasDocument,
           Read
  <2>17. CASE RemoveOldCommand(c)
    BY <2>17
       DEF RemoveOldCommand, Changed, Executions, NothingBefore, UnseenBefore, Callers,
           WaitingIsSent, FiredIsLate, NoneIsMissed, WillLook, NotSwept, HasDocument,
           Read
  <2> QED BY <2>1, <2>2, <2>3, <2>4, <2>5, <2>6, <2>7, <2>8, <2>9, <2>10, <2>11, <2>12, <2>13, <2>14,
            <2>15, <2>16, <2>17
     DEF OfCommand, CallerStep, GatewayStep
<1>2. CASE SetUpObservers
  BY <1>2
     DEF SetUpObservers, Execute, Executions, NothingBefore, UnseenBefore, Callers,
         WaitingIsSent, FiredIsLate, NoneIsMissed, WillLook, NotSwept, HasDocument,
         Read
<1>3. CASE Connect
  BY <1>3
     DEF Connect, Executions, NothingBefore, UnseenBefore, Callers, WaitingIsSent,
         FiredIsLate, NoneIsMissed, WillLook, NotSwept, HasDocument, Read
<1>4. CASE Disconnect
  BY <1>4
     DEF Disconnect, Drop, Executions, NothingBefore, UnseenBefore, Callers,
         WaitingIsSent, FiredIsLate, NoneIsMissed, WillLook, NotSwept, HasDocument,
         Read
<1>5. CASE GatewayRestarts
  BY <1>5
     DEF GatewayRestarts, Drop, Executions, NothingBefore, UnseenBefore, Callers,
         WaitingIsSent, FiredIsLate, NoneIsMissed, WillLook, NotSwept, HasDocument,
         Read
<1>6. CASE CallerDies
  BY <1>6
     DEF CallerDies, Executions, NothingBefore, UnseenBefore, Callers, WaitingIsSent,
         FiredIsLate, NoneIsMissed, WillLook, NotSwept, HasDocument, Read
<1>7. CASE Tick
  BY <1>7
     DEF Tick, Prompt, Executions, NothingBefore, UnseenBefore, Callers, WaitingIsSent,
         FiredIsLate, NoneIsMissed, WillLook, NotSwept, HasDocument, Read
<1>8. CASE UNCHANGED vars
  BY <1>8
     DEF vars, Executions, NothingBefore, UnseenBefore, Callers, WaitingIsSent,
         FiredIsLate, NoneIsMissed, WillLook, NotSwept, HasDocument, Read
<1> QED BY <1>1, <1>2, <1>3, <1>4, <1>5, <1>6, <1>7, <1>8 DEF Next, OfCommand

(***************************************************************************)
(* The theorems.                                                           *)
(***************************************************************************)

(* Initially there is nothing.                                             *)
LEMMA InitHolds == Init => TypeOK /\ Executions /\ Callers
<1> SUFFICES ASSUME Init PROVE TypeOK /\ Executions /\ Callers
  OBVIOUS
<1> USE TimesAssumption, FaultsAssumption
<1>1. 0 \in 0 .. Oldest
  BY DEF Oldest
<1>2. TypeOK
  <2>1. age \in [Commands -> 0 .. Oldest] /\ faults \in 0 .. MaxFaults
    BY <1>1 DEF Init
  <2>2. times \in [Commands -> Nat]
    BY DEF Init
  <2> QED BY <2>1, <2>2 DEF Init, TypeOK
<1>3. Executions
  BY DEF Init, Executions, NothingBefore, UnseenBefore, ForgottenIsGone, AtMostOnce, Read
<1>4. Callers
  BY
     DEF Init, Waiting, Callers, WaitingIsSent, FiredIsLate, NoneIsMissed, WillLook,
         NotSwept, HasDocument
<1> QED BY <1>2, <1>3, <1>4

(* Documents, callers, the gateway and the connection always hold what the *)
(* schema and the code of peripheralDevice.ts and coreHandler.ts allow.    *)
THEOREM TypeCorrect == Spec => []TypeOK
<1>1. Init => TypeOK
  BY InitHolds
<1>2. TypeOK /\ [Next]_vars => TypeOK'
  BY TypeStep
<1> QED BY <1>1, <1>2, PTL DEF Spec

(* _executedFunctions keeps a process of a gateway from beginning a        *)
(* command twice, through republication, reconnections and removals.       *)
THEOREM AtMostOnceHolds == Spec => []AtMostOnce
<1>1. Init => TypeOK /\ Executions
  BY InitHolds
<1>2. TypeOK /\ Executions /\ [Next]_vars => (TypeOK /\ Executions)'
  BY TypeStep, ExecutionsStep
<1>3. Executions => AtMostOnce
  BY DEF Executions
<1> QED BY <1>1, <1>2, <1>3, PTL DEF Spec

(* If no timeout is longer than the age at which removeOldCommands sweeps, *)
(* a caller that waits has its document and will look at it again.         *)
THEOREM NoCallerStrandedHolds ==
  ASSUME Timeout <= SweepAge
  PROVE  Spec => []NoCallerStranded
<1>1. Init => TypeOK /\ Executions /\ Callers
  BY InitHolds
<1>2. TypeOK /\ Executions /\ Callers /\ [Next]_vars => (TypeOK /\ Executions /\ Callers)'
  BY TypeStep, ExecutionsStep, CallersStep
<1>3. Callers => NoCallerStranded
  BY DEF Callers, WillLook, HasDocument, NoCallerStranded, Read
<1> QED BY <1>1, <1>2, <1>3, PTL DEF Spec
=============================================================================
