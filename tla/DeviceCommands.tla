--------------------------- MODULE DeviceCommands ---------------------------
(***************************************************************************)
(* A command to a peripheral device: executePeripheralDeviceFunction       *)
(* (job-worker/src/peripheralDevice.ts; Meteor has one of its own, much    *)
(* like it) writes a document and waits for a reply in it;                 *)
(* a gateway (playout-gateway/src/coreHandler.ts) has the documents        *)
(* published to it, executes each and calls functionReply; and Meteor      *)
(* sweeps the documents that are old.                                      *)
(*                                                                         *)
(* The caller's process, the gateway, the connection between Meteor and    *)
(* the gateway, and single operations on the database may fail.            *)
(***************************************************************************)
EXTENDS Naturals, FiniteSets

CONSTANTS
  Commands,   \* the commands that are ever asked for
  Timeout,    \* after how long a caller gives up
  SweepAge,   \* how old a document must be to be swept
  Faults,     \* what may go wrong: a subset of FaultKinds
  MaxFaults   \* bound: how often

FaultKinds == {"insert fails", "read fails", "read early", "remove fails", "watch fails",
               "caller dies", "disconnect", "gateway restarts"}

ASSUME TimesAssumption == Timeout \in Nat \ {0} /\ SweepAge \in Nat \ {0}
ASSUME FaultsAssumption == Faults \subseteq FaultKinds /\ MaxFaults \in Nat

VARIABLES
  docs,      \* the collection PeripheralDeviceCommands: whether a command has its reply
  age,       \* the time since a command was asked for
  outcome,   \* what the caller's promise has become
  insert,    \* the insertOne of a command
  timer,     \* commands whose timeoutCheck is set
  watcher,   \* the change stream of a command
  notice,    \* commands with a change that the change stream has still to tell
  check,     \* checkReply: idle, about to read, or what it has read
  pending,   \* commands of which another check is wanted
  missed,    \* ghost: commands whose last check did not see the document
  removing,  \* commands whose document is being removed by the caller
  connected, \* whether the gateway is connected to Meteor
  observing, \* whether the gateway has set up its observers
  session,   \* what Meteor has published of a command over this connection
  local,     \* the gateway's collection
  executed,  \* the gateway's _executedFunctions
  running,   \* commands the gateway is executing
  replies,   \* functionReply calls on their way
  times,     \* ghost: how often this process of the gateway has begun a command
  faults

callerVars == <<outcome, insert, timer, watcher, check, pending, missed, removing>>
gatewayVars == <<observing, local, executed, running, times>>
linkVars == <<connected, session, replies>>
vars == <<docs, age, notice, callerVars, gatewayVars, linkVars, faults>>

Oldest == 1 + (IF Timeout > SweepAge THEN Timeout ELSE SweepAge)
Waiting(c) == outcome[c] = "waiting"
Fault(kind) == kind \in Faults /\ faults < MaxFaults /\ faults' = faults + 1

(* What the database, the caller, the gateway and the connection hold.     *)
TypeOK ==
  /\ docs \in [Commands -> {"none", "asked", "replied"}]
  /\ age \in [Commands -> 0..Oldest]
  /\ outcome \in [Commands -> {"none", "waiting", "reply", "timeout", "error", "gone"}]
  /\ insert \in [Commands -> {"no", "sent", "done", "failed"}]
  /\ watcher \in [Commands -> {"none", "opening", "open"}]
  /\ check \in [Commands -> {"idle", "reading", "none", "asked", "replied"}]
  /\ session \in [Commands -> {"none", "asked", "replied"}]
  /\ timer \in SUBSET Commands /\ notice \in SUBSET Commands /\ pending \in SUBSET Commands
  /\ missed \in SUBSET Commands /\ removing \in SUBSET Commands
  /\ local \in SUBSET Commands /\ executed \in SUBSET Commands
  /\ running \in SUBSET Commands /\ replies \in SUBSET Commands
  /\ connected \in BOOLEAN /\ observing \in BOOLEAN
  /\ times \in [Commands -> Nat]
  /\ faults \in 0..MaxFaults

Init ==
  /\ docs = [c \in Commands |-> "none"]
  /\ age = [c \in Commands |-> 0]
  /\ outcome = [c \in Commands |-> "none"]
  /\ insert = [c \in Commands |-> "no"]
  /\ watcher = [c \in Commands |-> "none"]
  /\ check = [c \in Commands |-> "idle"]
  /\ timer = {} /\ notice = {} /\ pending = {} /\ missed = {} /\ removing = {}
  /\ connected = FALSE /\ observing = FALSE
  /\ session = [c \in Commands |-> "none"]
  /\ local = {} /\ executed = {} /\ running = {} /\ replies = {}
  /\ times = [c \in Commands |-> 0]
  /\ faults = 0

-----------------------------------------------------------------------------
(* The caller: executePeripheralDeviceFunction. *)

(* The change stream, the timer and the insert are begun in one go.        *)
Ask(c) ==
  /\ outcome[c] = "none"
  /\ outcome' = [outcome EXCEPT ![c] = "waiting"]
  /\ watcher' = [watcher EXCEPT ![c] = "opening"]
  /\ timer' = timer \cup {c}
  /\ insert' = [insert EXCEPT ![c] = "sent"]
  /\ UNCHANGED <<docs, age, notice, check, pending, missed, removing, gatewayVars, linkVars, faults>>

(* A change stream tells what happens after it has been opened.            *)
WatcherOpens(c) ==
  /\ watcher[c] = "opening"
  /\ watcher' = [watcher EXCEPT ![c] = "open"]
  /\ UNCHANGED <<docs, age, notice, outcome, insert, timer, check, pending, missed, removing,
                 gatewayVars, linkVars, faults>>

Changed(c) == notice' = IF watcher[c] = "open" THEN notice \cup {c} ELSE notice

InsertCommand(c) ==
  /\ insert[c] = "sent"
  /\ insert' = [insert EXCEPT ![c] = "done"]
  /\ docs' = [docs EXCEPT ![c] = "asked"]
  /\ Changed(c)
  /\ UNCHANGED <<age, outcome, timer, watcher, check, pending, missed, removing,
                 gatewayVars, linkVars, faults>>

(* Mutant: the insert is not awaited. *)
InsertFailsUnheard(c) ==
  /\ insert[c] = "sent"
  /\ Fault("insert fails")
  /\ insert' = [insert EXCEPT ![c] = "failed"]
  /\ UNCHANGED <<docs, age, notice, outcome, timer, watcher, check, pending, missed, removing,
                 gatewayVars, linkVars>>

(* The caller gets the error; the timer and the change stream are left.    *)
InsertFails(c) ==
  /\ insert[c] = "sent"
  /\ Fault("insert fails")
  /\ insert' = [insert EXCEPT ![c] = "failed"]
  /\ outcome' = [outcome EXCEPT ![c] = IF Waiting(c) THEN "error" ELSE @]
  /\ UNCHANGED <<docs, age, notice, timer, watcher, check, pending, missed, removing,
                 gatewayVars, linkVars>>

(* doCheckReply: one check at a time, and another after it if need be.     *)
DoCheckReply(c) ==
  IF check[c] = "idle"
  THEN check' = [check EXCEPT ![c] = "reading"] /\ pending' = pending \ {c}
  ELSE pending' = pending \cup {c} /\ UNCHANGED check

(* The end of checkReply. *)
CheckEnds(c) ==
  /\ check' = [check EXCEPT ![c] = IF c \in pending THEN "reading" ELSE "idle"]
  /\ pending' = pending \ {c}

Notify(c) ==
  /\ c \in notice
  /\ notice' = notice \ {c}
  /\ DoCheckReply(c)
  /\ UNCHANGED <<docs, age, outcome, insert, timer, watcher, missed, removing,
                 gatewayVars, linkVars, faults>>

TimerFires(c) ==
  /\ c \in timer /\ age[c] >= Timeout
  /\ timer' = timer \ {c}
  /\ DoCheckReply(c)
  /\ UNCHANGED <<docs, age, notice, outcome, insert, watcher, missed, removing,
                 gatewayVars, linkVars, faults>>

(* The findOne of checkReply; it may be answered before the insert is, if  *)
(* the database is slow.                                                   *)
ReadCommand(c) ==
  /\ check[c] = "reading"
  /\ check' = [check EXCEPT ![c] = docs[c]]
  /\ IF insert[c] = "sent" THEN Fault("read early") /\ missed' = missed \cup {c}
     ELSE missed' = (IF docs[c] = "none" THEN missed ELSE missed \ {c}) /\ UNCHANGED faults
  /\ UNCHANGED <<docs, age, notice, outcome, insert, timer, watcher, pending, removing,
                 gatewayVars, linkVars>>

ReadFails(c) ==
  /\ check[c] = "reading"
  /\ Fault("read fails")
  /\ CheckEnds(c)
  /\ missed' = missed \cup {c}
  /\ UNCHANGED <<docs, age, notice, outcome, insert, timer, watcher, removing, gatewayVars, linkVars>>

(* Mutant: the promise is settled with the document. *)
SettleWithDocument(c, how) ==
  /\ outcome' = [outcome EXCEPT ![c] = IF Waiting(c) THEN docs[c] ELSE @]
  /\ timer' = timer \ {c}
  /\ watcher' = [watcher EXCEPT ![c] = "none"]
  /\ notice' = notice \ {c}
  /\ removing' = removing \cup {c}

(* cleanup(), and the promise. *)
Settle(c, how) ==
  /\ outcome' = [outcome EXCEPT ![c] = IF Waiting(c) THEN how ELSE @]
  /\ timer' = timer \ {c}
  /\ watcher' = [watcher EXCEPT ![c] = "none"]
  /\ notice' = notice \ {c}
  /\ removing' = removing \cup {c}

(* Mutant: it is a timeout only when more than the time has passed. *)
ConcludeCheckLate(c) ==
  /\ check[c] \in {"none", "asked", "replied"}
  /\ CASE check[c] = "replied" -> Settle(c, "reply")
       [] check[c] = "asked" /\ age[c] > Timeout -> Settle(c, "timeout")
       [] OTHER -> UNCHANGED <<outcome, timer, watcher, notice, removing>>
  /\ CheckEnds(c)
  /\ UNCHANGED <<docs, age, insert, missed, gatewayVars, linkVars, faults>>

(* Mutant: the time is looked at before the reply. *)
ConcludeCheckByTime(c) ==
  /\ check[c] \in {"none", "asked", "replied"}
  /\ CASE check[c] # "none" /\ age[c] >= Timeout -> Settle(c, "timeout")
       [] check[c] = "replied" /\ age[c] < Timeout -> Settle(c, "reply")
       [] OTHER -> UNCHANGED <<outcome, timer, watcher, notice, removing>>
  /\ CheckEnds(c)
  /\ UNCHANGED <<docs, age, insert, missed, gatewayVars, linkVars, faults>>

(* The rest of checkReply, with what was read and the time that it is now. *)
ConcludeCheck(c) ==
  /\ check[c] \in {"none", "asked", "replied"}
  /\ CASE check[c] = "replied" -> Settle(c, "reply")
       [] check[c] = "asked" /\ age[c] >= Timeout -> Settle(c, "timeout")
       [] OTHER -> UNCHANGED <<outcome, timer, watcher, notice, removing>>
  /\ CheckEnds(c)
  /\ UNCHANGED <<docs, age, insert, missed, gatewayVars, linkVars, faults>>

RemoveCommand(c) ==
  /\ c \in removing
  /\ removing' = removing \ {c}
  /\ docs' = [docs EXCEPT ![c] = "none"]
  /\ Changed(c)
  /\ UNCHANGED <<age, outcome, insert, timer, watcher, check, pending, missed,
                 gatewayVars, linkVars, faults>>

RemoveFails(c) ==
  /\ c \in removing
  /\ Fault("remove fails")
  /\ removing' = removing \ {c}
  /\ UNCHANGED <<docs, age, notice, outcome, insert, timer, watcher, check, pending, missed,
                 gatewayVars, linkVars>>

(* The change stream fails, which the caller is told at once.              *)
WatcherFails(c) ==
  /\ watcher[c] # "none"
  /\ Fault("watch fails")
  /\ watcher' = [watcher EXCEPT ![c] = "none"]
  /\ notice' = notice \ {c}
  /\ outcome' = [outcome EXCEPT ![c] = IF Waiting(c) THEN "error" ELSE @]
  /\ UNCHANGED <<docs, age, insert, timer, check, pending, missed, removing, gatewayVars, linkVars>>

(* The process of the callers dies: nobody waits, and nothing is removed.  *)
CallerDies ==
  /\ Fault("caller dies")
  /\ \E c \in Commands : Waiting(c)
  /\ outcome' = [c \in Commands |-> IF Waiting(c) THEN "gone" ELSE outcome[c]]
  /\ insert' = [c \in Commands |-> IF insert[c] = "sent" THEN "failed" ELSE insert[c]]
  /\ watcher' = [c \in Commands |-> "none"]
  /\ check' = [c \in Commands |-> "idle"]
  /\ timer' = {} /\ notice' = {} /\ pending' = {} /\ removing' = {}
  /\ UNCHANGED <<docs, age, missed, gatewayVars, linkVars>>

-----------------------------------------------------------------------------
(* The gateway. *)

(* executeFunction: not what has been executed already. *)
Execute(S) ==
  LET new == S \ executed IN
  /\ executed' = executed \cup new
  /\ running' = running \cup new
  /\ times' = [c \in Commands |-> times[c] + (IF c \in new THEN 1 ELSE 0)]

(* Mutant: a command is forgotten when it has got its reply. *)
PublishRetires(c) ==
  /\ connected
  /\ docs[c] # "none" /\ session[c] # docs[c]
  /\ session' = [session EXCEPT ![c] = docs[c]]
  /\ local' = local \cup {c}
  /\ IF observing /\ docs[c] = "asked" THEN Execute({c})
                  ELSE executed' = executed \ {c} /\ UNCHANGED <<running, times>>
  /\ UNCHANGED <<docs, age, notice, callerVars, observing, connected, replies, faults>>

(* A document is published, for the first time over this connection or     *)
(* because it has its reply.                                               *)
Publish(c) ==
  /\ connected
  /\ docs[c] # "none" /\ session[c] # docs[c]
  /\ session' = [session EXCEPT ![c] = docs[c]]
  /\ local' = local \cup {c}
  /\ IF observing THEN Execute({c}) ELSE UNCHANGED <<executed, running, times>>
  /\ UNCHANGED <<docs, age, notice, callerVars, observing, connected, replies, faults>>

(* A removal is published, and the command retired. *)
PublishRemoval(c) ==
  /\ connected
  /\ docs[c] = "none" /\ session[c] # "none"
  /\ session' = [session EXCEPT ![c] = "none"]
  /\ local' = local \ {c}
  /\ executed' = IF observing THEN executed \ {c} ELSE executed
  /\ UNCHANGED <<docs, age, notice, callerVars, observing, running, times, connected, replies, faults>>

(* setupObserverForPeripheralDeviceCommands, once the subscriptions are    *)
(* ready, in a new process and after every reconnection.                   *)
SetUpObservers ==
  /\ connected
  /\ observing' = TRUE
  /\ Execute(local)
  /\ UNCHANGED <<docs, age, notice, callerVars, local, linkVars, faults>>

(* The reply is sent, or, without a connection, only logged to be lost.    *)
FunctionEnds(c) ==
  /\ c \in running
  /\ running' = running \ {c}
  /\ replies' = IF connected THEN replies \cup {c} ELSE replies
  /\ UNCHANGED <<docs, age, notice, callerVars, observing, local, executed, times,
                 connected, session, faults>>

(* functionReply: an update of the document, if there still is one.        *)
FunctionReply(c) ==
  /\ c \in replies
  /\ replies' = replies \ {c}
  /\ IF docs[c] = "none" THEN UNCHANGED <<docs, notice>>
     ELSE docs' = [docs EXCEPT ![c] = "replied"] /\ Changed(c)
  /\ UNCHANGED <<age, callerVars, gatewayVars, connected, session, faults>>

Connect ==
  /\ ~connected
  /\ connected' = TRUE
  /\ UNCHANGED <<docs, age, notice, callerVars, gatewayVars, session, replies, faults>>

(* Calls on their way are lost; the gateway's collection stays as it is.   *)
Drop ==
  /\ connected' = FALSE
  /\ session' = [c \in Commands |-> "none"]
  /\ replies' = {}

Disconnect ==
  /\ connected
  /\ Fault("disconnect")
  /\ Drop
  /\ UNCHANGED <<docs, age, notice, callerVars, gatewayVars>>

GatewayRestarts ==
  /\ Fault("gateway restarts")
  /\ Drop
  /\ observing' = FALSE
  /\ local' = {} /\ executed' = {} /\ running' = {}
  /\ times' = [c \in Commands |-> 0]
  /\ UNCHANGED <<docs, age, notice, callerVars>>

-----------------------------------------------------------------------------
(* Time and the sweep. *)

(* What a caller does at its timeout does not take until the sweep: with   *)
(* timeouts of 3 and 11 s, and a sweep at 20 s, a matter of many seconds.  *)
Prompt(c) == Waiting(c) /\ c \notin missed /\ age[c] >= Timeout => age[c] < SweepAge

Tick ==
  /\ \A c \in Commands : Prompt(c)
  /\ age' = [c \in Commands |-> IF outcome[c] # "none" /\ age[c] < Oldest THEN age[c] + 1 ELSE age[c]]
  /\ UNCHANGED <<docs, notice, callerVars, gatewayVars, linkVars, faults>>

(* Mutant: only commands that were replied to are swept. *)
RemoveOldReply(c) ==
  /\ docs[c] = "replied" /\ age[c] > SweepAge
  /\ docs' = [docs EXCEPT ![c] = "none"]
  /\ Changed(c)
  /\ UNCHANGED <<age, callerVars, gatewayVars, linkVars, faults>>

(* removeOldCommands, of one command. *)
RemoveOldCommand(c) ==
  /\ docs[c] # "none" /\ age[c] > SweepAge
  /\ docs' = [docs EXCEPT ![c] = "none"]
  /\ Changed(c)
  /\ UNCHANGED <<age, callerVars, gatewayVars, linkVars, faults>>

CallerStep(c) ==
  \/ WatcherOpens(c) \/ InsertCommand(c) \/ Notify(c) \/ TimerFires(c)
  \/ ReadCommand(c) \/ ConcludeCheck(c) \/ RemoveCommand(c)

GatewayStep(c) == Publish(c) \/ PublishRemoval(c) \/ FunctionReply(c)

Next ==
  \/ \E c \in Commands :
       \/ Ask(c) \/ CallerStep(c) \/ GatewayStep(c) \/ FunctionEnds(c) \/ RemoveOldCommand(c)
       \/ InsertFails(c) \/ ReadFails(c) \/ RemoveFails(c) \/ WatcherFails(c)
  \/ SetUpObservers \/ Connect \/ Disconnect \/ GatewayRestarts \/ CallerDies \/ Tick

Spec == Init /\ [][Next]_vars

(* Operations on the database are answered, timers fire, the clock runs    *)
(* and Meteor sweeps.  The gateway need not connect, nor a function end.   *)
Fairness ==
  /\ WF_vars(Tick)
  /\ \A c \in Commands :
       /\ WF_vars(WatcherOpens(c))
       /\ WF_vars(InsertCommand(c))
       /\ WF_vars(Notify(c))
       /\ WF_vars(TimerFires(c))
       /\ WF_vars(ReadCommand(c))
       /\ WF_vars(ConcludeCheck(c))
       /\ WF_vars(RemoveOldCommand(c))

FairSpec == Spec /\ Fairness

-----------------------------------------------------------------------------
(* Properties. *)

(* A caller that waits has a document to be answered in, and something     *)
(* that will make it look again: a timer, or a check that is going on.     *)
NoCallerStranded ==
  \A c \in Commands :
    Waiting(c) /\ insert[c] = "done" /\ c \notin missed =>
      /\ docs[c] # "none" \/ check[c] \in {"asked", "replied"}
      /\ c \in timer \/ check[c] # "idle"

(* A process of a gateway begins no command twice, although documents are  *)
(* published again when they get their reply and after a reconnection, and *)
(* its collection keeps those that were removed in between.                *)
AtMostOnce == \A c \in Commands : times[c] <= 1

(* Every caller gets an answer, whatever becomes of the gateway, unless    *)
(* its own process dies or the last look at the document failed.           *)
EveryCallerAnswered == \A c \in Commands : Waiting(c) ~> ~Waiting(c) \/ c \in missed

(* A reply that is stored before the caller has read the document for the  *)
(* last time is what the caller gets, were it told of it late or never.    *)
StoredReplyIsHeard ==
  \A c \in Commands :
    Waiting(c) /\ docs[c] = "replied" /\ check[c] \notin {"asked", "none"} ~>
      outcome[c] \in {"reply", "error", "gone"} \/ c \in missed

(* No document stays for ever, though its caller died or failed to remove  *)
(* it.                                                                     *)
NoLeftoverCommand == \A c \in Commands : docs[c] # "none" ~> docs[c] = "none"
=============================================================================
