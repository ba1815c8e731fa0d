------------------------ MODULE TaskManagerProofs ------------------------
(* Theorems about TaskManager, for every value of its constants.           *)
EXTENDS TaskManager, SequenceTheorems, TLAPS

Items   == [action : {"DELETE", "SUSPEND", "RESUME"}, handle : Handles]
Waiting == taskman_queue # <<>>
Item    == taskman_queue[1]

-----------------------------------------------------------------------------
(* Type correctness.                                                       *)

\* A start is a command: there are no more incarnations than commands.
TypeInv == TypeOK /\ \A t \in Tasks : inc[t] <= ncmd

\* The queue has one slot.
LEMMA OneSlot ==
  ASSUME NEW S, NEW q \in Seq(S), Len(q) <= 1
  PROVE  /\ q # <<>> => /\ q[1] \in S /\ Head(q) = q[1]
                        /\ Tail(q) = <<>> /\ Tail(q) \in Seq(S) /\ Len(Tail(q)) = 0
         /\ Len(q) < 1 => q = <<>>
         /\ \A e \in S : q = <<>> =>
              /\ Append(q, e) \in Seq(S) /\ Len(Append(q, e)) = 1
              /\ Append(q, e)[1] = e /\ Append(q, e) # <<>>
  <1>1. Len(q) < 1 => q = <<>>
    BY EmptySeq
  <1>2. ASSUME q # <<>>
        PROVE  /\ q[1] \in S /\ Head(q) = q[1]
               /\ Tail(q) = <<>> /\ Tail(q) \in Seq(S) /\ Len(Tail(q)) = 0
    <2>1. Len(q) = 1
      <3>1. Len(q) \in Nat /\ Len(q) # 0
        BY <1>2
      <3> QED
        BY <1>2, <3>1
    <2>2. q[1] \in S /\ Head(q) = q[1]
      BY <2>1
    <2>3. Len(Tail(q)) = 0 /\ Tail(q) \in Seq(S)
      BY <2>1
    <2> QED
      BY <2>2, <2>3, EmptySeq
  <1>3. ASSUME NEW e \in S, q = <<>>
        PROVE  /\ Append(q, e) \in Seq(S) /\ Len(Append(q, e)) = 1
               /\ Append(q, e)[1] = e /\ Append(q, e) # <<>>
    BY <1>3
  <1> QED
    BY <1>1, <1>2, <1>3

LEMMA CommandTypes ==
  /\ \A c \in Commands : Action(c) \in {"DELETE", "SUSPEND", "RESUME"}
  /\ \A h \in Handles : /\ h.task \in Tasks
                        /\ \A a \in {"DELETE", "SUSPEND", "RESUME"} :
                             [action |-> a, handle |-> h] \in Items
  /\ "watchdog" \in Tasks /\ "cli" \in Tasks /\ "taskmanager" \in Tasks
  /\ Services \subseteq Tasks
  BY DEF Commands, Action, Handles, Items, Tasks, Services

\* What an item of the queue does to the states of the tasks.
LEMMA PerformTypes ==
  ASSUME TypeOK, NEW item \in Items, Perform(item)
  PROVE  /\ state' \in [Tasks -> {"none", "live", "suspended"}]
         /\ \A t \in Tasks : t # item.handle.task => state'[t] = state[t]
         /\ item.action = "SUSPEND" => state'[item.handle.task] = "suspended"
  <1>1. item.handle.task \in Tasks /\ item.action \in {"DELETE", "SUSPEND", "RESUME"}
    BY DEF Items, Handles
  <1> QED
    BY <1>1 DEF Perform, TypeOK

LEMMA TypeInit == Init => TypeInv
  <1> SUFFICES ASSUME Init PROVE TypeInv
    OBVIOUS
  <1> USE TaskManagerConstants
  <1>1. cmd \in [name : Commands, handle : Handles]
    BY DEF Init, Commands, Handles, Tasks, Services
  <1>2. /\ state \in [Tasks -> {"none", "live", "suspended"}]
        /\ inc \in [Tasks -> 0 .. MaxCmds] /\ said \in [Tasks -> {"nothing", "suspend", "resume"}]
        /\ \A t \in Tasks : inc[t] <= ncmd
    BY DEF Init, AtBoot
  <1>3. /\ taskman_queue \in Seq([action : {"DELETE", "SUSPEND", "RESUME"}, handle : Handles])
        /\ Len(taskman_queue) <= TASKMAN_QUEUE_DEPTH
    BY DEF Init, TASKMAN_QUEUE_DEPTH
  <1>4. /\ armed \in BOOLEAN /\ forced \in BOOLEAN /\ up \in BOOLEAN
        /\ dropped \in BOOLEAN /\ dangled \in BOOLEAN /\ lapse \in BOOLEAN
    BY DEF Init
  <1> QED
    BY <1>1, <1>2, <1>3, <1>4 DEF Init, TypeInv, TypeOK

LEMMA AfterRequestTypes ==
  ASSUME TypeInv, AfterRequest
  PROVE  /\ cpc' \in {"idle", "spin"} /\ ct' = 0
         /\ said' \in [Tasks -> {"nothing", "suspend", "resume"}]
         /\ UNCHANGED <<cmd, ncmd, pace>>
  BY DEF AfterRequest, TypeInv, TypeOK

LEMMA TypeStep == TypeInv /\ [Next]_vars => TypeInv'
  <1> SUFFICES ASSUME TypeInv, [Next]_vars PROVE TypeInv'
    OBVIOUS
  <1> USE TaskManagerConstants DEF TypeInv, TypeOK, TASKMAN_QUEUE_DEPTH, cliVars, watchdogVars
  <1>1. ASSUME NEW c \in Commands, NEW t \in Targets \cup {"watchdog"}, Request(c, t)
        PROVE TypeInv'
    <2>1. t \in Tasks /\ ncmd + 1 \in 0 .. MaxCmds
      BY <1>1, CommandTypes DEF Request, AtPrompt
    <2>2. Handle(t) \in Handles
      BY <2>1 DEF Handle, Handles
    <2> QED
      BY <1>1, <2>1, <2>2 DEF Request
  <1>2. CASE RebootAtOnce
    BY <1>2 DEF RebootAtOnce, AtPrompt
  <1>3. ASSUME NEW t \in Targets, Start(t) PROVE TypeInv'
    <2>1. t \in Tasks /\ ncmd + 1 \in 0 .. MaxCmds /\ inc[t] + 1 \in 0 .. MaxCmds
      BY <1>3, CommandTypes DEF Start, AtPrompt
    <2>2. inc' \in [Tasks -> 0 .. MaxCmds] /\ \A u \in Tasks : inc'[u] <= ncmd'
      BY <1>3, <2>1 DEF Start
    <2> QED
      BY <1>3, <2>1, <2>2 DEF Start
  <1>4. CASE Send
    <2>1. /\ cmd.handle \in Handles /\ cmd.name \in Commands
          /\ taskman_queue \in Seq(Items) /\ Len(taskman_queue) < 1 /\ Len(taskman_queue) <= 1
      BY <1>4 DEF Send, Items
    <2>2. taskman_queue' = Append(taskman_queue, [action |-> Action(cmd.name),
                                                  handle |-> cmd.handle])
          /\ [action |-> Action(cmd.name), handle |-> cmd.handle] \in Items
      BY <1>4, <2>1, CommandTypes DEF Send
    <2>3. taskman_queue' \in Seq(Items) /\ Len(taskman_queue') = 1
      <3> HIDE DEF TypeInv
      <3> QED
        BY <2>1, <2>2, OneSlot
    <2> QED
      BY <1>4, <2>3, AfterRequestTypes DEF Send, Items
  <1>5. CASE SendTimeout
    <2>1. dropped' \in BOOLEAN
      BY <1>5 DEF SendTimeout
    <2>2. AfterRequest
      BY <1>5 DEF SendTimeout
    <2>3. /\ cpc' \in {"idle", "spin"} /\ ct' = 0
          /\ said' \in [Tasks -> {"nothing", "suspend", "resume"}]
          /\ UNCHANGED <<cmd, ncmd, pace>>
      <3> HIDE DEF TypeInv
      <3> QED
        BY <2>2, AfterRequestTypes
    <2> QED
      BY <1>5, <2>1, <2>3 DEF SendTimeout
  <1>6. CASE SpinEnds
    BY <1>6 DEF SpinEnds, Dangles
  <1>7. CASE force_watchdog_reboot
    <2>1. forced' \in BOOLEAN /\ armed' \in BOOLEAN
      BY <1>7 DEF force_watchdog_reboot
    <2> QED
      BY <1>7, <2>1 DEF force_watchdog_reboot
  <1>8. CASE Receive
    <2>1. /\ taskman_queue \in Seq(Items) /\ taskman_queue # <<>> /\ Len(taskman_queue) <= 1
      BY <1>8 DEF Receive, Items
    <2>2. /\ Head(taskman_queue) \in Items
          /\ taskman_queue' \in Seq(Items) /\ Len(taskman_queue') = 0
      BY <1>8, <2>1, OneSlot DEF Receive
    <2>3. /\ state' \in [Tasks -> {"none", "live", "suspended"}] /\ kt' \in Nat
          /\ dangled' \in BOOLEAN
      BY <1>8, <2>2, PerformTypes DEF Receive
    <2> QED
      BY <1>8, <2>2, <2>3 DEF Receive, Items
  <1>9. CASE PollEmpty
    BY <1>9 DEF PollEmpty
  <1>10. CASE Kick
    BY <1>10 DEF Kick
  <1>11. CASE Expire
    BY <1>11 DEF Expire
  <1>12. CASE Boot
    <2>1. /\ state' \in [Tasks -> {"none", "live", "suspended"}]
          /\ inc' \in [Tasks -> 0 .. MaxCmds] /\ \A t \in Tasks : inc'[t] <= ncmd'
          /\ said' \in [Tasks -> {"nothing", "suspend", "resume"}]
      BY <1>12 DEF Boot, AtBoot
    <2>2. /\ armed' \in BOOLEAN /\ forced' \in BOOLEAN /\ up' \in BOOLEAN /\ lapse' \in BOOLEAN
      BY <1>12 DEF Boot
    <2>3. taskman_queue' \in Seq([action : {"DELETE", "SUSPEND", "RESUME"}, handle : Handles])
      BY <1>12 DEF Boot
    <2> QED
      BY <1>12, <2>1, <2>2, <2>3 DEF Boot
  <1>13. CASE Tick
    BY <1>13 DEF Tick
  <1>14. CASE UNCHANGED vars
    BY <1>14 DEF vars
  <1> HIDE DEF TypeInv
  <1> QED
    BY <1>1, <1>2, <1>3, <1>4, <1>5, <1>6, <1>7, <1>8, <1>9, <1>10, <1>11, <1>12, <1>13,
       <1>14 DEF Next, Cli, Taskman

\* The types of the task manager, TypeOK: for every polling period, timeout and number
\* of commands; in particular the one-slot queue never holds two requests.
THEOREM TaskManagerTypes == Spec => []TypeOK
  <1>1. TypeInv => TypeOK
    BY DEF TypeInv
  <1> QED
    BY TypeInit, TypeStep, <1>1, PTL DEF Spec
-----------------------------------------------------------------------------
(* The watchdog timer: as long as the watchdog task has run since it last  *)
(* kicked, the timer is not older than that kick.                          *)

WatchdogInv ==
  /\ kt <= KickTicks
  /\ armed /\ ~forced /\ ~lapse => state["watchdog"] = "live" /\ wd <= kt

LEMMA WatchdogStep == TypeInv /\ WatchdogInv /\ [Next]_vars => WatchdogInv'
  <1> SUFFICES ASSUME TypeInv, WatchdogInv, [Next]_vars PROVE WatchdogInv'
    OBVIOUS
  <1>0. /\ kt \in Nat /\ wd \in Nat /\ "watchdog" \in Tasks
        /\ state \in [Tasks -> {"none", "live", "suspended"}]
        /\ armed \in BOOLEAN /\ forced \in BOOLEAN /\ lapse \in BOOLEAN
    BY CommandTypes DEF TypeInv, TypeOK
  <1> USE <1>0, TaskManagerConstants DEF WatchdogInv, watchdogVars
  <1>1. ASSUME NEW c \in Commands, NEW t \in Targets \cup {"watchdog"}, Request(c, t)
        PROVE  WatchdogInv'
    BY <1>1 DEF Request
  <1>2. CASE RebootAtOnce
    BY <1>2 DEF RebootAtOnce
  <1>3. ASSUME NEW t \in Targets, Start(t) PROVE WatchdogInv'
    <2>1. t \in Tasks
      BY CommandTypes, <1>3 DEF Start
    <2>2. CASE t = "watchdog"
      BY <1>3, <2>1, <2>2 DEF Start
    <2>3. CASE t # "watchdog"
      BY <1>3, <2>1, <2>3 DEF Start
    <2> QED
      BY <2>2, <2>3
  <1>4. CASE Send \/ SendTimeout \/ SpinEnds
    BY <1>4 DEF Send, SendTimeout, SpinEnds
  <1>5. CASE force_watchdog_reboot
    BY <1>5 DEF force_watchdog_reboot
  <1>6. CASE Receive
    <2>1. wd' = wd /\ armed' = armed /\ forced' = forced
          /\ lapse' = (lapse \/ state'["watchdog"] # "live")
      BY <1>6 DEF Receive
    <2>2. kt' = kt \/ (kt' = KickTicks /\ state["watchdog"] = "suspended")
      BY <1>6 DEF Receive, WakesWatchdog
    <2> QED
      BY <2>1, <2>2
  <1>7. CASE PollEmpty
    BY <1>7 DEF PollEmpty
  <1>8. CASE Kick
    BY <1>8 DEF Kick, Live
  <1>9. CASE Expire
    BY <1>9 DEF Expire
  <1>10. CASE Boot
    BY <1>10 DEF Boot
  <1>11. CASE Tick
    BY <1>11 DEF Tick, Live
  <1>12. CASE UNCHANGED vars
    BY <1>12 DEF vars
  <1> QED
    BY <1>1, <1>2, <1>3, <1>4, <1>5, <1>6, <1>7, <1>8, <1>9, <1>10, <1>11, <1>12
       DEF Next, Cli, Taskman

LEMMA WatchdogInit == Init => WatchdogInv
  BY TaskManagerConstants DEF Init, WatchdogInv

\* NoSpuriousReset: whatever is typed or pasted, for every period of the watchdog
\* task shorter than the timer's, the MCU is reset only by reboot or after the
\* watchdog task was stopped.
THEOREM ResetsHaveACause == Spec => NoSpuriousReset
  <1>1. ASSUME TypeInv, WatchdogInv, Next, up, ~up' PROVE forced \/ lapse
    <2>1. Expire
      BY <1>1 DEF Next, Cli, Taskman, watchdogVars, Request, RebootAtOnce, Start, Send,
         SendTimeout, SpinEnds, force_watchdog_reboot, Receive, PollEmpty, Kick, Boot, Tick
    <2>2. /\ kt \in Nat /\ wd \in Nat /\ armed \in BOOLEAN /\ forced \in BOOLEAN
          /\ lapse \in BOOLEAN
      BY <1>1 DEF TypeInv, TypeOK
    <2> QED
      BY <1>1, <2>1, <2>2, TaskManagerConstants DEF Expire, WatchdogInv
  <1>2. TypeInv /\ WatchdogInv /\ [Next]_vars
          => [(up /\ ~up') => (forced \/ lapse)]_vars
    BY <1>1
  <1> QED
    BY TypeInit, TypeStep, WatchdogInit, WatchdogStep, <1>2, PTL DEF Spec, NoSpuriousReset
-----------------------------------------------------------------------------
(* Commands that are typed: the task manager polls between any two of them *)
(* unless it is itself killed or suspended.                                *)

TaskmanagerLeftAlone == "taskmanager" \notin Targets

\* Nobody asks the task manager to stop itself, and reboot names the watchdog.
CommandInv ==
  /\ state["taskmanager"] = "live" /\ cmd.handle.task # "taskmanager"
  /\ Waiting => Item.handle.task # "taskmanager"
  /\ cmd.name = "reboot" => cmd.handle.task = "watchdog"

\* A request has waited for as long as the task manager since its last poll, at most;
\* the command before has been read when the next one is typed.
PaceInv ==
  /\ tt <= DELAY_TASKMAN
  /\ cpc = "send" => ~Waiting
  /\ cpc = "idle" /\ Waiting => ct <= tt

\* A handle on its way is still the handle of its task.
OnTheirWayInv ==
  /\ cpc \in {"send", "spin"} => ~Dangles(cmd.handle)
  /\ Waiting => ~Dangles(Item.handle)

\* Once the shell stops waiting for it the watchdog task stays stopped.
RebootInv ==
  /\ cpc = "spin" => /\ cmd.name = "reboot"
                     /\ ~Waiting => state["watchdog"] = "suspended"
  /\ cpc = "force" => state["watchdog"] # "live"
  /\ cpc \in {"spin", "force"} /\ Waiting
       => Item.action = "SUSPEND" /\ Item.handle.task = "watchdog"
  /\ forced => cpc = "force"

TypedInv == /\ CommandInv /\ PaceInv /\ OnTheirWayInv /\ RebootInv
            /\ ~dropped /\ ~dangled

UntilPasted == Typed => TypedInv

\* At the prompt, nothing is on its way.
LEMMA PromptIsQuiet ==
  ASSUME TypeInv, TypedInv, Typed, AtPrompt
  PROVE  taskman_queue = <<>> /\ cpc = "idle"
  <1>1. ct > tt
    <2>1. ct \in Nat /\ tt \in Nat /\ pace \in Nat
      BY TaskManagerConstants DEF TypeInv, TypeOK
    <2> QED
      BY <2>1, TaskManagerConstants DEF AtPrompt, Typed, TypedInv, PaceInv
  <1>2. ct \in Nat /\ tt \in Nat
    BY DEF TypeInv, TypeOK
  <1>3. ~(ct <= tt)
    BY <1>1, <1>2
  <1> QED
    BY <1>3 DEF AtPrompt, TypedInv, PaceInv, Waiting

LEMMA TypedStep ==
  ASSUME TaskmanagerLeftAlone, TypeInv, TypedInv, Typed, [Next]_vars
  PROVE  TypedInv'
  <1>0. /\ ct \in Nat /\ tt \in Nat /\ pace \in Nat
        /\ "watchdog" \in Tasks /\ "taskmanager" \in Tasks /\ cmd.handle.task \in Tasks
        /\ state \in [Tasks -> {"none", "live", "suspended"}]
        /\ cpc \in {"idle", "send", "spin", "force"}
        /\ Waiting => Item \in Items /\ Item.handle.task \in Tasks
    <2>1. taskman_queue \in Seq(Items) /\ Len(taskman_queue) <= 1
      BY DEF TypeInv, TypeOK, Items, TASKMAN_QUEUE_DEPTH
    <2>2. Waiting => Item \in Items
      BY <2>1, OneSlot DEF Waiting, Item
    <2>3. ct \in Nat /\ tt \in Nat /\ pace \in Nat
      BY TaskManagerConstants DEF TypeInv, TypeOK
    <2> QED
      BY <2>2, <2>3, CommandTypes DEF TypeInv, TypeOK, Handles, Items
  <1> USE <1>0, TaskManagerConstants
      DEF TypedInv, CommandInv, PaceInv, OnTheirWayInv, RebootInv, Waiting, Item,
          Dangles, cliVars, watchdogVars
  <1>1. ASSUME NEW c \in Commands, NEW t \in Targets \cup {"watchdog"}, Request(c, t)
        PROVE  TypedInv'
    <2>1. taskman_queue = <<>> /\ cpc = "idle" /\ ~forced
      BY <1>1, PromptIsQuiet DEF Request
    <2>2. cmd' = [name |-> c, handle |-> [task |-> t, inc |-> inc[t]]]
      BY <1>1 DEF Request, Handle
    <2>3. /\ t # "taskmanager" /\ t \in Tasks
          /\ c = "reboot" => t = "watchdog"
      BY <1>1 DEF TaskmanagerLeftAlone, Request
    <2> QED
      BY <1>1, <2>1, <2>2, <2>3 DEF Request
  <1>2. CASE RebootAtOnce
    <2>1. taskman_queue = <<>> /\ cpc = "idle"
      BY <1>2, PromptIsQuiet DEF RebootAtOnce
    <2> QED
      BY <1>2, <2>1 DEF RebootAtOnce
  <1>3. ASSUME NEW t \in Targets, Start(t) PROVE TypedInv'
    <2>1. taskman_queue = <<>> /\ cpc = "idle" /\ t \in Tasks /\ t # "taskmanager"
      BY <1>3, PromptIsQuiet DEF Start, TaskmanagerLeftAlone
    <2> QED
      BY <1>3, <2>1 DEF Start
  <1>4. CASE Send
    <2>1. /\ taskman_queue' # <<>>
          /\ taskman_queue'[1] = [action |-> Action(cmd.name), handle |-> cmd.handle]
      BY <1>4 DEF Send
    <2>2. /\ cpc = "send" /\ cmd' = cmd /\ ct' = 0
          /\ cpc' = IF cmd.name = "reboot" THEN "spin" ELSE "idle"
          /\ UNCHANGED <<state, inc, tt, forced, dropped, dangled>>
      BY <1>4 DEF Send, AfterRequest
    <2>3. cmd.name = "reboot" => Action(cmd.name) = "SUSPEND"
      BY DEF Action
    <2> QED
      BY <2>1, <2>2, <2>3
  <1>5. CASE SendTimeout
    BY <1>5, EmptySeq DEF SendTimeout, TASKMAN_QUEUE_DEPTH
  <1>6. CASE SpinEnds
    BY <1>6 DEF SpinEnds
  <1>7. CASE force_watchdog_reboot
    BY <1>7 DEF force_watchdog_reboot
  <1>8. CASE Receive
    <2>1. Waiting /\ Head(taskman_queue) = Item /\ taskman_queue' = <<>>
      <3>1. taskman_queue \in Seq(Items) /\ Len(taskman_queue) <= 1 /\ taskman_queue # <<>>
            /\ taskman_queue' = Tail(taskman_queue)
        BY <1>8 DEF TypeInv, TypeOK, Items, TASKMAN_QUEUE_DEPTH, Receive
      <3> QED
        BY <3>1, OneSlot
    <2>2. Perform(Item) /\ dangled' = dangled /\ tt' = 0 /\ UNCHANGED <<inc, cliVars, forced, dropped>>
      BY <1>8, <2>1 DEF Receive
    <2>3. /\ \A u \in Tasks : u # Item.handle.task => state'[u] = state[u]
          /\ Item.action = "SUSPEND" => state'[Item.handle.task] = "suspended"
      <3> HIDE DEF Item
      <3> QED
        BY <2>1, <2>2, PerformTypes DEF TypeInv
    <2> QED
      BY <2>1, <2>2, <2>3
  <1>9. CASE PollEmpty
    BY <1>9 DEF PollEmpty
  <1>10. CASE Kick
    BY <1>10 DEF Kick
  <1>11. CASE Expire
    BY <1>11 DEF Expire
  <1>12. CASE Boot
    BY <1>12 DEF Boot, AtBoot
  <1>13. CASE Tick
    BY <1>13 DEF Tick, Live
  <1>14. CASE UNCHANGED vars
    BY <1>14 DEF vars
  <1> QED
    BY <1>1, <1>2, <1>3, <1>4, <1>5, <1>6, <1>7, <1>8, <1>9, <1>10, <1>11, <1>12, <1>13,
       <1>14 DEF Next, Cli, Taskman

LEMMA UntilPastedInvariant ==
  ASSUME TaskmanagerLeftAlone
  PROVE  Spec => [](TypeInv /\ UntilPasted)
  <1>1. Init => UntilPasted
    BY TaskManagerConstants, CommandTypes DEF Init, UntilPasted, TypedInv, CommandInv, PaceInv,
       OnTheirWayInv, RebootInv, Waiting, AtBoot
  <1>2. TypeInv /\ UntilPasted /\ [Next]_vars => UntilPasted'
    <2>1. ASSUME [Next]_vars PROVE pace' = pace
      BY <2>1 DEF Next, vars, Cli, Taskman, cliVars, AfterRequest, Request, RebootAtOnce,
         Start, Send, SendTimeout, SpinEnds, force_watchdog_reboot, Receive, PollEmpty,
         Kick, Expire, Boot, Tick
    <2> QED
      BY <2>1, TypedStep DEF UntilPasted, Typed
  <1> QED
    BY TypeInit, TypeStep, <1>1, <1>2, PTL DEF Spec

\* NoDanglingHandle: of commands typed more slowly than the task manager polls, for
\* every period and number of commands, no handle is used after its task was
\* deleted, as long as the task manager itself is not named.
THEOREM HandlesAreAlive ==
  ASSUME TaskmanagerLeftAlone
  PROVE  Spec => []NoDanglingHandle
  <1>1. UntilPasted => NoDanglingHandle
    BY DEF UntilPasted, TypedInv, NoDanglingHandle
  <1> QED
    BY UntilPastedInvariant, <1>1, PTL

\* NoRequestDropped: under the same condition no request meets a full queue, though
\* the queue has one slot and the shell ignores the result of sending.
THEOREM RequestsAreQueued ==
  ASSUME TaskmanagerLeftAlone
  PROVE  Spec => []NoRequestDropped
  <1>1. UntilPasted => NoRequestDropped
    BY DEF UntilPasted, TypedInv, NoRequestDropped
  <1> QED
    BY UntilPastedInvariant, <1>1, PTL

\* ForcedIsFinal: under the same condition nobody kicks the watchdog once the shell
\* waits for it to expire, also if the watchdog task had been suspended before.
THEOREM ForcedRebootIsFinal ==
  ASSUME TaskmanagerLeftAlone
  PROVE  Spec => []ForcedIsFinal
  <1>1. UntilPasted => ForcedIsFinal
    BY DEF UntilPasted, TypedInv, RebootInv, ForcedIsFinal
  <1> QED
    BY UntilPastedInvariant, <1>1, PTL
=============================================================================
