---------------------------- MODULE TaskManager ----------------------------
(***************************************************************************)
(* The task manager (services/taskman_service.c), the shell commands that  *)
(* steer it (kill, service and reboot in cli/node_bin.c) and the watchdog  *)
(* service they contend with (services/watchdog_service.c,                 *)
(* hardware/rp2040/hw_watchdog.c).                                         *)
(*                                                                         *)
(* A command looks the handle of a task up by name and sends it, with an   *)
(* action, to the one-slot taskman_queue; the task manager polls the queue *)
(* every DELAY_TASKMAN ticks and calls vTaskDelete, vTaskSuspend or        *)
(* vTaskResume.  A handle is the name of a task and the number of its      *)
(* incarnation: it dangles once that incarnation was deleted.  Time is     *)
(* counted in RTOS ticks; ct, tt, kt and wd are the ticks since the shell  *)
(* last moved on, the last poll, the watchdog task's last kick and the     *)
(* hardware watchdog's last reload.                                        *)
(***************************************************************************)
EXTENDS Integers, Sequences

CONSTANTS
  DELAY_TASKMAN,    \* ticks between two polls of taskman_queue
  SEND_TICKS,       \* ticks taskman_request waits for room
  KickTicks,        \* bound: ticks between two kicks, delay and latency
  WATCHDOG_DELAY,   \* ticks after which the hardware watchdog resets the MCU
  Paces,            \* ticks between two commands: typed, or pasted in one go
  Targets,          \* tasks that the commands typed name
  MaxCmds           \* bound: commands typed

\* service_strings[]; "taskmanager" itself is not in the list.
Services == {"cli", "usb", "storagemanager", "watchdog", "wiznetpoll",
             "heartbeat"}
startup_services == {"usb", "cli", "storagemanager", "wiznetpoll", "watchdog"}
Tasks == Services \cup {"taskmanager"}

ASSUME TaskManagerConstants ==
  /\ DELAY_TASKMAN \in Nat \ {0}
  /\ SEND_TICKS \in Nat
  /\ KickTicks \in Nat \ {0}
  /\ WATCHDOG_DELAY \in Nat
  /\ KickTicks < WATCHDOG_DELAY
  /\ Paces \subseteq Nat
  /\ Targets \subseteq Tasks
  /\ MaxCmds \in Nat

VARIABLES
  state, inc,          \* of each task: what the RTOS does with it; incarnation
  taskman_queue,
  cpc, ct, cmd, ncmd,  \* the shell
  pace,                \* ticks it takes at least to type and echo a command
  said,                \* what "service" last printed about a task
  tt,                  \* the task manager
  kt, wd, armed, forced, up,  \* the watchdog task, timer and the MCU
  dropped, dangled,    \* history: a request was lost; a dead handle was used
  lapse                \* history: the watchdog task was stopped since its last kick

cliVars   == <<cpc, ct, cmd, ncmd, pace, said>>
watchdogVars == <<kt, wd, armed, forced, up, lapse>>
vars == <<state, inc, taskman_queue, cliVars, tt, watchdogVars, dropped, dangled>>
-----------------------------------------------------------------------------
TASKMAN_QUEUE_DEPTH == 1
Live(t)    == up /\ state[t] = "live"
Handles    == [task : Tasks, inc : 0 .. MaxCmds + 1]
Handle(t)  == [task |-> t, inc |-> inc[t]]
Dangles(h) == state[h.task] = "none" \/ inc[h.task] # h.inc
Commands   == {"kill", "suspend", "resume", "reboot"}

\* Mutant of Action: the enumerators of suspend and resume are swapped.
SwappedAction(c) == CASE c = "kill"                  -> "DELETE"
                      [] c \in {"suspend", "reboot"} -> "RESUME"
                      [] c = "resume"                -> "SUSPEND"

\* The action a command requests.
Action(c) == CASE c = "kill"               -> "DELETE"
               [] c \in {"suspend", "reboot"} -> "SUSPEND"
               [] c = "resume"             -> "RESUME"

\* The services run that prvTaskManagerTask starts before its loop.
AtBoot == [t \in Tasks |->
             IF t \in startup_services \cup {"taskmanager"} THEN "live" ELSE "none"]

Init ==
  /\ state = AtBoot /\ inc = [t \in Tasks |-> 0]
  /\ taskman_queue = <<>>
  /\ cpc = "idle" /\ ct = 0 /\ ncmd = 0 /\ pace \in Paces
  /\ cmd = [name |-> "kill", handle |-> [task |-> "cli", inc |-> 0]]
  /\ said = [t \in Tasks |-> "nothing"]
  /\ tt = DELAY_TASKMAN
  /\ kt = KickTicks /\ wd = 0 /\ armed = FALSE /\ forced = FALSE /\ up = TRUE
  /\ dropped = FALSE /\ dangled = FALSE /\ lapse = FALSE
-----------------------------------------------------------------------------
(* The shell.  Characters reach it through the usb task.                   *)

AtPrompt == Live("cli") /\ Live("usb") /\ cpc = "idle" /\ ct = pace /\ ncmd < MaxCmds

\* Mutant of Request: the handle is not compared with NULL.
RequestUnchecked(c, t) ==
  /\ AtPrompt
  /\ c = "reboot" => t = "watchdog"
  /\ cmd' = [name |-> c, handle |-> Handle(t)]
  /\ cpc' = "send" /\ ct' = 0 /\ ncmd' = ncmd + 1
  /\ UNCHANGED <<state, inc, taskman_queue, pace, said, tt, watchdogVars, dropped,
                 dangled>>

\* kill, service suspend, service resume and reboot, whose task exists.
\* xTaskGetHandle is called here, long before the handle is used.
Request(c, t) ==
  /\ AtPrompt
  /\ c = "reboot" => t = "watchdog"
  /\ state[t] # "none"
  /\ cmd' = [name |-> c, handle |-> Handle(t)]
  /\ cpc' = "send" /\ ct' = 0 /\ ncmd' = ncmd + 1
  /\ UNCHANGED <<state, inc, taskman_queue, pace, said, tt, watchdogVars, dropped,
                 dangled>>

\* reboot when no watchdog task exists: nothing to suspend first.
RebootAtOnce ==
  /\ AtPrompt /\ state["watchdog"] = "none"
  /\ cpc' = "force" /\ ct' = 0 /\ ncmd' = ncmd + 1
  /\ UNCHANGED <<state, inc, taskman_queue, cmd, pace, said, tt, watchdogVars,
                 dropped, dangled>>

\* service start: the shell creates the task itself.
Start(t) ==
  /\ AtPrompt /\ t \in Services /\ state[t] = "none"
  /\ state' = [state EXCEPT ![t] = "live"]
  /\ inc' = [inc EXCEPT ![t] = @ + 1]
  /\ said' = [said EXCEPT ![t] = "nothing"]
  /\ kt' = IF t = "watchdog" THEN KickTicks ELSE kt
  /\ ct' = 0 /\ ncmd' = ncmd + 1
  /\ UNCHANGED <<taskman_queue, cpc, cmd, pace, tt, wd, armed, forced, up, lapse,
                 dropped, dangled>>

\* The result of taskman_request is ignored: reboot waits for the watchdog
\* task, and service prints its message, whether or not the item was queued.
AfterRequest ==
  /\ cpc' = IF cmd.name = "reboot" THEN "spin" ELSE "idle"
  /\ ct' = 0
  /\ said' = IF cmd.name \in {"suspend", "resume"}
             THEN [said EXCEPT ![cmd.handle.task] = cmd.name] ELSE said
  /\ UNCHANGED <<cmd, ncmd, pace>>

\* Mutant of Send: the queue takes an item it has no room for.
SendAnyway ==
  /\ Live("cli") /\ cpc = "send"
  /\ taskman_queue' = Append(taskman_queue,
                        [action |-> Action(cmd.name), handle |-> cmd.handle])
  /\ AfterRequest
  /\ UNCHANGED <<state, inc, tt, watchdogVars, dropped, dangled>>

Send ==
  /\ Live("cli") /\ cpc = "send"
  /\ Len(taskman_queue) < TASKMAN_QUEUE_DEPTH
  /\ taskman_queue' = Append(taskman_queue,
                        [action |-> Action(cmd.name), handle |-> cmd.handle])
  /\ AfterRequest
  /\ UNCHANGED <<state, inc, tt, watchdogVars, dropped, dangled>>

SendTimeout ==
  /\ Live("cli") /\ cpc = "send" /\ ct = SEND_TICKS
  /\ Len(taskman_queue) = TASKMAN_QUEUE_DEPTH
  /\ dropped' = TRUE
  /\ AfterRequest
  /\ UNCHANGED <<state, inc, taskman_queue, tt, watchdogVars, dangled>>

\* Mutant of SpinEnds: reboot does not wait for the watchdog task.
SpinSkipped ==
  /\ Live("cli") /\ cpc = "spin"
  /\ cpc' = "force"
  /\ UNCHANGED <<state, inc, taskman_queue, ct, cmd, ncmd, pace, said, tt,
                 watchdogVars, dropped, dangled>>

\* while (eTaskGetState(tmi.task) != eSuspended): what the call returns for a
\* task that was deleted meanwhile is anybody's guess.
SpinEnds ==
  /\ Live("cli") /\ cpc = "spin"
  /\ Dangles(cmd.handle) \/ state["watchdog"] = "suspended"
  /\ cpc' = "force"
  /\ dangled' = (dangled \/ Dangles(cmd.handle))
  /\ UNCHANGED <<state, inc, taskman_queue, ct, cmd, ncmd, pace, said, tt,
                 watchdogVars, dropped>>

\* It reloads the timer and waits for it in a loop.
force_watchdog_reboot ==
  /\ Live("cli") /\ cpc = "force" /\ ~forced
  /\ forced' = TRUE /\ armed' = TRUE /\ wd' = 0
  /\ UNCHANGED <<state, inc, taskman_queue, cliVars, tt, kt, up, lapse, dropped,
                 dangled>>

Cli == Send \/ SendTimeout \/ SpinEnds \/ force_watchdog_reboot
-----------------------------------------------------------------------------
(* The task manager: one iteration of prvTaskManagerTask's loop.           *)

Perform(item) ==
  LET t == item.handle.task IN
  CASE item.action = "DELETE"  -> state' = [state EXCEPT ![t] = "none"]
    [] item.action = "SUSPEND" -> state' = [state EXCEPT ![t] = "suspended"]
    [] item.action = "RESUME"  -> state' = [state EXCEPT ![t] = "live"]

\* A task that is resumed leaves its delay and runs at once.
WakesWatchdog(item) == item.action = "RESUME" /\ item.handle.task = "watchdog"
                         /\ state["watchdog"] = "suspended"

\* Mutant of Receive: the item is read with xQueuePeek and stays.
Peek ==
  /\ Live("taskmanager") /\ tt = DELAY_TASKMAN
  /\ taskman_queue # <<>>
  /\ LET item == Head(taskman_queue) IN
     IF Dangles(item.handle) THEN UNCHANGED state ELSE Perform(item)
  /\ tt' = 0
  /\ UNCHANGED <<inc, taskman_queue, cliVars, watchdogVars, dropped, dangled>>

Receive ==
  /\ Live("taskmanager") /\ tt = DELAY_TASKMAN
  /\ taskman_queue # <<>>
  /\ taskman_queue' = Tail(taskman_queue)
  /\ LET item == Head(taskman_queue) IN
     IF Dangles(item.handle)
     THEN dangled' = TRUE /\ UNCHANGED <<state, kt>>
     ELSE /\ Perform(item)
          /\ kt' = IF WakesWatchdog(item) THEN KickTicks ELSE kt
          /\ UNCHANGED dangled
  /\ lapse' = (lapse \/ state'["watchdog"] # "live")
  /\ tt' = 0
  /\ UNCHANGED <<inc, cliVars, wd, armed, forced, up, dropped>>

PollEmpty ==
  /\ Live("taskmanager") /\ tt = DELAY_TASKMAN
  /\ taskman_queue = <<>>
  /\ tt' = 0
  /\ UNCHANGED <<state, inc, taskman_queue, cliVars, watchdogVars, dropped, dangled>>

Taskman == Receive \/ PollEmpty
-----------------------------------------------------------------------------
(* The watchdog.                                                           *)

\* Mutant of Kick: the timer is enabled but never reloaded.
EnableOnly ==
  /\ Live("watchdog") /\ kt > 0
  /\ kt' = 0 /\ armed' = TRUE /\ lapse' = FALSE
  /\ UNCHANGED <<state, inc, taskman_queue, cliVars, tt, wd, forced, up, dropped,
                 dangled>>

\* The first iteration of the task enables the timer, each one reloads it.
Kick ==
  /\ Live("watchdog") /\ kt > 0
  /\ kt' = 0 /\ wd' = 0 /\ armed' = TRUE /\ lapse' = FALSE
  /\ UNCHANGED <<state, inc, taskman_queue, cliVars, tt, forced, up, dropped,
                 dangled>>

Expire ==
  /\ up /\ armed /\ wd = WATCHDOG_DELAY
  /\ up' = FALSE
  /\ UNCHANGED <<state, inc, taskman_queue, cliVars, tt, kt, wd, armed, forced,
                 lapse, dropped, dangled>>

\* main() again: everything but the count of commands starts anew.
Boot ==
  /\ ~up
  /\ state' = AtBoot /\ inc' = [t \in Tasks |-> 0]
  /\ taskman_queue' = <<>>
  /\ cpc' = "idle" /\ ct' = 0 /\ said' = [t \in Tasks |-> "nothing"]
  /\ tt' = DELAY_TASKMAN
  /\ kt' = KickTicks /\ wd' = 0 /\ armed' = FALSE /\ forced' = FALSE /\ up' = TRUE
  /\ lapse' = FALSE
  /\ UNCHANGED <<cmd, ncmd, pace, dropped, dangled>>

Tick ==
  /\ up
  /\ Live("cli") /\ cpc = "send" => ct < SEND_TICKS
  /\ Live("taskmanager") => tt < DELAY_TASKMAN
  /\ Live("watchdog") => kt < KickTicks
  /\ armed => wd < WATCHDOG_DELAY
  /\ ct' = IF Live("cli") /\ (cpc = "send" \/ (cpc = "idle" /\ ct < pace))
           THEN ct + 1 ELSE ct
  /\ tt' = IF Live("taskmanager") THEN tt + 1 ELSE tt
  /\ kt' = IF Live("watchdog") THEN kt + 1 ELSE kt
  /\ wd' = IF armed THEN wd + 1 ELSE wd
  /\ UNCHANGED <<state, inc, taskman_queue, cpc, cmd, ncmd, pace, said, armed,
                 forced, up, lapse, dropped, dangled>>

Next == \/ \E c \in Commands, t \in Targets \cup {"watchdog"} : Request(c, t)
        \/ RebootAtOnce
        \/ \E t \in Targets : Start(t)
        \/ Cli \/ Taskman \/ Kick \/ Expire \/ Boot \/ Tick

Spec == Init /\ [][Next]_vars

\* Preemption and time slicing let every task that can run, run.
Fairness == /\ WF_vars(Cli) /\ WF_vars(Taskman) /\ WF_vars(Kick)
            /\ WF_vars(Expire) /\ WF_vars(Boot) /\ WF_vars(Tick)
FairSpec == Spec /\ Fairness
-----------------------------------------------------------------------------
TypeOK ==
  /\ state \in [Tasks -> {"none", "live", "suspended"}]
  /\ inc \in [Tasks -> 0 .. MaxCmds]
  /\ taskman_queue \in Seq([action : {"DELETE", "SUSPEND", "RESUME"},
                            handle : Handles])
  /\ Len(taskman_queue) <= TASKMAN_QUEUE_DEPTH
  /\ cpc \in {"idle", "send", "spin", "force"}
  /\ ct \in Nat /\ tt \in Nat /\ kt \in Nat /\ wd \in Nat
  /\ cmd \in [name : Commands, handle : Handles]
  /\ ncmd \in 0 .. MaxCmds /\ pace \in Paces
  /\ said \in [Tasks -> {"nothing", "suspend", "resume"}]
  /\ armed \in BOOLEAN /\ forced \in BOOLEAN /\ up \in BOOLEAN
  /\ dropped \in BOOLEAN /\ dangled \in BOOLEAN /\ lapse \in BOOLEAN

\* Commands arrive more slowly than the task manager polls.
Typed == pace > DELAY_TASKMAN

\* Of commands that are typed: the task manager never passes the handle of a deleted task to the RTOS, and
\* reboot never asks for the state of one (taskman_service.c:97,
\* node_bin.c:350).
NoDanglingHandle == Typed => ~dangled

\* No request that is typed is lost to a full queue (service_queues.c:78).
NoRequestDropped == Typed => ~dropped

\* The MCU is reset only by reboot, or after the watchdog task was stopped: as
\* long as it runs it kicks in time (services.h:185, "preventing the timer from
\* expiring and resetting the MCU").
NoSpuriousReset ==
  [][(up /\ ~up') => (forced \/ lapse)]_vars

\* While the shell waits in force_watchdog_reboot nobody reloads the timer
\* (node_bin.c:343, "stop the watchdog service so we can force a watchdog
\* reboot").
ForcedIsFinal == Typed /\ forced => state["watchdog"] # "live"

\* reboot reboots (node_bin.c:333, "Reboot the MCU by forcing a watchdog
\* timeout").
RebootHappens == (Typed /\ cpc \in {"spin", "force"}) ~> ~up

\* What "service" printed comes true: a service reported suspended becomes
\* suspended, unless it is killed, started or resumed (node_bin.c:252).
SuspendComesTrue ==
  \A t \in Targets :
    (Typed /\ said[t] = "suspend") ~> (state[t] # "live" \/ said[t] # "suspend" \/ ~up)
=============================================================================
