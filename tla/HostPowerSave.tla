---------------------------- MODULE HostPowerSave ----------------------------
(***************************************************************************)
(* Deep sleep of the host: power_save_drv.c and transport_drv.c on the     *)
(* host, host_power_save.c and the event handler of                        *)
(* esp_hosted_coprocessor.c on the co-processor, over the SPI transport.   *)
(*                                                                         *)
(* The host tells the co-processor that it goes to sleep and loses its RAM. *)
(* A task of the co-processor with something for the host raises the wake-up *)
(* pin until the semaphore wakeup_sem tells it that the host is back: after *)
(* its boot the host says so, and the co-processor answers with the event   *)
(* INIT that brings the transport up.                                      *)
(*                                                                         *)
(* The build is the default one: CONFIG_ESP_HOSTED_HOST_DEEP_SLEEP_ALLOWED, *)
(* wake-up level high, the bus driver stays loaded while the host sleeps.  *)
(* The variables of the host's RAM are its state and what it knows: `host', *)
(* `isr', `drvInit', `notice'; a boot clears them.                         *)
(*                                                                         *)
(* A definition whose name ends in _<Word> is the definition after it with *)
(* one mistake; PowerSpec does not use it.                                 *)
(***************************************************************************)
EXTENDS Integers, Sequences

CONSTANTS
    Tasks,       \* tasks of the co-processor that send to the host
    MaxPackets,  \* BOUND: packets of each task
    MaxSleeps,   \* BOUND: calls of esp_hosted_power_save_start
    MaxLost      \* BOUND: notices of a wake-up that the bus loses

ASSUME PowerBoundsAssumption == {MaxPackets, MaxSleeps, MaxLost} \subseteq Nat

VARIABLES
    host,        \* where the host's application is
    bootReason,  \* what esp_reset_reason says
    isr,         \* wakeup_gpio_isr_handler is installed
    drvInit,     \* power_save_drv_init_done
    notice,      \* FLAG_POWER_SAVE_STARTED waits in a queue of the host
    sleeps, lost,
    pin,         \* the wake-up GPIO
    busToHost,   \* what the co-processor has queued for the host
    slave,       \* whether esp_hosted_coprocessor_init has returned
    saving,      \* power_save_on of the co-processor
    sem,         \* wakeup_sem, or NoSem before it is created
    resetSem,    \* host_reset_sem
    on, off,     \* tasks power_save_alert_task by event and by how far they are
    pc, sent     \* by task: where it is, packets it has begun to send

hostPowerVars == <<host, bootReason, isr, drvInit, notice, sleeps, lost>>
slaveVars == <<slave, saving, sem, resetSem, on, off, pc, sent>>
powerVars == <<hostPowerVars, pin, busToHost, slaveVars>>

NoSem == -1
NoAlerts(phases) == [p \in phases |-> 0]
Finished(alerts) == \A p \in DOMAIN alerts : alerts[p] = 0
OnPhases == {"start", "set"}
OffPhases == {"start", "give", "sleep"}
Move(alerts, from, to) == [alerts EXCEPT ![from] = @ - 1, ![to] = @ + 1]
End(alerts, from) == [alerts EXCEPT ![from] = @ - 1]

\* Places of a task inside wakeup_host_mandate, holding the semaphore or not.
Looping == {"raise", "lower", "take", "give"}

PowerInit ==
    /\ host = "boot" /\ bootReason = "poweron" /\ isr = FALSE /\ drvInit = FALSE
    /\ notice = FALSE /\ sleeps = 0 /\ lost = 0
    /\ pin = FALSE /\ busToHost = << >>
    /\ slave = "boot" /\ saving = FALSE /\ sem = NoSem /\ resetSem = FALSE
    /\ on = NoAlerts(OnPhases) /\ off = NoAlerts(OffPhases)
    /\ pc = [t \in Tasks |-> "idle"] /\ sent = [t \in Tasks |-> 0]

\* What a boot of the host leaves of its RAM.
LoseHostRam(reason) ==
    /\ host' = "boot" /\ bootReason' = reason
    /\ isr' = FALSE /\ drvInit' = FALSE /\ notice' = FALSE
    /\ UNCHANGED <<sleeps, lost>>

-----------------------------------------------------------------------------
(* The host goes to sleep: esp_hosted_power_save_start.                     *)

\* The notice is queued with esp_hosted_tx, nobody waits for it to be sent.
PowerSaveStart ==
    /\ host = "up" /\ drvInit /\ sleeps < MaxSleeps
    /\ host' = "notified" /\ notice' = TRUE /\ sleeps' = sleeps + 1
    /\ UNCHANGED <<bootReason, isr, drvInit, lost, pin, busToHost, slaveVars>>

\* reset_in_progress is set only in a handler that restarts the host at once.
PowerSaveTeardown ==
    /\ host = "notified"
    /\ host' = "deaf" /\ isr' = FALSE
    /\ UNCHANGED <<bootReason, drvInit, notice, sleeps, lost, pin, busToHost, slaveVars>>

\* The reset pin cannot be held or the GPIO cannot wake the chip: -1 is returned
\* and nobody tells the co-processor.
PowerSaveFail ==
    /\ host = "deaf" /\ host' = "up"
    /\ UNCHANGED <<bootReason, isr, drvInit, notice, sleeps, lost, pin, busToHost, slaveVars>>

\* A notice still queued is lost; a pin that is up wakes the host at once.
DeepSleep ==
    /\ host = "deaf"
    /\ host' = IF pin THEN "boot" ELSE "asleep"
    /\ bootReason' = "deepsleep"
    /\ isr' = FALSE /\ drvInit' = FALSE /\ notice' = FALSE
    /\ UNCHANGED <<sleeps, lost, pin, busToHost, slaveVars>>

\* process_spi_rx and event_handler(ESP_POWER_SAVE_ON).
ReceiveNotice ==
    /\ notice
    /\ notice' = FALSE /\ on' = [on EXCEPT !["start"] = @ + 1]
    /\ UNCHANGED <<host, bootReason, isr, drvInit, sleeps, lost, pin, busToHost,
                   slave, saving, sem, resetSem, off, pc, sent>>

-----------------------------------------------------------------------------
(* host_power_save_alert, run by a task of its own for each event.          *)

AlertOnTake_Leaves ==
    /\ on["start"] > 0
    /\ on' = Move(on, "start", "set")
    /\ UNCHANGED <<hostPowerVars, pin, busToHost, slave, saving, sem, resetSem, off, pc, sent>>

\* xSemaphoreTakeFromISR does not wait.
AlertOnTake ==
    /\ on["start"] > 0
    /\ on' = Move(on, "start", "set")
    /\ sem' = IF sem = NoSem THEN sem ELSE 0
    /\ UNCHANGED <<hostPowerVars, pin, busToHost, slave, saving, resetSem, off, pc, sent>>

AlertOnSet ==
    /\ on["set"] > 0
    /\ on' = End(on, "set") /\ saving' = TRUE
    /\ UNCHANGED <<hostPowerVars, pin, busToHost, slave, sem, resetSem, off, pc, sent>>

AlertOffClear_Keeps ==
    /\ off["start"] > 0
    /\ off' = Move(off, "start", "give")
    /\ UNCHANGED <<hostPowerVars, pin, busToHost, slave, saving, sem, resetSem, on, pc, sent>>

AlertOffClear ==
    /\ off["start"] > 0
    /\ off' = Move(off, "start", "give") /\ saving' = FALSE
    /\ UNCHANGED <<hostPowerVars, pin, busToHost, slave, sem, resetSem, on, pc, sent>>

AlertOffGive ==
    /\ off["give"] > 0
    /\ off' = Move(off, "give", "sleep")
    /\ sem' = IF sem = NoSem THEN sem ELSE 1
    /\ UNCHANGED <<hostPowerVars, pin, busToHost, slave, saving, resetSem, on, pc, sent>>

AlertOffReset_NoSleep ==
    /\ off["sleep"] > 0
    /\ off' = End(off, "sleep") /\ resetSem' = TRUE
    /\ UNCHANGED <<hostPowerVars, pin, busToHost, slave, saving, sem, on, pc, sent>>

\* TIMING: after sleep(2) no task loops any more: the semaphore is there, and a
\* round takes less than 2 s.
AlertOffReset ==
    /\ off["sleep"] > 0
    /\ \A t \in Tasks : pc[t] \notin Looping
    /\ off' = End(off, "sleep") /\ resetSem' = TRUE
    /\ UNCHANGED <<hostPowerVars, pin, busToHost, slave, saving, sem, on, pc, sent>>

\* host_reset_task: the event INIT goes straight to the queue of the bus.
HostReset ==
    /\ resetSem /\ slave = "run"
    /\ resetSem' = FALSE /\ busToHost' = Append(busToHost, "init")
    /\ UNCHANGED <<hostPowerVars, pin, slave, saving, sem, on, off, pc, sent>>

-----------------------------------------------------------------------------
(* A task sends: process_tx_pkt, wakeup_host and wakeup_host_mandate.       *)

TaskGoes(t, from, to) == pc[t] = from /\ pc' = [pc EXCEPT ![t] = to]

TaskSend(t) ==
    /\ slave = "run" /\ sent[t] < MaxPackets
    /\ TaskGoes(t, "idle", IF saving THEN "wakeup" ELSE "write")
    /\ sent' = [sent EXCEPT ![t] = @ + 1]
    /\ UNCHANGED <<hostPowerVars, pin, busToHost, slave, saving, sem, resetSem, on, off>>

TaskCheck(t) ==
    /\ TaskGoes(t, "wakeup", IF saving THEN "recheck" ELSE "write")
    /\ UNCHANGED <<hostPowerVars, pin, busToHost, slave, saving, sem, resetSem, on, off, sent>>

\* power_save_on is read again; if it is clear the result stays 0.
TaskRecheck(t) ==
    /\ TaskGoes(t, "recheck", IF saving THEN "raise" ELSE "drop")
    /\ UNCHANGED <<hostPowerVars, pin, busToHost, slave, saving, sem, resetSem, on, off, sent>>

\* Host wakeup failed, drop packet
TaskDrop(t) ==
    /\ TaskGoes(t, "drop", "idle")
    /\ UNCHANGED <<hostPowerVars, pin, busToHost, slave, saving, sem, resetSem, on, off, sent>>

\* An edge wakes a host that sleeps and restarts one whose handler is installed.
TaskRaise(t) ==
    /\ TaskGoes(t, "raise", "lower")
    /\ pin' = TRUE
    /\ CASE ~pin /\ host = "asleep" -> LoseHostRam("deepsleep")
         [] ~pin /\ isr -> LoseHostRam("software")
         [] OTHER -> UNCHANGED hostPowerVars
    /\ UNCHANGED <<busToHost, slave, saving, sem, resetSem, on, off, sent>>

\* clean_wakeup_gpio_timer_cb, 10 ms later, while the task is in vTaskDelay(100).
TaskLower(t) ==
    /\ TaskGoes(t, "lower", "take")
    /\ pin' = FALSE
    /\ UNCHANGED <<hostPowerVars, busToHost, slave, saving, sem, resetSem, on, off, sent>>

TaskTake_Passes(t) ==
    /\ TaskGoes(t, "take", "give")
    /\ sem' = sem - 1
    /\ UNCHANGED <<hostPowerVars, pin, busToHost, slave, saving, resetSem, on, off, sent>>

TaskTake(t) ==
    /\ sem = 1 /\ TaskGoes(t, "take", "give")
    /\ sem' = 0
    /\ UNCHANGED <<hostPowerVars, pin, busToHost, slave, saving, resetSem, on, off, sent>>

\* 100 ms without the semaphore; the timeout of the loop is portMAX_DELAY.
TaskRetry(t) ==
    /\ sem # 1 /\ TaskGoes(t, "take", "raise")
    /\ UNCHANGED <<hostPowerVars, pin, busToHost, slave, saving, sem, resetSem, on, off, sent>>

TaskGive_Keeps(t) ==
    /\ TaskGoes(t, "give", "write")
    /\ UNCHANGED <<hostPowerVars, pin, busToHost, slave, saving, sem, resetSem, on, off, sent>>

TaskGive(t) ==
    /\ TaskGoes(t, "give", "write")
    /\ sem' = 1
    /\ UNCHANGED <<hostPowerVars, pin, busToHost, slave, saving, resetSem, on, off, sent>>

TaskWrite(t) ==
    /\ TaskGoes(t, "write", "idle")
    /\ busToHost' = Append(busToHost, "packet")
    /\ UNCHANGED <<hostPowerVars, pin, slave, saving, sem, resetSem, on, off, sent>>

-----------------------------------------------------------------------------
(* The host boots: setup_transport and transport_drv_reconfigure.           *)

\* ensure_slave_bus_ready of a host that was not asleep: transport_gpio_reset.
ResetSlave ==
    /\ host = "boot" /\ bootReason # "deepsleep"
    /\ host' = "connecting"
    /\ slave' = "boot" /\ saving' = FALSE /\ sem' = NoSem /\ resetSem' = FALSE
    /\ on' = NoAlerts(OnPhases) /\ off' = NoAlerts(OffPhases)
    /\ pc' = [t \in Tasks |-> "idle"]
    /\ busToHost' = << >> /\ pin' = FALSE
    /\ UNCHANGED <<bootReason, isr, drvInit, notice, sleeps, lost, sent>>

\* Nothing that answers a notice is under way.
NoAnswerDue == Finished(off) /\ ~resetSem /\ \A i \in DOMAIN busToHost : busToHost[i] # "init"

StopPowerSave_Once ==
    /\ bootReason = "deepsleep" /\ host = "boot"
    /\ host' = "connecting"
    /\ \/ /\ Finished(on)
          /\ off' = [off EXCEPT !["start"] = @ + 1]
          /\ UNCHANGED lost
       \/ lost < MaxLost /\ lost' = lost + 1 /\ UNCHANGED off
    /\ UNCHANGED <<bootReason, isr, drvInit, notice, sleeps, pin, busToHost,
                   slave, saving, sem, resetSem, on, pc, sent>>

\* stop_host_power_save makes one transfer of its own and does not look at the
\* handshake: the co-processor may have no transaction set up.  It is made again
\* after 50 polls of 200 ms.  TIMING: by then a notice that arrived is answered,
\* and the 700 ms before the first one are enough for the alert of the sleep.
StopPowerSave ==
    /\ bootReason = "deepsleep"
    /\ host = "boot" \/ (host = "connecting" /\ NoAnswerDue)
    /\ host' = "connecting"
    /\ \/ /\ Finished(on)
          /\ off' = [off EXCEPT !["start"] = @ + 1]
          /\ UNCHANGED lost
       \/ lost < MaxLost /\ lost' = lost + 1 /\ UNCHANGED off
    /\ UNCHANGED <<bootReason, isr, drvInit, notice, sleeps, pin, busToHost,
                   slave, saving, sem, resetSem, on, pc, sent>>

\* What the bus delivers.  INIT makes a host that is connecting ready and installs
\* the handler unless the pin is up; the driver is initialised once.
Receive ==
    /\ host \in {"connecting", "up", "notified", "deaf"} /\ busToHost # << >>
    /\ busToHost' = Tail(busToHost)
    /\ IF Head(busToHost) = "init" /\ ~drvInit
         THEN host' = "up" /\ drvInit' = TRUE /\ isr' = ~pin
         ELSE UNCHANGED <<host, drvInit, isr>>
    /\ UNCHANGED <<bootReason, notice, sleeps, lost, pin, slaveVars>>

\* esp_hosted_coprocessor_init.  Its call of wakeup_host_mandate(100) comes before
\* host_power_save_init makes the pin an output.
SlaveInit ==
    /\ slave = "boot" /\ slave' = "run"
    /\ sem' = 1 /\ resetSem' = TRUE
    /\ UNCHANGED <<hostPowerVars, pin, busToHost, saving, on, off, pc, sent>>

-----------------------------------------------------------------------------

Task(t) ==
    \/ TaskCheck(t) \/ TaskRecheck(t) \/ TaskDrop(t) \/ TaskRaise(t) \/ TaskLower(t)
    \/ TaskTake(t) \/ TaskRetry(t) \/ TaskGive(t) \/ TaskWrite(t)

PowerNext ==
    \/ PowerSaveStart \/ PowerSaveTeardown \/ PowerSaveFail \/ DeepSleep
    \/ ReceiveNotice
    \/ AlertOnTake \/ AlertOnSet \/ AlertOffClear \/ AlertOffGive \/ AlertOffReset
    \/ HostReset
    \/ \E t \in Tasks :
         \/ TaskSend(t) \/ TaskCheck(t) \/ TaskRecheck(t) \/ TaskDrop(t)
         \/ TaskRaise(t) \/ TaskLower(t) \/ TaskTake(t) \/ TaskRetry(t)
         \/ TaskGive(t) \/ TaskWrite(t)
    \/ ResetSlave \/ StopPowerSave \/ Receive \/ SlaveInit

PowerSpec == PowerInit /\ [][PowerNext]_powerVars

\* Every task and interrupt runs on; the application need not call
\* esp_hosted_power_save_start, but one call finishes.  Nobody has to send.
FairSpec ==
    /\ PowerSpec
    /\ WF_powerVars(PowerSaveTeardown) /\ WF_powerVars(PowerSaveFail \/ DeepSleep)
    /\ WF_powerVars(ReceiveNotice) /\ WF_powerVars(Receive)
    /\ WF_powerVars(AlertOnTake) /\ WF_powerVars(AlertOnSet)
    /\ WF_powerVars(AlertOffClear) /\ WF_powerVars(AlertOffGive) /\ WF_powerVars(AlertOffReset)
    /\ WF_powerVars(HostReset) /\ WF_powerVars(SlaveInit)
    /\ WF_powerVars(ResetSlave) /\ WF_powerVars(StopPowerSave)
    /\ \A t \in Tasks : WF_powerVars(Task(t))

-----------------------------------------------------------------------------
(* Correctness.                                                             *)

\* Every variable has its type: the states of both programs, the two booleans of
\* the semaphores and the alert tasks by how far they are.
PowerTypeOK ==
    /\ host \in {"boot", "connecting", "up", "notified", "deaf", "asleep"}
    /\ bootReason \in {"poweron", "software", "deepsleep"}
    /\ {isr, drvInit, notice, pin, saving, resetSem} \subseteq BOOLEAN
    /\ sleeps \in 0..MaxSleeps /\ lost \in 0..MaxLost
    /\ busToHost \in Seq({"init", "packet"})
    /\ slave \in {"boot", "run"} /\ sem \in {NoSem, 0, 1}
    /\ on \in [OnPhases -> Nat] /\ off \in [OffPhases -> Nat]
    /\ pc \in [Tasks -> {"idle", "wakeup", "recheck", "drop", "write"} \cup Looping]
    /\ sent \in [Tasks -> 0..MaxPackets]

\* wakeup_sem (host_power_save.c:145-146, 299, 326) is one token that says that
\* the host is awake: while the co-processor holds the host asleep nobody can take
\* it or has it, and when the host is awake it is there, or one task is about to
\* give it back, or the alert that gives it is still to come.
TokenTellsAwake ==
    /\ saving => sem # 1 /\ \A t \in Tasks : pc[t] # "give"
    /\ slave = "run" /\ ~saving /\ Finished(on) /\ off["give"] = 0
         => sem = 1 \/ \E t \in Tasks : pc[t] = "give"
    /\ \A t, u \in Tasks : pc[t] = "give" /\ pc[u] = "give" => t = u

\* An edge of the wake-up pin restarts a host that runs and whose handler is installed
\* (power_save_drv.c:25-57).  Until the application announces a sleep none does: no
\* task of the co-processor is still waking a host that is connecting or up, whatever
\* notices of the last sleep came late or were lost.  Between the announcement
\* (:229) and the removal of the handler (:240) a restart is possible.
RunningHostStays == [][(host \in {"connecting", "up"} => host' # "boot")]_powerVars

\* A task that loops in wakeup_host_mandate gets out, whatever is lost or repeated
\* meanwhile, unless a call of esp_hosted_power_save_start has failed after it told
\* the co-processor: then the host is awake and hears no pin.
DeafButAwake == host = "up" /\ ~isr
WaiterReleased == \A t \in Tasks : (pc[t] \in Looping) ~> (pc[t] \notin Looping \/ DeafButAwake)

\* A host that boots gets the event INIT (transport_drv.c:193-205), whether it
\* resets the co-processor or tells it that the sleep is over.
HostConnects == (host = "boot") ~> (host = "up")
=============================================================================
