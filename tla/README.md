# TLA+ models of ESP-Hosted-MCU

ESP-Hosted lets a host MCU use the Wi-Fi and Bluetooth of an ESP co-processor (the "slave") over SPI, SPI
half duplex, SDIO, UART or USB. `src/` holds both programs: the host library (`src/host`), the co-processor's
firmware (`src/slave`) and what they share (`src/common`). This directory holds TLA+ models of the two
programs, the TLC runs that check them on small instances, and proofs, checked by TLAPS, for every instance.

| Module | Models | Checked by | Proved in |
|---|---|---|---|
| `RpcCore` | the host's RPC client: callers, threads rpc_tx and rpc_rx, tables, timers | `MCRpcCore`, 3 configurations | `RpcCore_proofs` |
| `Serial` | fragmentation and reassembly of RPC messages, both sides | `MCSerial`, 1 configuration | `Serial_proofs` |
| `WifiControl` | control of the Wi-Fi station by requests and by events of the Wi-Fi library, both sides | `MCWifiControl`, 2 configurations | `Control_proofs` |
| `OrderedLink` | what a link promises: the abstract specification of the four below | as a property of their runs | the proofs of each link |
| `SpiLink` | the full-duplex SPI link: both drivers and the four signals between them | `MCSpiLink`, 2 configurations | `SpiLink_proofs` |
| `SdioLink` | the SDIO link: both drivers, the peripheral's registers and interrupts | `MCSdioLink`, 1 configuration | `SdioLink_proofs` |
| `SpiHdLink` | the half-duplex SPI link: both drivers, two registers and Data Ready | `MCSpiHdLink`, 1 configuration | `SpiHdLink_proofs` |
| `UartLink` | the UART link: both drivers and two wires that may lose bytes | `MCUartLink`, 1 configuration | `UartLink_proofs` |
| `HostPowerSave` | deep sleep of the host, wake-up and reconnection, both sides | `MCHostPowerSave`, 1 configuration | `Control_proofs` |
| `LinkLemmas` | lemmas that the proofs about the links and the serial path share: counters that wrap, sequences, pairs of priority queues, packets that are numbered in order | | itself |

To check: `tlc -config RpcCore_faults.cfg MCRpcCore`; to prove: `tlapm RpcCore_proofs.tla`. `PROJECT.json` maps
every definition to the lines it models, and lists hazards, findings, theorems and a mutant per property.

## Inventory

### How the parts interact

An application task of the host calls a wrapper (`rpc_wrap.c`), which fills a request and hands it to the RPC
core. rpc_tx encodes it and gives it to the serial path, which cuts it into bus packets; the bus driver puts
them into one of three priority queues (serial, Bluetooth, others) and transfers them when the bus allows. On
the co-processor the bus driver's tasks queue what arrives, `recv_task` sorts it by interface, and the serial
path reassembles the request for `pserial_task`, which calls the handler in `slave_control.c` and sends back a
response. Events go the same way without a request. Network packets pass between `wlan_sta_rx_callback` and
`transport_drv_sta_tx` on the same bus, held back by throttling. Power save and the transport core stand
beside this path: they decide whether the bus is up at all.

The modules compose along the same path. A link module (`SpiLink`, `SdioLink`, `SpiHdLink`, `UartLink`)
implements `OrderedLink`; `Serial`, `RpcCore` and `WifiControl` each assume below them no more than an ordered
channel that drops nothing, which is what `OrderedLink` says with `MayDrop` false, and what a link gives to a
queue whose packets are not dropped.

### Components

State, operations, what is hard and what makes the component correct; the last column says what is modelled.

| Component | State and operations | What is hard, what must hold | Modelled |
|---|---|---|---|
| RPC client core, host (`rpc_core.c`) | `uid`, tables of synchronous and asynchronous responses, queues and semaphores of two threads, one-shot timers; send, wait, clear, callbacks | no lock anywhere: racing callers, late answers, timeouts, full queues; every call ends, with its own response when calls neither overlap nor give up | partly: `RpcCore`. Not the event callback table and `rpc_core_deinit` |
| SPI full-duplex link, host (`spi_drv.c`) | three transmit and three receive queues, one transaction task, two interrupts, dummy flags | signals sampled at different moments; no packet lost or reordered; a handshake seen up means a transaction set up | partly: `SpiLink`. Not bus reset, raw throughput test, de-initialisation, failing transfers |
| SPI full-duplex link, co-processor (`spi_slave_api.c`) | queues and semaphores, transactions with the driver, `data_ready_flag`, handshake interrupts | writers, loaders and interrupts share the pins without a lock; DR up while packets wait | partly: `SpiLink`. Not power-save flags, unload, memory pools |
| SDIO link (`sdio_drv.c`, `sdio_slave_api.c`) | credits modulo `ESP_TX_BUFFER_MAX`, length modulo its register, double buffer, throttling interrupts | counters that wrap on both sides and are used later than they are read; two tasks on one bus lock; streams cut at packet boundaries | partly: `SdioLink`. Not packet mode, failing transfers, packets of several buffers, power save, bus reset |
| SPI half-duplex link (`spi_hd_*`) | two registers that wrap, Data Ready by edge, throttling by packets | an edge missed or seen twice; a binary semaphore given twice; one buffer loaded at a time | partly: `SpiHdLink`. Not failing transfers, power save, bus reset, de-initialisation |
| UART link (`uart_*`) | a byte stream with headers, drivers' buffers that overflow | nothing marks a packet's start; after a loss payload is taken for a header | partly: `UartLink`. Not the power-save notices, deinit, reset of the co-processor |
| USB link (`usb_drv.c`) | stub | no counterpart on the co-processor | no: incomplete in the repository |
| Serial path, host (`serial_drv.c`, `serial_ll_if.c`) | reassembly buffer `r`, a queue and `readSemaphore` | fragments of one message between others; whole messages in order, a token for each | partly: `Serial`. Not opening, closing, allocation failures |
| Serial path, co-processor (`protocomm_pserial.c`, `process_serial_rx_pkt`) | one static request buffer handed back by a flag, request queue, `pserial_task` | buffer shared by polling; each request whole and answered once | partly: `Serial`. Not start, stop and the protobuf handlers |
| RPC handlers (`slave_control.c`) | pending configuration, `station_connected`, `station_connecting`; requests in one task, library events in another | two tasks and a host that restarts; both sides agree on the link once all is handled | partly: the station in `WifiControl`. Not init, deinit, SoftAP, heartbeat, OTA |
| Slave interface and wrappers (`rpc_slave_if.c`, `rpc_wrap.c`) | flags of `rpc_event_callback`, event groups of Bluetooth set-up | events lost or repeated around a restart | partly: the station in `WifiControl`; one call like another is `RpcCore` |
| Host power save, host (`power_save_drv.c`) | interrupt installed or not, sleep timer; start, stop, reset detection | sleep and wake-up race with the notices of them; a host that runs is not restarted by mistake | partly: `HostPowerSave`. Not the timer and GPIO hold |
| Host power save, co-processor (`host_power_save.c`) | `power_save_on`, `wakeup_sem`; alerts, wake-up loop | tasks, alerts and a reset at the same time; nobody waits for ever | partly: `HostPowerSave`. Not deinit, inspection of packets, unloading buses |
| Transport core, host (`transport_drv.c`) | `transport_state`, channels, start-up timer, connection retries; reconfigure, INIT event, add and remove channels | the order of initialisation is the application's; retries against late answers; channels replaced in use | partly: the connection of a booting host in `HostPowerSave`; what the rest does wrong is under "Observed" |
| Co-processor main program (`esp_hosted_coprocessor.c`) | data path flag, receive task, reset and alert tasks, flow control; every task that sends calls the bus's write itself (`send_task` is compiled out, `BYPASS_TX_PRIORITY_Q` is 1) | every event starts a task; packets written while the path is closed are freed | partly: `process_tx_pkt`, `recv_task`, `host_reset_task`, `flow_ctrl_task` as far as the other modules need them. Not the debugging tasks |
| Memory pools (`mempool*.c`) | free list under a lock | destroyed with blocks in flight; no block handed out twice | no: the lock makes each operation one step |
| RPC requests, responses, events (`rpc_req.c`, `rpc_rsp.c`, `rpc_evt.c`) | none | conversions, one case per call | no: no state. That one may fail is part of `RpcCore` |
| Public API (`esp_hosted_api.c`) | initialised or not | init and deinit in any order | no: forwards to the transport core; see "Observed" |
| Virtual serial interface (`serial_if.c`) | none | TLV encoding and its failures | no: no state |
| Bluetooth HCI, host and co-processor | one callback; the controller | hands packets on | no: the controller and stack are outside the repository |
| Packet filter and network split (`lwip_filter.c`) | none | classification of packets | no: no state |
| OS and bus ports (`os_wrapper.c`, `*_wrapper.c`) | semaphores, queues, timers | a full put blocks, a binary semaphore saturates | as part of the modules that use them |
| Configuration and OTA of the host | pins and frequencies, set before the start | none | no |
| Utilities, statistics, CLI | counters for the log | none | no |
| Headers, protobuf | constants, generated code | none | no |
| Examples | applications | none | no |

## The modules

A step of a model is a piece of code between two accesses to state that another thread, interrupt or program
shares. `_<Word>` at the end of a name marks a mutant: the definition with one plausible mistake, which no
specification uses; with it in the definition's place, TLC finds the property violated.

### RpcCore

An application task calls `rpc_send_req` and, for a synchronous request, `rpc_wait_and_parse_sync_resp`.
rpc_tx takes requests from `rpc_tx_q`, one token of `rpc_tx_sem` per request, and sends them; rpc_rx takes what
comes back and either calls the callback registered in `async_rsp_table` or puts the response in `rpc_rx_q` and
posts the semaphore registered in `sync_rsp_table`.

| State of the model | State of the code |
|---|---|
| `ready` | `rpc_lib_ctxt.state` |
| `uid`, `reqUid` | the counter and `app_req->uid` |
| `pc`, `slot`, `waitOn` | where a call is, and the locals `i` and the semaphore handle |
| `sem`, `freed`, `result` | `app_req->rx_sem`, the heap object, what the call returned |
| `syncTab`, `asyncTab` | `sync_rsp_table`, `async_rsp_table` |
| `timer`, `cbs` | the one-shot timer of an asynchronous request, the calls of its callback |
| `txq`, `txsem`, `txpc`, `txreq` | `rpc_tx_q`, `rpc_tx_sem`, the thread rpc_tx |
| `wire` | requests the slave has not answered yet (external: it answers in order) |
| `rxq`, `rxpc`, `rxmsg`, `rxslot`, `rxsem` | `rpc_rx_q`, the thread rpc_rx |

| Actions | Code |
|---|---|
| `LoadUid`, `StoreUid` | `uid++` and the skip of 0 in `rpc_send_req` |
| `FindSlot`, `FillUid`, `FillSem`, `RefuseCall` | `set_sync_resp_sem`: the scan and the two writes are steps of their own |
| `Enqueue`, `PostTxSem` | the put in `rpc_tx_q` and the post of `rpc_tx_sem` |
| `FindMySlot`, `LoseSlot`, `TakeSem`, `Expire`, `DestroySem`, `ClearUid`, `ClearSem`, `FetchResponse` | `wait_for_sync_response` and `get_response` |
| `TxTake`, `TxRegister`, `TxSetCb` ... `TxCleanup` | `rpc_tx_thread` and `process_rpc_tx_msg`, with `set_async_resp_callback` and the failed response of the error path (`TellFailure`, `TxPutFailure`, `TxNotify`; `TxStarve` when it cannot be allocated) |
| `RxTake`, `RxCallback`, `RxStopTimer`, `RxClearUid`, `RxClearCb`, `RxPut`, `RxFind`, `RxPost` | `process_rpc_rx_msg` and the table functions it calls |
| `TimerFires` | `rpc_async_timeout_handler` |

Each member of `Reqs` is one request object and so one call. `MayTimeout`, `MayFail`, `MayStarve` and `MayDrop`
say which requests may time out, fail to be sent, find no memory for the failed response, or go unanswered.
`overlapped` is a history variable: a call was begun while another was open. `StrayResponseExplained` says what
the code gives in place of `ResponseMatchesRequest`, which the run `RpcCore_late` refutes: a response that is not the
caller's own needs calls that overlapped or one that ended without its response, and nothing else brings it about.

### SpiLink

| State of the model | State of the code |
|---|---|
| `hostWriter`, `toSlave`, `toSlaveSem` | tasks in `esp_hosted_tx`, `to_slave_queue`, `sem_to_slave_queue` |
| `transReady`, `drLatch`, `dummyTx`, `dummyRx`, `throttled` | `spi_trans_ready_sem`, `dr_isr_triggered`, `schedule_dummy_tx`, `schedule_dummy_rx`, `wifi_tx_throttling` |
| `hostPc`, `hsSeen`, `drSeen`, `hostTx`, `hostRx` | `spi_transaction_task` and `check_and_execute_spi_transaction` with their locals |
| `fromSlave`, `fromSlaveSem`, `hostGot` | `from_slave_queue`, `sem_from_slave_queue`, what `spi_process_rx_task` has processed |
| `hsPin`, `drPin`, `hsEdge`, `drEdge` | the two GPIOs and the interrupts not served yet |
| `csEdge`, `csMissed` | the co-processor's interrupt at both edges of CS, not served yet; history: how often a second edge came before it was |
| `task`, `buf` | the tasks that call `esp_spi_write` (`serial` and `sta`), `host_reset_task` and `spi_transaction_post_process_task` |
| `toHost`, `spiTxSem`, `drFlag` | `spi_tx_queue`, `spi_tx_sem`, `data_ready_flag` |
| `loaded`, `results`, `csSem` | transactions with the SPI driver and finished ones, `wait_cs_deassert_sem` |
| `fromHost`, `spiRxSem`, `slaveGot` | `spi_rx_queue`, `spi_rx_sem`, what `recv_task` has read |
| `throttling` | `slv_state_g.current_throttling` |

`HostQueue`, `HostCount`, `HostSignal` are `esp_hosted_tx`; `HsIsr` and `DrIsr` the interrupts; `HostWake` to
`HostEnd` the transaction task, with `Transfer` and `DeassertCs` (the bus) between; `ChangeCs` is an edge of CS,
`CsIsr` the interrupt `gpio_disable_hs_isr_handler`, which comes when it comes, looks at the level of CS then
(`CsLow`), and clears the handshake or releases the post-process task;
`SlaveWrite` and `SlaveCount` are `esp_spi_write`, `SlaveStartup` the startup event; `TestDr`, `RaiseDr` and
`SetFlag` are `set_dataready_gpio`, `LowerDr` and `ClearFlag` `reset_dataready_gpio`; `LoadPacket`,
`LoadNothing`, `LoadDummy` and `QueueTransaction` `get_next_tx_buffer` and `queue_next_transaction`; `PostGet`,
`PostWaitCs`, `PostReceive` the post-process task, `SlaveRead` `esp_spi_read`. Two of the three priority queues
of each direction are modelled: with two there are a higher and a lower one. The options are the
defaults (`HS_DEASSERT_ON_CS`). Two constants bound the environment: `MaxMissed` how many edges of CS come before
the one before them is served, `SendEarly` whether packets are sent before the first startup event has arrived.

### Serial

`written` and `unsent` are `serial_ll_write`; `accumulated` is the buffer `r` of `serial_ll_if.c`, `hostPc`
`serial_ll_rx_handler`, `serialQ` and `readSem` its queue and `readSemaphore`, `rxPc` the thread rpc_rx in
`serial_drv_read`. On the co-processor `r` is the static buffer of `esp_hosted_coprocessor.c`, `recvPc`
`process_serial_rx_pkt`, `reqQ` the queue of `protocomm_pserial.c`, `psPc` `pserial_task`. The hand-back of the
buffer is two steps, `PsClearValid` and `PsClearLen`, as in `serial_read_data`; the reception is `RecvTake` (the
room), `RecvCopy`, `RecvLoad` (the length is read), `RecvGrow`, `RecvValid` and `RecvParse`. The host may have
any number of requests open, as `rpc_core` allows five of each kind. `crowded` is a history variable: `recv_task`
took a packet while the request before it was in the buffer or the buffer was being given back; from then on the
code may lose bytes (see "Observed"), and the properties about requests except it. Between the two programs is a queue in each
direction, which is the promise of `OrderedLink` for the serial queue.

### WifiControl

The co-processor handles requests in `pserial_task` and events of the Wi-Fi library in the task of the event
loop; both share the flags of `slave_control.c` without a lock. The host may restart, which clears what it knew
and what was on the bus to it, while the co-processor keeps its link.

| State of the model | State of the code |
|---|---|
| `app`, `hostStarted` | the application's synchronous call, its `esp_wifi_start` |
| `netifStarted`, `netifConnected`, `view` | the static flags of `rpc_event_callback`, and what its posts tell the application |
| `reqQ`, `rpcPc`, `rpc` | `req_queue` of `protocomm_pserial.c`, the statement `pserial_task` has reached, its request |
| `evPc`, `ev` | the statement `event_handler_wifi` has reached, its event |
| `newConfigRecvd`, `newConfig` | `new_config_recvd`, `new_wifi_config` |
| `stationConnected`, `stationConnecting`, `rxcb` | `station_connected`, `station_connecting`, whether `wlan_sta_rx_callback` is registered |
| `lib`, `libCfg`, `evQ` | the library (external): its state, its configuration, the events it has posted |
| `asked` | history: the last configuration whose request was answered |
| `overtaken` | history: the last event of the link put to `reqQ` is the connected event that answers a connect, put when the link had gone |
| `withheld` | history: the last connect of this link went to the library, as a changed configuration was pending or the library had none, and was not answered with the connected event |

`AppCall` is a call of the API; `OnStart`, `OnStop`, `OnConnected`, `OnDisconnected` are the cases of
`rpc_event_callback`, and `OnStart` also sends the connect request of `rpc_wifi_connect_async`. `StartLib` and
`StartEvent` are `req_wifi_start`, `ConnectCheck`, `ConnectLib` and `ConnectAck` `req_wifi_connect`,
`ConfigCheck`, `ConfigProvision`, `ConfigFlag`, `ConfigCopy` and `ConfigSame` `esp_hosted_set_sta_config`; `Take*`, `LostPending`, `ApplyPending`, `ClearPending`,
`DropLink`, `CloseData`, `SendEvent`, `OpenData` the statements of `event_handler_wifi`. `EventTaskRuns` is the
scheduling: `pserial_task` has the higher priority and, on one core, is interrupted nowhere but where it blocks; on
two cores (`TwoCores`, the default of the ESP32, `sdkconfig.defaults.esp32:21`, where `pserial_task` is not pinned to a core) the
two run side by side.

### OrderedLink

Two variables: how many packets each priority queue has accepted, and the numbers of those it has handed over.
A step accepts one or hands over one with a higher number than the last; if `MayDrop` is false, the very next.
Each link instantiates it twice, once per direction, with `accepted <- hostSent, handed <- slaveGot` and
`accepted <- slaveSent, handed <- hostGot`, and `LinkOrdered` says that it implements both. `SpiLink` and
`SpiHdLink` never drop towards the host, and towards the co-processor `SpiLink` skips a packet only after the CS
interrupt has missed an edge (`NothingSkipped`); a host that finds no buffer drops its packet (SDIO and SPI HD, after
`MAX_WRITE_BUF_RETRIES`), one with both stream buffers in use drops a stream (SDIO), a UART driver drops what
does not fit its buffer.

### SdioLink

| State of the model | State of the code |
|---|---|
| `hostSent`, `hostWriter`, `toSlave`, `toSlaveSem` | tasks in `esp_hosted_tx`, `to_slave_queue`, `sem_to_slave_queue` |
| `writePc`, `hostTx`, `retry`, `available`, `txCount` | `sdio_write_task`, its packet and retries, `buf_available`, `sdio_tx_buf_count` |
| `busLock` | `sdio_bus_lock` |
| `readPc`, `seenIntr`, `seenLen`, `rxCount`, `lenFromSlave` | `sdio_read_task`, the registers it has read, `sdio_rx_byte_count` |
| `buffer`, `readIndex`, `writeIndex`, `readDataLen`, `splitAt` | `double_buf`, and the progress of `sdio_data_to_rx_buf_task` |
| `intr`, `lenReg`, `tokenReg` | the peripheral: interrupts to the host, packet length, token count |
| `sendQueue`, `onWire`, `finished`, `emptyBufs`, `received` | buffers with the peripheral's driver |
| `writer`, `sendSem` | the tasks that may be in `sdio_write` at once (`serial`, `sta`, `reset`), places in the driver's send queue |
| `rxPc`, `rxQueue`, `rxSem`, `readerPc`, `throttling` | `sdio_rx_task`, `sdio_rx_queue`, `recv_task` in `sdio_read`, `current_throttling` |

`WriteTake`, `WriteLock`, `UseKnownBuffer`, `ReadTokens`, `WriteBlock` are `sdio_write_task` with
`sdio_is_write_buffer_available`; `OpenDataPath`, `ReadRegs`, `ClearIntr`, `ReadBlock`, `HandOver` are
`sdio_read_task`; `SplitTake`, `SplitPush`, `SplitDone` `sdio_data_to_rx_buf_task`; `HostRxTask`,
`StartWriteTask` `sdio_process_rx_task`. On the co-processor `TakeSlot`, `SlaveWrite`, `SlaveStartup`,
`SlaveQueue` are `sdio_write` and `generate_startup_event`, `RxTake` to `RxPut` `sdio_rx_task`, `SlaveRead` to
`ReadDone` `sdio_read` and `sdio_read_done`, `TxDone` the task that collects what was sent. `OfferStream`
(external) is the peripheral: it offers all that is queued at once and adds its length to the register.

### SpiHdLink

The same skeleton as `SdioLink`, with other hardware. `LoadTx` and `LoadRx` are the callbacks `cb_tx_ready` and
`cb_rx_ready`: they count up `txReg` (TX_BUF_LEN) or `rxReg` (RX_BUF_LEN), and the first raises `dr`, whose edge
gives `drSem`. `ReadTake`, `ReadReg`, `SendCmd9`, `ReadDma` are `spi_hd_read_task`; CMD9 lowers the pin by
`cb_cmd9_recv`. `UpdateFlowCtrl` and `PushPacket` sort what was read. `SetFlow` writes `wifi_flow_ctrl` and gives
`flow_ctrl_sem`; `FlowTake`, `FlowWrite`, `SlaveQueue("flow")` are `flow_ctrl_task`, one of four tasks that may be in
`esp_spi_hd_slave_write` at once. `SlaveOpen` is the end of the initialisation, where `spi_hd_rx_task` preloads its
buffers. As the driver loads one buffer at a time, the `buf_available` the host remembers is always 0 between
two calls; `FindBuffer` has both branches of the code all the same.

### UartLink

`line` is the sender's transmit buffer with the wire, `ring` the receiver's buffer, `frame` and `missing` what
a reader has of a packet and still wants. A unit is a header or a piece of payload: `Lengths` gives the length
a reader finds in a header, any length in a piece of payload it takes for one. `ReadHeader`, `ReadPayload`,
`CheckPacket` are `h_uart_read_task` on the host and `uart_rx_task` on the co-processor, which read alike;
`HostPut` and `SlavePut` put the packet in its queue. `WriteToHost` and `Drained` are `h_uart_write`: the
driver's lock keeps a packet in one piece, `uart_wait_tx_done` then keeps the writer. `Arrive` (external) drops
what does not fit. The host starts with up to `Leftover` units of a packet sent before its start. `torn` is a
history variable: this direction has lost something.

### HostPowerSave

| State of the model | State of the code |
|---|---|
| `host`, `bootReason`, `isr`, `drvInit` | where the host is, `esp_reset_reason`, whether the wake-up interrupt is installed, `power_save_drv_init_done` |
| `notice`, `busToHost`, `pin` | the notice of the sleep in the host's queue, what the co-processor queued for the host, the wake-up GPIO |
| `slave`, `resetSem` | whether `esp_hosted_coprocessor_init` has returned, `host_reset_sem` |
| `saving`, `sem` | `power_save_on`, `wakeup_sem` |
| `on`, `off` | tasks `power_save_alert_task`, by event and by how far they are |
| `pc`, `sent` | tasks of the co-processor in `process_tx_pkt` and `wakeup_host_mandate` |

`PowerSaveStart`, `PowerSaveTeardown`, `PowerSaveFail`, `DeepSleep` are `esp_hosted_power_save_start`; `AlertOn*`
and `AlertOff*` `host_power_save_alert`; `HostReset` is `host_reset_task`; `Task*` are `process_tx_pkt`,
`wakeup_host` and the loop of `wakeup_host_mandate`; `TaskRaise` also runs the host's interrupt, which restarts a
host whose handler is installed; `ResetSlave`, `StopPowerSave` and `Receive` the boot in `transport_drv_reconfigure`;
`SlaveInit` the boot of the co-processor.

The code relies on time in four places, which the model states as guards:

- `AlertOffReset`: by the end of `sleep(2)` every task has left the wake-up loop, a matter of milliseconds once
  the semaphore is given.
- `StopPowerSave`: the notice of the wake-up follows a boot of at least 700 ms, by which time the alert of the
  sleep has finished.
- `StopPowerSave` is repeated after 10 s, when nothing that answers the first notice is under way (`NoAnswerDue`).
- `TaskLower` ends the pulse of 10 ms whatever the others do.

## The runs

| Run | Instance | Shows | Distinct states |
|---|---|---|---|
| `RpcCore_faults` | 1 task, 2 and 2 requests, timeouts, failed sends, no memory and unanswered requests, one slot each, `rpc_rx_q` and `rpc_tx_q` of 1, `uid` modulo 4 | slots are released, a woken caller finds an element, a response that is not the caller's own has one of its two causes, every call returns and every callback comes unless a thread is stuck | 566,522 |
| `RpcCore_tasks` | 3 tasks, 2 slots, `rpc_rx_q` of 1, symmetry | the races on `uid` and slots: tokens match queue entries, a response has one owner | 1,227,759 |
| `RpcCore_late` | 1 task, 2 calls, the first may time out, sizes of the code but `rpc_rx_q` of 3 | violation: the second call returns the answer of the first | |
| `Serial_path` | 3 requests of 3 packets, any number of them open, 2 events and the responses of 2, a buffer of 3, queues of 2 | the copy stays inside the buffer; each message whole, once and in order unless packets crowd at the buffer; every message is read | 1,360,511 |
| `WifiControl_station` | 2 configurations, flash empty or with one, 4 calls, restarts and link losses in all, 2 cores | once all is handled no call is open and both sides agree on the link, unless the connected event was withheld; the host never believes in a link whose end was seen, unless told on the way or a late answer to a connect came between | 8,374,859 |
| `WifiControl_config` | the same on 1 core | violation: a configuration answered with success is never applied | |
| `SpiLink_link` | 1 serial packet of the host, 2 others of the co-processor with the startup event, queues of 1 and 2, 1 missed edge of CS | the semaphores count, no transfer into nothing and no packet skipped before an edge is missed, both directions ordered, the host's packet arrives | 652,978 |
| `SpiLink_dataready` | 2 packets of the co-processor, no edge missed | violation: the packet waits with DR low | |
| `SdioLink_link` | 3 packets of the host, 2 and the startup event of the co-processor, queues and buffers of 2, counters modulo 3, throttling at 40 and 30 % | credits and lengths computed from wrapped counters are true when used, no buffer is lost, the double buffer is never shared, both directions ordered, the link drains | 443,946 |
| `SpiHdLink_link` | 3 packets of the host, 1 and the startup event of the co-processor, 2 buffers, counters modulo 3, throttling at 40 and 30 % | one edge per packet, credits true, every change of the throttling told, both directions ordered, the link drains | 511,766 |
| `UartLink_link` | 2 packets of the host, 2 others, 1 serial and the startup event of the co-processor, packets of 2 units, drivers' buffers of 3, up to 2 units left over | readers in step with senders while nothing is lost, in order and at most once whatever is lost, everything arrives if nothing is | 399,507 |
| `HostPowerSave_cycle` | 2 tasks, 2 packets each, 2 sleeps, 1 notice lost | the semaphore tells whether the host is awake, no pulse restarts a host that runs, no task waits for ever, a booting host connects | 33,593 |

### Why the bounds are enough

- **RpcCore.** One slot of each kind is reused and refused; with `uid` modulo 4 the counter skips 0 after three
  requests, and the fourth has the uid of the first (in the code that takes 2^32 requests), which may still be open. `rpc_rx_q` of one lets the put of
  rpc_rx and that of rpc_tx block, and so do the callers behind `rpc_tx_q` (see below). Three tasks on two slots give
  a refused call, two tasks in one slot, and equal `uid`s.
- **Serial.** Three packets are a first, a middle and a last fragment; three requests let one be in the buffer,
  one wait for it and one follow while the first is handled, which is what it takes to crowd the buffer; the
  events come between fragments of responses.
- **WifiControl.** Two configurations tell a changed one from the same; four acts are enough to start, connect,
  lose the link or restart, and call again. `REQ_Q_MAX` is its default, 10, so that no put waits. Four acts
  do not reach every schedule (the one with `withheld` under "Observed" takes five); what the run states of them is
  proved for any number, and for every length of the queue.
- **SpiLink.** Queues of one packet fill at once and let every put block. The startup event is a second source
  for the co-processor's queue. One host packet, two packets and one event of the co-processor already give
  dummies in both directions, a remembered DR interrupt, and a transaction queued behind another. One missed
  edge of CS is enough for everything the exceptions allow. The put of the co-processor's own receive queue never
  blocks with one host packet; the theorems hold for any number.
- **SdioLink, SpiHdLink.** Counters modulo 3 wrap within the run, with 2 buffers at most outstanding, the
  largest number such a modulus can tell from 0. Three packets on two buffers let the host wait for a buffer,
  use its retries up and drop; 40 and 30 % of two buffers let one queued packet start the throttling and none
  end it. The packets of the host go through one queue, as the second differs only in that it is
  taken first and never throttled; the startup event shares the queue of the co-processor's packets.
- **UartLink.** A header and one unit of payload are the least that can be taken for each other. A buffer of 3
  holds one packet and a half, so that losses begin anywhere in a packet; two units are left over, so that the
  first header may be one of payload.
- **HostPowerSave.** Two tasks are enough for one to hold the semaphore the other waits for, two sleeps for
  a second cycle to meet what the first left behind, one lost notice for a retry. Two tasks, three packets and two
  sleeps pass too (125,000 states).

`CHECK_DEADLOCK FALSE` is in every configuration, as the applications stop calling when the bound is reached
and the system is then idle, as it may be. What blocks for ever while work is left is found by the liveness
properties. Symmetry is used only where no liveness is checked.

### Fairness

Weak fairness, one condition per thread, interrupt or timer: FreeRTOS schedules every ready task in the end and
each loop body runs on (`while (1)` in `rpc_tx_thread`, `rpc_rx_thread`, `spi_transaction_task`,
`sdio_read_task`, `spi_hd_write_task`, `uart_rx_task`, `pserial_task`, `recv_task` and the others); the armed
one-shot timer of an asynchronous request fires, and the timeout of a synchronous wait ends it; peripherals and
wires carry what they are given. A task that waits for the bus lock of SDIO or SPI HD has weak fairness only: the
traffic of the runs is finite, so that the lock is not taken again and again. No fairness is given to
applications: nobody has to call, send, or put the host to sleep. What the environment may do wrong (drop a
request, fail a send, lose a notice or a byte) has no fairness either, but is bounded. `UartLink`'s
`EveryPacketArrives` has a premise, that nothing is ever lost on the wires, as the code repeats nothing.
`WifiControl` is checked for safety only: `SettledAgree` speaks of the states in which all is handled.

## What is proved

TLAPS checks, for every value of the constants that satisfies the named assumptions of each module:

| Theorem | Says |
|---|---|
| `RpcCore_proofs!TypeCorrect` | queues, slots, uids and thread registers stay in range |
| `RpcCore_proofs!TxAccountingHolds` | `rpc_tx_sem` counts the entries of `rpc_tx_q` but for those in hand |
| `RpcCore_proofs!WokenFindsElementHolds` | a caller woken by its semaphore finds an element in `rpc_rx_q`, also with timeouts, failures and racing tasks |
| `RpcCore_proofs!PlacesHold` | a request or its response is in one place at a time, and there once |
| `RpcCore_proofs!OneOwnerHolds` | a response has one owner, so that none is freed twice, for any number of racing tasks |
| `RpcCore_proofs!SlotsBelongToOpenCallsHolds` | no slot outlives its call, if `NumTasks = 1` |
| `RpcCore_proofs!StrayResponseExplainedHolds` | a response left for nobody or given to another call needs calls that overlapped or one that ended without its response |
| `Serial_proofs!TypeCorrect` | buffers and queues keep their sizes, reassembly never holds more than one message |
| `Serial_proofs!NoOverrunHolds` | the copy of a fragment stays inside the request buffer, however many requests are open |
| `Serial_proofs!ReadTokensHolds` | every message of the serial queue has its token, if `SerialQSize <= ReadMax` |
| `Serial_proofs!MessagesIntactHolds` | responses and events arrive whole, once and in their order, and so do requests until packets crowd at the buffer, whatever number of requests is open and of fragments they have |
| `SpiLink_proofs!TypeCorrect` | all queues and the SPI driver's keep their capacities |
| `SpiLink_proofs!CountsMatchHolds` | the four counting semaphores equal the packets in their queues |
| `SpiLink_proofs!EmptyTransferExplainedHolds` | the host transfers only with a transaction set up, until the interrupt of CS has missed an edge, however late it comes |
| `SpiLink_proofs!ToSlaveLinkHolds` | towards the co-processor the link implements `OrderedLink`, and skips nothing until an edge of CS is missed |
| `SpiLink_proofs!LinkOrderedHolds` | the same in both directions, if `MaxStartups <= 1` |
| `SdioLink_proofs!TypeCorrect` | queues keep their capacities, counters stay below their moduli |
| `SdioLink_proofs!CountsMatchHolds` | every semaphore counts its queue, every receive buffer and every place for sending is somewhere |
| `SdioLink_proofs!CreditsTrueHolds` | the host writes only if a buffer is loaded, for every modulus above the number of buffers |
| `SdioLink_proofs!LengthTrueHolds` | the host reads exactly what is offered, never more than the send queue holds |
| `SdioLink_proofs!CountersTrueHolds` | both |
| `SdioLink_proofs!BuffersSeparateHolds` | the buffer that is read into is not the one that is taken apart |
| `SdioLink_proofs!RxPutNeverWaitsHolds` | `sdio_rx_task` never waits for room in `sdio_rx_queue` |
| `SdioLink_proofs!LinkOrderedHolds` | the link implements `OrderedLink` in both directions, whatever packets and streams it drops |
| `SpiHdLink_proofs!TypeCorrect` | queues keep their capacities, registers stay below their moduli |
| `SpiHdLink_proofs!RegistersTrueHolds` | what the host computes from the two registers is true when it uses it |
| `SpiHdLink_proofs!FlowToldHolds` | every change of the throttling is told to the host or about to be |
| `SpiHdLink_proofs!LinkOrderedHolds` | the link implements `OrderedLink` in both directions and drops nothing towards the host |
| `UartLink_proofs!TypeCorrect` | wires, drivers' buffers and the packets being read keep their sizes |
| `UartLink_proofs!InStepHolds` | until something is lost, what a reader takes for a header is one |
| `UartLink_proofs!LinkOrderedHolds` | the link implements `OrderedLink` in both directions, whatever the wires lose and whatever is taken for a header |
| `Control_proofs!TypeCorrect` | every queue and flag of the station's control keeps its type, `reqQ` never holds more than `REQ_Q_MAX` |
| `Control_proofs!SettledAgreeHolds` | once all is handled no call is open, flags and data path agree with the link, and a host that has started the station knows of it unless its connected event was withheld, on any number of cores |
| `Control_proofs!HostToldOfLossHolds` | the host believes in a link whose end was seen only while it is being told, or after a late answer to a connect until the next event of the link, on any number of cores |
| `Control_proofs!PowerTypeCorrect` | every variable of both programs keeps its type |
| `Control_proofs!TokenTellsAwakeHolds` | the wake-up semaphore is one token that tells whether the host is awake |
| `Control_proofs!RunningHostStaysHolds` | no step restarts a host that is connecting or up: no task is still waking it |

**Assumptions.** `RequestsAssumption`, `BoundsAssumption` and `SizesAssumption` give the constants their
types (queues hold at least one element, slots exist, the two kinds of requests are disjoint and finite).
`TxSemAssumption`, `TxQSize <= TxSemMax`, is what `rpc_core_init` sets up (10 tokens, 5 entries). `SdioLink`
assumes `RxBuffers < TxMod` and `SendQueueSize < RxMod`: a difference modulo the register's range tells no more
than that many apart (the code has 20 buffers and a modulus of 4096 for tokens; the length counts bytes modulo
2^20, of which 20 packets use a thirtieth).

What the code does not guarantee is a hypothesis of the theorem, with the run or the observation that shows what
happens without it:

- `SerialQSize <= ReadMax` (`ReadTokensHolds`): both are ten by default, but the semaphore's maximum is the sum of
  two configuration options (`serial_drv.c:219-220`).
- `NumTasks = 1` (`SlotsBelongToOpenCallsHolds`): tasks that call at the same time can load the
  same `uid` and overwrite each other's slot.
- `MaxStartups <= 1` (`SpiLink_proofs!LinkOrderedHolds`): with a second startup event `host_reset_task` and the
  post-process task load packets in the wrong order. There is one at the start of the firmware and one
  more each time the host wakes up.

`Control_proofs` is about two components that share nothing, `WifiControl` and `HostPowerSave`, and extends both.

**RpcCore.** `TypeOK` is inductive. `TxAccounting` counts the tokens, the callers between the put and the post and
the thread between the take and the dequeue; each action changes two of the terms by one or none, and it is the
equation that shows that the dequeue does not block and the post does not saturate. `WokenFindsElement` bounds
callers that were woken, semaphores that are posted and threads between put and post by the
length of `rpc_rx_q`; timeouts only lower the left side. Both rest on lemmas about the cardinality of a set that
gains or loses one request.

`Places` says for each request in which of eight places it or its response is (with its caller, in `rpc_tx_q`, with
rpc_tx, on the bus, with rpc_rx, in `rpc_rx_q`, returned), that two places exclude each other, and that no queue
has it twice; every action moves one request from one place to the next, and `OneOwner` follows. `SoloSlots` adds for
one calling task that at most one call is open, that the open call's entry is the one its local `i` names, and
that all others are empty. `Solo` is what calls that follow each other and none of which gives up add: while a synchronous
request is on its way its caller waits with an empty semaphore (`CallsWait`); nothing follows it in `rpc_tx_q`, with
rpc_tx or on the bus (`SyncLast`), so that the response which comes next to `rpc_rx_q` is its own
(`SyncPath`); and for each `uid` there are no more asynchronous requests on their way than entries that are
registered for it (`AsyncKnown`). That count is why a `uid` that has wrapped does no harm: the answer to a
synchronous request is not taken for that of an asynchronous one, as every asynchronous answer still due has an entry
of its own.

`StrayInv`, from which `StrayResponseExplained` follows, is `Places`, `NoResultYet` (no call has a result before it
ends), `SoloSlots` or `overlapped`, and `Solo` with `ResponseMatchesRequest` or `overlapped` or `GaveUp`. Both causes
stay once they are there, so that each step is proved from a state that has neither.

**Serial.** `IInv == TypeOK /\ NoOverrun /\ Sending`. `NoOverrun` is stated with the room computed before the
wait: nobody but `recv_task` grows `r.len`, and `pserial_task` only resets it. `ReadTokens` is proved
on top.

`MessagesIntact` needs three invariants, joined in `Ordered`, which is inductive beside `IInv`. `RequestPlaced` is
`crowded \/ Placed`: until packets crowd, the fragments of all open requests stand in one line (`Line`), from the buffer
over recv_task and the link to what the host has not sent yet, each the successor of the one before (`Chain`) up to the
last one written (`EndOf`). `Current` is the request at the head of the line: with the buffer filled up to some
fragment (`Moving`), whole in the buffer with one notice of it in `reqQ` or with pserial_task (`Arrived`), or read and
the buffer given back in its steps (`Released`).
`WholeMessages` says that what the host has accumulated, the link towards it and the reply being sent, read one
after the other, are whole messages without a gap. `Numbers` follows each message by the mark on its last
fragment: the marks of the responses and those of the events, along all stages from `reqQ` to rpc_rx, are the numbers
after the one read last up to the one made last, in order (`Exact` in `LinkLemmas`). The host puts a message together
exactly when a mark arrives, and so a message becomes one element without a change of the numbers.

**The links implement `OrderedLink`.** The argument is the same for the four. For each direction the places where
a packet may be are joined to one sequence per queue, in the order in which they will be emptied. The
invariant says that the packets of the queue's interfaces in this sequence have growing numbers, above the number
handed over last and up to the one accepted last (`InOrder`) and, where nothing may be dropped, that none of
the numbers is missing (`Complete`). A step that moves a packet from one place to the next leaves the joined
sequence as it is; accepting appends the next number, handing over takes the head, dropping removes an element,
and `LinkLemmas` says once what each does to `InOrder` and `Complete`. The steps then map to a step of
`OrderedLink` or to a stutter. What differs is what has to be joined:

- `SpiLink`: besides the queues, the packet in the transfer under way, the transactions with the SPI driver
  and its results, and the packet a task is about to load. Two tasks load; `BootAlone` says that
  until `host_reset_task` has handled the one startup event nothing is with the driver and the post-process task has
  nothing to do, and so the two never hold a packet at the same time.
- `SdioLink`: the part of a stream that is not taken apart yet, the stream just read, the one on the wire and the
  peripheral's queue. Dropping takes a whole stream out of the middle.
- `SpiHdLink`: the loaded buffer and the driver's queue between the priority queues. Packets of the flow control
  are in the same stages and have no number.
- `UartLink`: the stages are units, not packets. Only headers count, as only a header starts a packet that is put
  into a queue: what begins with a unit of payload fails its checksum. Losing units, or skipping them, removes
  elements and keeps the order.

**SpiLink.** `IInv == TypeOK /\ CountsMatch /\ Ready`. `EmptyTransferExplained` is not inductive: the host
decides on what the pin said two steps ago. `HandshakeTruthful` adds, for the time before an edge is missed, that an
HS that is up means a set-up transaction or an interrupt of CS that is still to clear it, that one seen up and not
acted upon means a transaction, and that during the transfer the pin is down or about to be. So the
co-processor cannot be seen twice with one transaction. `ResultHeld` says that the post-process task works on the
first result. `CountsMatch` needs neither; `Uncounted` is what the writers have put and not counted yet. From the host
nothing is missing from the joined sequence while `csMissed = 0`; the order does not need that.

**SdioLink.** The variables fall into groups that few actions share, and `TypeOK` into one predicate per group
(`SendersOK`, `WriteOK`, `ReadOK`, `BufferOK`, `OutOK`, `HwOK`, `InOK`, `RecvOK`), so that a step proves only the
groups it touches. `CountsMatch` is five equations (`ToSlaveCount`, `FromSlaveCount`, `RxQueueCount`,
`SlotsCount`, `BufsCount`), each about one group of queues. The counters rest on six lemmas on
remainders: `Distance` is how far one wrapped counter is ahead of another without the remainder, and `AheadMoves`,
`AheadFromZero`, `BehindMoves` say how it changes when either moves. With them `CreditsTrue` is inductive beside
`BufsCount`, which keeps the distance below the modulus. `LengthTrue` is not: `Lengths` adds that the two length
counters always differ by what is offered, and that a length read from the register before the peripheral offered
more said that there was nothing to read. `Buffers` adds to `BuffersSeparate` what the reading task hands over.

**SpiHdLink.** `TypeOK` in groups as above. `RegistersTrue` follows from `TxAhead` and `RxAhead`, which say that each
register is ahead of the host's counter by what is loaded, and `Known`, that the host believes in no more than one
loaded buffer and only if there is one. `FlowTold` speaks of the last command only; `LastTold` is its
inductive form: once `flow_ctrl_task` has nothing to do, either the last command of the stages towards the host is
what was wanted last, or there is none and the host already knows. `CommandTrue` says what makes
the binary semaphore enough: a command that is older than the last change has the semaphore given behind it.

**UartLink.** `InStep` is not inductive, as it speaks of the moment a reader takes a header. `StepInv` says that
as long as a direction has lost nothing, what a reader has begun, the ring buffer and the line are whole packets:
unit number `i` is part `i - 1` modulo the length of a packet. The lemmas `WholeTurns` and `RemainderOf` carry this
through appending a packet and taking one.

**HostPowerSave.** `TokenTellsAwake` fails to be inductive in many ways; `PowerInv` adds what a boot leaves of the
host (`HostStates`), that one answer is under way at a time (`OneAnswer`) and only while the host waits for it
(`AnswerExpected`), that a reset co-processor knows nothing (`FreshSlave`), that a listening host has told
nobody that it sleeps (`Listening`), that a task loops only while the host sleeps or has just come back
(`LoopsForAReason`), and that only the notice ends the sleep (`SleepBelieved`). One lemma per action shows that it
keeps `PowerInv`. `RunningHostStays` is about steps: `PulseNeedsNotice` shows that a task which raises the pin loops,
and that then a host that runs has no handler installed; it needs `SleepBelieved` and the time that `AlertOffReset`
takes for granted.

**WifiControl.** `SettledAgree` speaks of settled states, and its inductive form has to say what holds in
every unsettled one. It does so in terms of queues: what is in a queue (`In`, `All`), that each of one kind is
followed or preceded by one of another (`Followed`, `Preceded`), that between two of a kind comes one of another
(`Parted`), and that behind one of a kind come only those of another (`Behind`). What appending, taking the head
and joining two queues do to these is shown once.

- `Typed`: every queue carries what its reader can take, and each task is at a statement of the handler of what
  it works on.
- `Callers`: of the messages of one life of the host at most one is on its way, from the request to the response,
  and exactly while the application waits; what an earlier life has left is ahead of it.
- `Starts`, `Links`: in the library's event queue starts and stops alternate, and so do links and losses. The last
  of them says what the library does, and the first what the flags of the event task say before it. So
  `station_connected` is true at the end of the queue exactly if the library is connected. `Data` says the same of
  the registered callback, statement by statement of the handler.
- `Wanted`: a host that has started the station has its start on the way or with the library, and no stop is left.
- `LossFollowed` and `Told` read `toHost` and `reqQ` as one stream. While the co-processor has a link, every
  disconnected event in the stream has a connected event behind it; and a host whose netif is started knows of the
  link, or will be told, or has a connect on its way, unless it was withheld.

When all queues are empty, what is left of these is `SettledAgree`. `HostToldOfLoss` needs the opposite direction,
`LossTold`: while there is no link, the last word of the stream is that it is down, unless the answer to a connect has
passed it (`overtaken`), which lasts until the next event of the link is put.

Each conjunct was checked with TLC before it was proved, with three acts, and queues of 10 and of 2.

**Only model-checked.** Liveness, which needs fairness and `ENABLED`. Every safety property of the passing runs, and that
each link implements `OrderedLink`, has its theorem.

## What the runs found

Each is a run that ends in a violation of what the repository says of itself (`PROJECT.json`, "findings").

1. **The answer of another call** (`RpcCore_late`): the first call times out after rpc_rx has found its slot, its answer
   is queued all the same (`rpc_core.c:397`), and `get_response` of the next call takes the first element, whatever its
   uid (605), although uid is there "to link between requests and responses" (40). Every later call returns the answer
   before its own.
2. **Packet waits with DR low** (`SpiLink_dataready`): the writer finds `data_ready_flag` set, the post-process
   task then lowers the pin (`spi_slave_api.c:196`, 400).
3. **Configuration lost** (`WifiControl_config`, 25 states): `event_handler_wifi` applies `new_wifi_config` and then
   clears `new_config_recvd` (`slave_control.c:757`, 762). A request that writes both in between is answered with
   success, and its configuration is never applied.

### Observed with the modules, not kept as runs

- `RpcCore`, a failed send: the failed response has uid 0 and wakes nobody, the caller waits for its timeout
  (`rpc_core.c:293`).
- `RpcCore`: the slot of an asynchronous request is freed by two writes, uid (`rpc_core.c:633`) and callback (634).
  `set_async_resp_callback` may take the slot in between; its callback is then erased, and the answer makes rpc_rx call
  NULL (659). `RpcCore_faults` reaches it; `EveryRequestEnds` excepts a host that has stopped so.
- `RpcCore`, several tasks: two responses in `rpc_rx_q` are fetched crosswise though the uids differ; two
  tasks load the same `uid`, and a call then waits on or destroys the other's semaphore
  (`hosted_destroy_semaphore` asserts on NULL).
- `RpcCore`: the slot of an asynchronous request is released by an answer only, not by its timer
  (`rpc_core.c:722`). With a smaller `rpc_rx_q` than there are answers nobody takes, `rpc_rx` blocks for ever;
  `rpc_tx_q` fills behind the failed responses in the same way (291), and `rpc_send_req` then blocks without a timeout.
  `RpcCore_faults` reaches both; `EveryRequestEnds` excepts an rpc_tx that is stuck there.
- `RpcCore`, use after free, of which no property speaks: after the send rpc_tx reads the free hook of a request that
  its caller may have freed already, because the whole answer came first (`rpc_core.c:240`, 245), without any fault; a
  call that times out frees its request while it may still be in `rpc_tx_q` or with rpc_tx (885), and destroys its
  semaphore while rpc_rx may be about to post it (683).
- `Serial`, several requests open: a packet of the next request is taken while the buffer still holds the one before
  or is being given back. As `r.valid` is cleared before `r.len` (`esp_hosted_coprocessor.c:738`), the room computed for
  it is stale and bytes are dropped, or the request is appended to the one before. One calling task is enough, if its
  first request timed out. `MessagesIntact` and `EveryMessageArrives` except it with `crowded`.
- `WifiControl`, two cores: the connected event that answers a connect overtakes the disconnected event, and the
  host keeps a link that is gone until the next event of the link (`HostToldOfLoss` without `overtaken`: 31 states). The
  flag of a new configuration is set before the configuration is copied (`slave_control.c:1459`, 1462): the event task
  may apply what was there before, and the library then has a link while its SSID is empty (18 states); the connect of a
  restarted host fails there, which `SettledAgree` excepts with `withheld`. With `ReqQSize = 3`, the value for ESP32-C2,
  `pserial_task` puts its own event into its full queue and waits for ever (`protocomm_pserial.c:247`).
- `WifiControl`: a host may start the station and never hear of the link the co-processor has. It restarts while
  linked, sets another configuration, starts, and sets the first one again. The connect that follows the
  start finds `new_config_recvd` set, so that it goes to the library, which refuses it, and is not answered with the
  connected event (`slave_control.c:1341`); the last request clears `new_config_recvd`, and nothing is left that would
  tell the host. `SettledAgree` excepts this with `withheld`; the proof found it, as it takes five acts.
- `WifiControl`: the first configuration is given to the library at once and is pending all the same, so that
  the first connection is dropped once. A host that restarts with a changed configuration while linked gets
  success for a connect that the library refused.
- `SpiLink`: throttling may never be lifted, as only a dummy tells the host (`spi_slave_api.c:415`): the last
  dummy of a burst says that it shall wait, it then drops its packets before they could cause a transfer, and
  the co-processor has no reason for one. With
  two startup events, `host_reset_task` and the post-process task load two packets of one queue in the wrong order
  (23 steps), and an interrupt of CS that comes late clears the handshake of what `host_reset_task` has just loaded.
- `SpiLink`: when an edge of CS comes before the one before it is served, the handshake stays up
  (`spi_slave_api.c:608`), and the host may transfer into nothing; its packet is lost, order and at-most-once hold.
- `SpiLink`: when packets fill the transmit queue before the startup event of the boot is put (`SendEarly`, `SpiTxSize`
  of 1), `host_reset_task` waits for ever in its put, as nothing is loaded before it.
- `SdioLink`: throttling is started and ended in two steps each, by two tasks without a lock; the interrupt that
  stops it may overtake the one that starts it, and the host stays throttled (`sdio_slave_api.c:145`, thirty
  steps): `sdio_rx_task` sets `current_throttling`, `recv_task` empties the queue, clears it and sends STOP, and
  then `sdio_rx_task` sends START (`RxThrottle`, `ReadThrottle`, `SendStopThrottle`, `SendStartThrottle`). `SpiHdLink` has the same two steps between `current_throttling` and `wifi_flow_ctrl`.
- `HostPowerSave`: `power_save_on` is read twice, and the packet of a host that came back in between is dropped
  (`host_power_save.c:254`, 276). Between the notice of the sleep and the end of the interrupt the host still
  has its handler; a task that raises the pin in between restarts it as if the co-processor had been reset (13 steps;
  `power_save_drv.c:229`, 240). `RunningHostStays` does not speak of this time, between announcement and removal of the handler.

### Read in the code, outside the models

- Power save: the timers of the wake-up loop are created each round and only the last is deleted
  (`host_power_save.c:199`); the notice of the sleep is queued, not sent, when the host sleeps
  (`power_save_drv.c:229`); a second start of the sleep timer stops the first and starts none
  (`power_save_drv.c:329`).
- Serial path: a fragment that cannot be sent leaves those before it with the co-processor (`serial_ll_if.c:251`);
  `r.data` is freed and not cleared when a message cannot be copied (`serial_ll_if.c:377`); packets written while
  the data path is closed are freed without an error (`esp_hosted_coprocessor.c:374`).
- Transport core: a second `transport_drv_reconfigure` after the INIT event starts the start-up timer again
  though the link is up (`transport_drv.c:164`), and gives it seconds where `hosted_timer_start` takes
  milliseconds (`os_wrapper.c:634`); `transport_state` is set back to RX_ACTIVE by line 191; the retry counter is
  static and not reset on failure (158); two callers reset the co-processor under each other, and a second INIT
  event runs the delayed initialisation twice (798); a channel may be replaced with buffers in flight (234, 328),
  and `mempool_destroy` frees blocks in use (`mempool.c:76`); after a failed initialisation "already up" is
  answered and every call fails.
- RPC core: `rpc_core_deinit` destroys what callers wait on (1014).
- Wi-Fi: `wifi_initialized` stays false after a re-initialisation, and `req_wifi_deinit` does not clear it
  (`slave_control.c:1195`, against the comment at 1155).
- SDIO: a transfer that fails in the middle leaves the counters of both sides apart (`sdio_drv.c:441`, 906, 1120).
- SPI HD: a failed read of a register or of data loses the only edge, and the link to the host stands still; a
  place for sending is not given back when allocation fails; at a wake-up `rx_ready_buf_num` is not reset while
  the host counts from 0; `ret` is tested where `res` is meant (`spi_hd_slave_api.c:454`).
- UART: `generate_startup_event` never frees its buffer (`uart_slave_api.c:602-705`); power-save flags are acted
  upon before the checksum is verified (264); after a lost byte nothing but chance and the checksum bring a
  reader back to a header.

## Plan

Done, in order: `RpcCore`, `SpiLink`, `Serial`, `HostPowerSave`, `SdioLink` with its proofs, `OrderedLink` as
the abstract specification of all links, `WifiControl`, `UartLink`, `SpiHdLink`. Left:

1. **Proofs.** Every safety property of the passing runs has its theorem. Left are `SpiLink` with two startup events (which
   orders remain) and slots with several calling tasks in `RpcCore`.
2. **Abstract RPC**: what a call promises (at most one answer, its own, or a timeout), implemented by `RpcCore`
   while no two calls overlap and none gives up.
3. **WifiControl**: init and deinit, SoftAP, and the packets that pass in the open data window between the
   connected event and `station_connected`.
4. **Failing transfers**: the repeated SDIO write and the restart of the host after it.

## Not modelled, and why

- **Transport core**: the part that connects is in `HostPowerSave`. The rest has few states and is wrong in the
  ways listed above, so that a module of it would hold violations and no property.
- **Failing bus transfers**: what has reached the other side when one fails is the hardware's affair. A failed SDIO
  write is repeated and then the host restarted (`sdio_drv.c:617`); the drivers repeat no other transfer, and
  after a failed read the counters of the two sides stay apart until a reset.
- **Generated protobuf code, conversions, wrappers and handlers of one call each** (`esp_hosted_rpc.pb-c.*`,
  `rpc_req.c`, `rpc_rsp.c`, most of `rpc_wrap.c` and `slave_control.c`): more than half of the source, without state of
  their own. `RpcCore` models the path every one of them takes.
- **USB**: incomplete in the repository. **Bluetooth HCI**, **packet filter**, **memory pools**, **configuration,
  OTA, CLI, examples**: see the table of components.
- **Time** appears as order only: delays, retries after a time and the four places of `HostPowerSave` are guards.
