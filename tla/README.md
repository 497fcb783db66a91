# TLA+ models of the QDMA driver

This directory holds TLA+ models of the QDMA driver in `src/`, the TLC
configurations that check them, and this description. The models follow
the C source at the level of control flow: every state change, guard,
early return and error path. Data is abstracted: a packet is a length,
a byte is its position in the device's stream, and a pointer is an id
or one of the model values `NULL`, `Garbage` (uninitialized) and
`Dangling` (freed). `PROJECT.json` maps every definition to the source
lines it models and lists the runs, mutants, findings and hazards.

## 1. The system

| Part | Source | State | Operations | Interacts with |
|---|---|---|---|---|
| Ring index math | macros in `qdma_descq.h` (outside `src/`), used throughout `qdma_st_c2h.c` | none | `ring_idx_incr/decr/delta` | every ring |
| Buffer pool (free list, `flq`) | `qdma_st_c2h.c` 52-223 | per slot: page, len, offset, mapping; valid/sop/eop/cidx; `pidx_pend`, `pkt_dlen`, `udd_cnt` | alloc, `qdma_flq_refill` | device, fulfiller |
| Completion parser | 353-425 | `cidx_wrb`, expected `color`, `err` | `wrb_next`, `is_new_cmpl_entry`, `parse_cmpl_entry` | device |
| Packet assembler | 427-521 | `avail`, slot info, `cidx_wrb_pend` | `rcv_pkt`, `rcv_udd_only` | ULD packet callback |
| Request fulfiller | 228-351, 646-671 | per request `left`, `sg_idx`, `sg_offset`; `pend_list` | `descq_st_c2h_read`, `qdma_c2h_packets_proc_dflt`, `qdma_queue_packet_read` | request submit |
| Completion handler | 523-624 | `descq->pidx`, `pidx_wrb`, both doorbells | `descq_process_completion_st_c2h(budget)` | poll thread, all of the above |
| Character device front end | `src/drv/cdev.c` | `struct qdma_cdev` (direction locks, queue handles), open files, `cdev_async_io` objects | open, close, read/write, aio read/write, `async_io_handler`, `caio_cancel` | queue management, libqdma submit |
| Queue management | `src/drv/qdma_mod.c` | `xpdev->qdata[]`, one cdev per queue index shared through the `dir_init` bits | `xpdev_queue_add/delete`, `xpdev_queue_delete_all` (PCI reset), `probe_one`, `remove_one` | netlink, cdev, sysfs |
| Netlink commands | `src/drv/nl.c` | none of its own | `q_add/start/stop/del/dump`, `q_dump_desc/wrb`, `dev_info` over ranges of queues; `dev_list`, `q_list`, `intr_ring_dump`, `q_read_pkt` only answer | queue management, the tool's socket |
| Device configuration | `src/libqdma/libqdma_config.c`, the sysfs stores in `qdma_mod.c` | `xdev->conf` (`qsets_max`, `intr_rngsz`), `qdev->init_qrange`, the `WB_ACC` register | `qdma_set_qmax`, `qdma_set_intr_rngsz`, `qdma_set_wrb_acc` | queue add (sets `init_qrange`), device init (outside `src/`) |
| User CLI | `src/user/cli/*` | none persistent; during a run the messages queued on its socket | argument parsing, `xnl_connect`, DEV_INFO then the command, one `recv` per request | netlink |

Concurrency in the C2H engine: the device fills slots, writes colored
completion entries and publishes a status pidx concurrently with the
driver; every driver handler runs under the queue lock and is atomic.

Concurrency in the queue table: the netlink doit handlers are
serialized by `genl_mutex`, but the xpdev lookup drops `xpdev_mutex`
before the command body runs; `remove_one` runs at any time; user
processes read and write open files; the aio workqueue of each cdev runs
`async_io_handler` for every queued segment; a root shell writes the
sysfs attributes `qmax`, `intr_rngsz` and `wrb_acc` under no lock the
netlink path takes; `probe_one` publishes the xpdev before
`qdma_cdev_device_init` sets `cdev_minor_cnt`, and until then
`qdma_cdev_create` refuses every minor.

## 2. Modules

- `RingIdx.tla`: the ring index operators, modelled from spec §4.1
  because the macros are outside `src/`. `RingSpan` is the set of slots
  between a consumer and a producer.
- `C2hEngine.tla`: one streaming C2H queue together with its device.
  - Variables: `descq` (queue indices), `flq` (free list), `cb`
    (per-request progress), `pendList`, the doorbells `pidxDb` and
    `cidxDb`; the device side `hwCidx`, `hwWrbPidx`, `hwColor`,
    `statusPidx`, `wrb` (completion ring) and `page`; the counters
    `produced`, `written`, `taken`; and `rx`, every byte delivered as
    `<<request, stream position>>`.
  - Each C function is an operator over a record `S` of the software
    state; the C loops are RECURSIVE operators (`SegLoop`, `CopyLoop`,
    `CmplLoop`).
  - Actions: `ProcessCompletion(budget, fail, nok)` is the whole of
    `descq_process_completion_st_c2h` (drain, refill, both doorbells);
    `QdmaQueuePacketRead(r)`; `SubmitRead(r)` (spec §6); the device's
    `HwPacket`, `HwUddOnly`, `HwBadEntry`, `HwUpdateStatus`.
- `MC_C2hEngine.tla`: requests `r1..r3` as model values with their
  scatter lists.
- `QueuePairs.tla`: the queue table of one PCI function, its character
  devices, the files open on them and their aio.
  - Variables: `qdata` (the `xpdev->qdata` entries, `<<direction,
    index>>`), `cdev` (a pool of `struct qdma_cdev`: `dir_init`, minor,
    queue handles, the two direction locks), `lq` (libqdma's queue
    state, modelled from spec.md because libqdma's queue calls are not
    under `src/`), `file` (the cdev a file's `private_data` points at),
    `io` (a blocking read/write in progress), `dev` (absent, opened,
    cb, live, cleaned, freed), `conf` and `sysfs` (below), `nl` (the request the netlink thread holds between lookup and body), `caio`
    (the `cdev_cache` objects), `iocb` (each file's kiocb) and `fault`
    (a kernel fault: NULL, wild or freed pointer; it ends the
    behaviour).
  - The C helpers are operators over a record of the state:
    `XpdevQueueGet`, `XpdevQueueAdd`, `XpdevQueueDeleteLocked` (up to
    `spin_unlock(&cdev_lock)`), `XpdevQueueDeleteUnlocked` (the
    `qdma_queue_remove` and the memset after it), `QdmaCdevCreate`,
    `QdmaCdevDestroy`, and the RECURSIVE loops `AddLoop`, `StartLoop`,
    `StopLoop`, `DeleteAllLoop` and `CleanupLoop`. Each loop stops at
    the first failure, as the C loops do.
  - Actions: `XnlRcvCheckXpdev` (the lookup), `XnlQAdd`, `XnlQStart`,
    `XnlQStop` (each the whole command body with its reply), `XnlQDel`
    (queue by queue, each `xpdev_queue_delete` in two steps split where
    it drops `cdev_lock`: `XnlQDelLocked` and `XnlQDelUnlocked`; the
    request records the loop's step `i` and the entry `pend` between
    them),
    `RemoveOneCleanup` (`xpdev_device_cleanup`), `RemoveOneFree`
    (`qdma_device_close` and `xpdev_free`), `CdevGenOpen`,
    `CdevGenClose`, `CdevRwBegin` and `CdevRwEnd` (before and after
    the blocking submit), `CdevAioRw`, `AsyncIoHandler` (up to the
    submit), `AsyncIoComplete` (after it) and `CaioCancel`.
  - When `qdma_cdev_create` fails, the caller's local `xcdev` is never
    written; it is read anyway, so that undefined value is a choice of
    `NULL` or `Garbage` (`Junk`).
  - Probe: `ProbeOpen` (xpdev published, `dev = "opened"`;
    `cdev_minor_cnt` is still 0, so `qdma_cdev_create` fails), `ProbeFail`
    (the xpdev is freed on an error path), `ProbeCdevInit`
    (`dev = "cb"`), `ProbeSysfs` (`dev = "live"`). With `Probe = FALSE`
    behaviours start at `"live"`.
  - Device configuration: `conf` holds `qsets_max`, `up` (the qdev
    exists), `init_qrange`, `intr_rngsz` and the `WB_ACC` value.
    `qdma_set_qmax` is split at its `init_qrange` check into
    `SysfsSetQmax` (parse with `Kstrtoint`, then the checks) and
    `SysfsSetQmaxRebuild` (`qdma_device_cleanup`, which drops every
    libqdma queue, and `qdma_device_init`, which may fail); `sysfs.pc`
    is the shell between the two. `SysfsSetIntrRngsz` and
    `SysfsSetWrbAcc` are single steps. A store's buffer is a number or
    junk; `kstrtoint` failing is not checked, so junk writes 0.
  - A netlink command on a `qhndl` whose libqdma queue no longer exists
    (`StaleQhndl`) faults with `"descq_uaf"`: `qdma_queue_remove`,
    `start`, `stop` and the dump commands look up the freed descq.
  - `QdmaResetPrepare` is `xpdev_queue_delete_all` (every queue, both
    directions, `DeleteAllLoop`, stopping at a fault) run once the aio
    has drained; each of its `xpdev_queue_delete`s is one step
    (`XpdevQueueDelete`, the two halves composed). `XnlQDump`, `XnlQDumpDesc`, `XnlQDumpWrb` and
    `XnlDevInfo` change no driver state but fault on a stale handle or
    freed xpdev.
  - `destroy_workqueue` in `qdma_cdev_destroy` waits for queued aio;
    it is the guard `AioDrained` on the command reply and on
    `RemoveOneCleanup`.
- `QueuePairsAbs.tla`: what the queue table promises: a set of
  configured queues and a device node for exactly the indices that
  have a configured direction; one command configures or unconfigures
  several queues; a kernel oops (`Oops`) may leave the table in any
  state and ends the behaviour. `QueuePairs` instantiates it with
  `configured` = the entries holding a queue handle, less the one
  `xnl_q_del` has unlinked under `cdev_lock` and not yet memset (the
  locked step is where it is unconfigured), `nodes` = the minors of the
  live cdevs and `oopsed` = a fault happened, and checks
  `AbsSpecRefined`.
- `CliParse.tla`: the command line tool (`src/user/cli`), which has no
  state between runs, so it is operators over an argument vector `a`
  (C's `argv[i]` is `Argv(a, i)`, `argc` is `Len(a)`). Words are the
  strings the parser compares with; the numbers `strtoul` can read are
  the keys of `NumVal`; the `XNL_F_*` flag bits and the `QPARM_*` bits
  of `sflags` are names in sets.
  - `ParseCmd` is `parse_cmd`, with `ParseIfname`, `ParseQCmd`
    (`parse_q_cmd`: `ReadQparm`, which is the `read_qparm` loop of
    `QparmStep` turns, the per-command fix-ups `QCmdFixup`, then
    `ValidateQcmd`), `ParseRegCmd` with `ValidateRegcmd` and
    `IsValidAddr`, and `ParseIntrCmd`. A result is `"ok"`, `"err"` (a
    negative return), `"exit"` (usage or version text) or `"crash"` (a
    `strcmp` on the NULL `argv[argc]`).
  - `QFlagAttr` is the QFLAG attribute `xnl_send_cmd` sends. `QconfGet`
    is the kernel's `qconf_get`. `NlQueues` is the set of
    `<<direction, index>>` a handler loop visits, with the handler's
    `unsigned short` `qidx` (and `num_q` for start, stop and del);
    none for `Q_RX_PKT`, whose handler is compiled out. `ReadRange` is
    `read_range` (its pointer comparison rejects nothing) and
    `ScanHhu` is the `sscanf("%hhu")` of `wrbsz`.
  - `RefIndices`, `RefDirs`, `RefQueues`, `RefOp` and `UsageForm` are what the
    `usage()` text promises.
- `NlSession.tla` (extends `CliParse`): one run of dmactl against the
  netlink family, constant-level like `CliParse`. A doit handler runs
  inside the tool's `sendmsg` under `genl_mutex`, so everything a
  request causes is queued on the socket before the tool's `recv`.
  - A handler is the set of its outcomes `[msgs, rc, oom, oops]`: the
    kinds of message it queues (`"text"` for `xnl_respond_buffer`,
    `"info"` for `dev_info`), its return value, whether an allocation
    failed on the path, and whether it read an absent attribute.
    `XnlDoit` dispatches to `XnlDevListReplies` ... `XnlIntrRingDumpReplies`,
    built from `XnlRespondBuffer`, `XnlMemAllocFail`,
    `XnlRcvCheckXpdevFail`, `QconfGetFail` and `XnlRcvCheckQidx` in the
    order the C calls them. The device's presence, libqdma failures and
    the way a queue loop ends (`LoopEnds`) are choices.
  - `GenlDelivered` is the genetlink core (outside `src/`): an
    `NLMSG_ERROR` ack follows a non-zero return; dmactl never sets
    `NLM_F_ACK`.
  - The tool: `XnlSendCmdAttrs` (the attributes per command),
    `XnlSend` (append the tagged messages), `XnlRecv` (take one message,
    -1 for an ack, block for ever on an empty socket), `XnlConnect`,
    `RecvAttrMask` and `ProcRegCmd`, and `DmactlRuns(op)`, which is
    `main`: PF then VF for `dev list`; otherwise DEV_INFO, then the
    command (or `proc_reg_cmd`) on the same socket.
- `MC_QueuePairs.tla`: the file model value `f1`. It extends
  `QueuePairs` and `NlSession` (so `CliParse`) and joins the models. `CliDelVector` is the tool's
  vector for the `q_del` request that the netlink model holds.

Operators marked "Mutant" in a comment are plausible bugs in the
definition that follows them; each must make a property fail (see
`mutants` in PROJECT.json).

## 3. Runs

| Run (cfg) | Expect | Checks |
|---|---|---|
| `c2h_dflt` (`C2hDflt.cfg`, both queue confs: default path and packet callback) | pass | `TypeOK`, `ValidMarksUndrained`, `HwSlotsArmed`, `AvailMatchesRing`, `CmplRingSound`, `DlenMatchesSlots`, `CreditAfterDrain`, `RequestProgress`, and under fairness `ReportedDataDrained` (a request at the head of `pend_list` is served once the device reports entries) (45708 states) |
| `c2h_late_request` (`C2hLateRequest.cfg`) | violation | `WaitingRequestGetsData` under fairness: a request submitted after the data arrived waits forever on the tail a previous request left (line 599) |
| `c2h_stream_order` | violation | `StreamInOrder`: a resumed slot is copied from the page start (line 258) |
| `c2h_uld_cb_fail` | violation | `AvailMatchesRing`: `avail` drops before the callback fails, and again on the retry (line 440) |
| `c2h_uld_alloc_fail` | violation | `HwSlotsArmed`: the doorbell covers a slot the failed refill left unmapped (lines 207, 618) |
| `qp_safe` (`QPSafe.cfg`) | pass | `TypeOK`, `RefsMatchDirInit` (checked up to a kernel fault), `OneCdevPerIndex`, `AbsSpecRefined`, `QdataHandlesValid` (every `qdata` handle names a live libqdma queue), with netlink, dump, reset and `remove_one` interleaving with the two halves of each `xpdev_queue_delete` of `q_del`; and `CliRequestsReachHandler` (every q command the tool and `qconf_get` accept visits the queues the usage text names; the `q_del` in flight is one the tool sends, and it visits the same queues); and, over every dmactl run, `DmactlAnswered` (no run blocks in `recv` unless a kernel allocation failed), `DmactlExitsOnOwnReply` (exit 0 only on a message of the last request, never a stale ack) and `DmactlSendsReadAttrs` (no handler reads an attribute dmactl did not send) (274432 states, about 1.5 minutes). `NoQdataDerefFault` is not checked here: these bounds reach finding 10 |
| `qp_files` (`QPFiles.cfg`) | pass | `OneIoPerCdevDir`, and under fairness `UncancelledAioCompletes` and `NetlinkCommandReplies` (every netlink request taken is answered, `xnl_q_del`'s `destroy_workqueue` included), from before `probe_one`, with the sysfs writer, init and probe failure on (383096 states, about 3 minutes) |
| `qp_create_fail` | violation | `NoQdataDerefFault`: a `q_add` in probe's window, before `qdma_cdev_device_init` sets `cdev_minor_cnt`, stores the uninitialized `xcdev` (qdma_mod.c:507), and `q_del` dereferences it. The same property is also violated by finding 10, whose trace is longer |
| `qp_file_uaf` | violation | `NoFileUseAfterFree`: a file still open on a destroyed cdev (cdev.c:583) |
| `qp_remove_race` | violation | `NoXpdevUseAfterFree`: a command body on the xpdev `remove_one` freed (nl.c:347) |
| `qp_aio_multi` | violation | `IocbCompletedOnce`: one kiocb completed once per iovec segment (cdev.c:130) |
| `qp_qmax_race` | violation | `QdataHandlesValid`: a qmax write passes the `init_qrange` check, a `q_add` runs, and the rebuild frees the new queue (libqdma_config.c:53) |

Bounds and why they suffice:
- C2H: rings of `RngSz = 4` descriptors and `RngSzWrb = 3` completion
  entries, `BufSz = 2`; packets of 0, 1 or 3 bytes (a 3-byte packet spans
  two slots and leaves one short); at most `MaxBytes = 5` bytes in
  `MaxEntries = 4` entries, more than the completion ring holds, so the
  color bit wraps. Requests of 1+2, 2 and 3 bytes give partial drains,
  resumes inside a segment and packets split across requests.
  `UIntMod = 256` stands in for the width of `unsigned int`.
- `qp_safe`: two queue indices, commands of up to two queues and both
  directions, two cdevs: enough for a queue pair to share one cdev, for
  a command loop to stop half way, and for `remove_one` to land between
  any two steps. No files and no sysfs writer, so the table alone is
  explored; reset and the dump commands are on.
- dmactl runs (`NlSession`): every command of `DmactlOps`, every
  `sflags` subset for `q start`, every QFLAG bit pattern, the device
  present or gone independently for DEV_INFO and the command, every
  allocation and libqdma outcome, and both families present or not.
  That is every path of every handler; message contents are not needed
  by the properties. The three properties are wrapped as
  `nl # NlIdle => ...` so they are checked while the queue model holds
  a request; their constant part is evaluated once.
- `qp_files`: one queue index and one file. The one file's blocking
  read or write and its aio segment already contend for the same
  direction lock; one `cdev_async_io` and one segment keep the liveness
  check to seconds. Cancel is on, so `CaioCancel` and the handler's
  skip path run. Probe, probe failure, the sysfs writer (qmax buffers
  0, 1 and junk; two ring sizes; `wrb_acc` 0 and 1) and init failure
  are on, so every configuration action and every probe step fires.
  Interrupt aggregation is off, so an `intr_rngsz` write stores
  nothing: the value is read by no property, and leaving it out keeps
  the two liveness checks within a few minutes.
- The command line tool: every vector `dmactl qdma0 q <sub> ...` for
  the six subcommands, with up to `CliMaxPhrases = 3` phrases from
  `CliPhrases`. These are the idx, list, dir, mode, desc and wrb forms,
  a flag, and three malformed phrases (21,696 vectors).
  - Three phrases are enough for:
    - a selection overridden by a later one (`list 0 2 idx 1`);
    - a selection together with a direction and a mode or range;
    - two dir phrases whose flags are ORed.
  - The numbers are 0, 1 and 2. They stay clear of the 8- and 16-bit
    truncations (see the hazards), which no run shows.
  - The vector part is constant-level, so TLC evaluates it once. TLC
    evaluates the part about `nl` in every state.
- `qp_qmax_race`: the `qp_safe` table with the sysfs writer on; TLC
  finds the race in five steps.
- `qp_aio_multi`: two segments and two `cdev_async_io`, with pin
  failure allowed, the least that shows the double completion.

Every action and every disjunct fires in some passing run. All runs
set `CHECK_DEADLOCK FALSE`: the device's traffic is bounded, and in the
queue table every behaviour ends once the function is removed (or a
fault stops it).

Fairness:
- C2H: the poll thread keeps calling the handler (`poll_mode_en`), and
  the device eventually writes back its status. Weak fairness of `Poll`
  is written out with its enabling condition `PollEnabled`, because
  TLC evaluates ENABLED over the recursive completion loop badly.
- Aio: the workqueue runs every queued work item, and `fp_rw` returns
  within the request's 10 s timeout, so `AsyncIoComplete` and
  `CdevRwEnd` are weakly fair. A handler that finds the direction lock
  taken requeues itself at once and retries, so it gets the lock if the
  lock is free infinitely often: `AsyncIoHandler` is strongly fair.
- Netlink: the thread that took a request runs its body. `xnl_q_del`'s locked
  step waits in `destroy_workqueue` until the cdev's aio work has run,
  and it goes on once it has, so the bodies (`XnlBody`) are strongly
  fair, written out with the state predicate `XnlBodyReady` for the same
  reason as `PollEnabled`. For this, a request fixes `xnl_q_del`'s
  attributes when it is taken (`NlReqs`); the other bodies never wait
  and choose theirs as they run.
- The `PollEnabled` form `<>[]P => []<><<A>>_vars` gives no fairness to
  a step of `A` that changes nothing; `Poll` and the netlink bodies
  always change state when they run, so nothing is lost.
- User actions (open, close, read, write, aio submit, cancel, netlink
  requests, sysfs writes, probe and remove) are not fair: they may
  never happen.

## 4. Findings

1. **Stale page offset** (qdma_st_c2h.c:258). `descq_st_c2h_read`
   copies from `page_address(fsg->pg)` and ignores the offset left by a
   partial drain: bytes are delivered twice and the slot's tail is lost.
2. **ULD callback failure decrements `avail` twice** (line 440).
3. **ULD refill allocation failure** (lines 207, 618): the unmapped
   slot is handed to the device.
4. **Uninitialized `xcdev` after a failed create** (qdma_mod.c:507).
5. **Files outlive their cdev** (cdev.c:583): `qdma_cdev_destroy`
   frees the cdev with no count of open files.
6. **xpdev used after `remove_one` freed it** (nl.c:347): the lookup
   takes no reference.
7. **Double kiocb completion** (cdev.c:130): each segment of a
   multi-iovec aio completes the same kiocb, and after a pin failure
   the aio core completes it once more.
8. **qmax change races queue add** (libqdma_config.c:53): the
   `init_qrange` check and the rebuild of the queue table are not
   atomic with respect to netlink `q_add`; a queue added between them
   is freed by `qdma_device_cleanup` while `qdata` keeps its handle,
   and the next command uses the freed descq. In the probe window, the
   same uninitialized-`xcdev` bug of finding 4 is reached with no
   allocation failure at all.
9. **Late request stranded** (qdma_st_c2h.c:599). `pend_list` is
   drained only inside `if (proc_cnt)`, after new completion entries,
   and `qdma_request_submit` only queues the request. When a request
   takes part of a packet and the rest stays in the slots, a request
   submitted afterwards waits until the device writes another packet,
   although the spec says a read blocks until it is satisfied by the
   data received.
10. **`xpdev_queue_delete` unlocks before the memset** (qdma_mod.c:432,
    441). `q_del` of one direction clears its `dir_init` bit under
    `cdev_lock`, drops the lock, and only then removes the queue and
    memsets the entry. `remove_one`'s `xpdev_device_cleanup` in that
    window still sees the entry's `xcdev`. TLC's trace with `QPSafe.cfg`
    plus `INVARIANT NoQdataDerefFault` runs as follows:
    - `q_add` of a queue pair; `dir_init` becomes 3.
    - `q_del idx 0` runs its locked half: `dir_init` becomes 2.
    - The cleanup reads the h2c entry with `dir_init` 2, destroys the
      cdev, and then dereferences it from the c2h entry (`cdev_uaf`).

    With `remove_one` disabled, `qdma_reset_prepare` in the same window
    (after a single-direction `q_del` destroyed the cdev) faults on the
    entry's freed `xcdev` too. This finding has no run of its own; the
    run that checks `NoQdataDerefFault` shows finding 4's shorter trace.

## 5. Not modelled

- `qdma_queue_c2h_peek` (QueuePeek), which only reads state
  (`pkt_cnt` is never written, `udd_cnt` never decremented);
  `work_list`, which no code in `src/` fills.
- The state read by netlink `q_list`, `dev_list` and `intr_ring_dump`
  (only their reply paths are in `NlSession`), `err_induce`
  (`ERR_DEBUG` only); the sysfs `show` functions; module init and exit
  (`xlnx_nl_init` registers the family), SR-IOV and AER callbacks.
- The race inside a PCI reset's own `xpdev_queue_delete` with a
  concurrent `q_del` (qdma_mod.c:453): each of reset's deletes is one
  step. A reset between the two halves of `q_del`'s delete is modelled
  (finding 10).
- A device that publishes its status before the entries it covers (the
  error checks before the color check at qdma_st_c2h.c:570).
- Request and kiocb lifetime beyond the fault markers.
- The return value of `qdma_queue_packet_read`, the zero-length request
  that ends the default pass early (line 335), the late slot release on
  the ULD path (line 461), the cdev leaked by an add between cleanup and
  free in `remove_one` (qdma_mod.c:646), and the queue lost when
  `qdma_queue_remove` fails (qdma_mod.c:443). The model reaches each of
  these states; no run states a property about them (see `hazards`).
- The byte counts of aio segments (`req->count` is taken from `io[0]`,
  cdev.c:450/506), the unchecked `kmem_cache_alloc` (cdev.c:432), the
  negative `pages_nr` a failed pin stores (cdev.c:295), `set_qmax`
  ignoring the `kstrtoint` error (qdma_mod.c:126), llseek and ioctl.
- In the CLI:
  - the register I/O of `proc_reg_cmd` (mmap of the sysfs resource
    files);
  - the response printing of `nl_user.c`;
  - the `ERR_DEBUG` error-induction path.
- Also not modelled: PCI ids and the dump formatting.
- Behaviours of the netlink conversation found while modelling it,
  which no run states a property about:
  - `xpdev_list_dump` leaves `xpdev_mutex` locked when the listing is
    truncated (qdma_mod.c:355 jumps to `handle_truncation`, which does
    not unlock); every later command and probe or remove then blocks.
    Its error branch passes `snprintf` the negative size `cur - end`.
  - `q_start`, `q_stop`, `q_del`, the dumps and `intr_ring_dump` return
    0 when the device is missing. If `xnl_rcv_check_xpdev`'s reply
    could not be allocated, nothing is queued and no ack follows, so
    dmactl blocks in `recv` for ever. `DmactlAnswered` excludes runs
    with a failed allocation for this reason.
  - dmactl's exit status is that of the first message it reads: a
    command that answers and then fails (`q add` on a failing
    `xpdev_queue_add`, a missing `NUM_Q`) exits 0, and its ack is left
    unread.
  - `dev list` returns the VF family's result only; `dmactl qdma0`
    sends DEV_INFO twice.
  - `xnl_ops` has no `GENL_ADMIN_PERM`, and `q_dump_desc`,
    `q_dump_wrb` and `intr_ring_dump` read range attributes without
    checking them: any local process can make the kernel dereference
    NULL. `DmactlSendsReadAttrs` shows only that dmactl itself always
    sends them.
- Behaviours of the CLI parser found while modelling it, which no run
  checks:
  - The `dis_wbk`, `dis_wbk_acc`, `dis_wbk_pend_chk`,
    `dis_fetch_credit` and `dis_wrb_stat` words are cleared in
    `read_qparm`. `q start` then ORs those flags back in
    (cmd_parse.c:911), so the words have no effect.
  - `flags & (XNL_F_QDIR_C2H | XNL_F_QMODE_ST) == (...)` is
    `flags & 1` (cmd_parse.c:914). `wrbsz` therefore defaults to 3 for
    every ST queue, the H2C ones included.
  - `dmactl qdma0 q` and `dmactl dev` call `strcmp` on the NULL
    `argv[argc]`.
  - `q pkt idx N` is always rejected unless `dir c2h` is given, because
    the default h2c direction fails validation. The usage text instead
    documents `q dump pkt`, which the parser rejects.
  - `reg dump dmap <Q> <N>` prints registers `Q .. Q+N-1` of every dmap
    entry (`print_repeated_reg` ignores `repeat`), so for large `N` it
    reads past the `0xB400` bytes it mapped. `read_range`'s
    `v2 < v1` compares the two pointers, not the values, so it rejects
    no range: `desc 1 0` is accepted (`CliParse.ReadRange`).
  - `q pkt` sends `XNL_CMD_Q_RX_PKT`, whose handler `xnl_q_read_pkt`
    is compiled out (`#if 0`) and answers "NOT supported"; `NlQueues`
    gives it no queue.
