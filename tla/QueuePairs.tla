----------------------------- MODULE QueuePairs -----------------------------
(***************************************************************************)
(* The queue table of one QDMA PCI function (struct xlnx_pci_dev, qdata[]  *)
(* in src/drv/qdma_mod.c) and the character device shared by the two      *)
(* directions of a queue index (struct qdma_cdev, src/drv/cdev.c).         *)
(*                                                                         *)
(* Actors:                                                                 *)
(*  - the netlink thread: xnl_q_add/start/stop/del of src/drv/nl.c. The    *)
(*    doit handlers are serialized by genl_mutex, so each command body is  *)
(*    one step; the xpdev lookup (xnl_rcv_check_xpdev) drops xpdev_mutex   *)
(*    before the body runs and is a step of its own;                       *)
(*  - PCI remove (remove_one): xpdev_device_cleanup under cdev_lock, then  *)
(*    qdma_device_close and xpdev_free;                                    *)
(*  - user processes holding files of the character devices:              *)
(*    open/close and cdev_gen_read_write, whose spin_trylock is taken      *)
(*    before and released after the blocking submit; aio read/write, which *)
(*    queues one struct cdev_async_io per iovec segment, and io_cancel;    *)
(*  - the cdev's aio workqueue: async_io_handler per queued caio, which    *)
(*    takes the same direction lock by trylock (requeueing while it is     *)
(*    held) and calls ki_complete after the blocking submit.               *)
(*                                                                         *)
(* libqdma's queue calls (qdma_queue_add/start/stop/remove) are not under  *)
(* src/; they are modelled from the queue lifecycle of spec.md and kept    *)
(* as the variable lq.  A kernel fault (NULL, wild or freed pointer) is    *)
(* recorded in fault and ends the behaviour.                               *)
(***************************************************************************)
EXTENDS Integers, Sequences, FiniteSets, Bitwise

CONSTANTS
    QMax,               \* xpdev->qmax: queue indices 0 .. QMax-1
    NumQ,               \* largest XNL_ATTR_NUM_Q a command carries
    Files,              \* user file descriptors on the character devices
    MaxCdevs,           \* struct qdma_cdev allocations the model can hold
    CreateMayFail,      \* qdma_cdev_create may fail (OOM, cdev_add, device_create)
    RemoveStartedFails, \* qdma_queue_remove refuses a started queue
    NULL,               \* a NULL struct qdma_cdev *
    Garbage,            \* an uninitialized struct qdma_cdev * on the stack
    NoQ,                \* qhndl of a memset qdata entry
    Closed,             \* a file slot with no open file
    Dangling,           \* an open file whose qdma_cdev was kfree'd
    NoOwner,            \* a free spinlock
    NoIo,               \* a file with no read/write in progress
    MaxCaio,            \* struct cdev_async_io objects in cdev_cache
    MaxSegs,            \* largest iovec count of one aio read/write
    AioCancel,          \* user space may io_cancel a submitted iocb
    PinMayFail,         \* map_user_buf_to_sgl may fail for a segment
    Sysfs,              \* the sysfs attributes are written
    InitMayFail,        \* qdma_device_init may fail (kzalloc of the descqs)
    IntrAgg,            \* conf.intr_agg, the ind_intr_mode module parameter
    Probe,              \* behaviours start before probe_one
    ProbeMayFail        \* qdma_cdev_device_init or sysfs_create_group may fail

H2C == 0
C2H == 1
Dirs == {H2C, C2H}
Qs == 0 .. QMax - 1
\* Mutant: the direction bit shifted one too far.
BitShifted(d) == 2^(d + 1)
Bit(d) == 2^d
CdevIds == 1 .. MaxCdevs

\* Entries of xpdev->qdata: index qidx for h2c, qmax + qidx for c2h.
Entries == Dirs \X Qs
\* The handle libqdma returns for a queue: opaque and never 0.
QHndl(d, q) == <<d, q>>
EmptyQdata == [qhndl |-> NoQ, xcdev |-> NULL]
Caios == 1 .. MaxCaio
FreeCaio == [st |-> "free", f |-> Closed, c |-> 0, write |-> FALSE, cancel |-> FALSE]
NoIocb == [st |-> "none", priv |-> 0, cancelled |-> FALSE]
FreeCdev == [st |-> "free", dir_init |-> 0, minor |-> 0,
             qh |-> [d \in Dirs |-> NoQ], lk |-> [d \in Dirs |-> NoOwner]]

VARIABLES
    conf,   \* xdev->conf and qdev: qsets_max, up (qdev allocated), init_qrange,
            \* intr_rngsz, and the QDMA_REG_GLBL_WB_ACC register as wb_acc
    sysfs,  \* the set_qmax writer: "idle", or "checked" with the value it parsed
    qdata,  \* xpdev->qdata[]: [qhndl, xcdev] per entry
    cdev,   \* the struct qdma_cdev objects, "free" when not allocated
    lq,     \* libqdma queue state per entry: "none", "added", "started"
    file,   \* file->private_data of each open file
    io,     \* [d, qh] of a read/write between its trylock and its unlock
    dev,    \* the xpdev: "absent", probe_one's "opened" and "cb", "live",
            \* remove_one's "cleaned", and "freed"
    nl,     \* netlink thread: NlIdle, or the request whose body is next
            \* (it holds an xpdev pointer)
    caio,   \* struct cdev_async_io: "free", "queued" on aio_wq, "running"
    iocb,   \* the kiocb a file has submitted: "none", "active", "done"
    fault   \* kernel faults that happened (history)

vars == <<conf, sysfs, qdata, cdev, lq, file, io, dev, nl, caio, iocb, fault>>

\* The part of the state a netlink command or the cleanup loop rewrites.
St == [conf |-> conf, qdata |-> qdata, cdev |-> cdev, lq |-> lq, file |-> file,
      fault |-> fault]
Commit(S) == /\ conf' = S.conf /\ qdata' = S.qdata /\ cdev' = S.cdev /\ lq' = S.lq
             /\ file' = S.file /\ fault' = S.fault
Fault(S, k) == [S EXCEPT !.fault = @ \cup {k}]

\* What dereferencing a struct qdma_cdev * does.
DerefFault(S, x) ==
    CASE x = NULL                -> "null_deref"
      [] x = Garbage             -> "wild_deref"
      [] S.cdev[x].st = "free"   -> "cdev_uaf"
      [] OTHER                   -> "none"

\* Mutant: the "NOT configured" check dropped.
XpdevQueueGetNoCheck(S, q, d, check_qhndl) == q \in Qs

\* xpdev_queue_get: is the returned qdata pointer non-NULL?
XpdevQueueGet(S, q, d, check_qhndl) ==
    /\ q \in Qs
    /\ check_qhndl => (S.qdata[<<d, q>>].qhndl # NoQ \/ S.qdata[<<d, q>>].xcdev # NULL)

\* qdma_cdev_destroy: cdev_del and kfree; files still open on it dangle.
QdmaCdevDestroy(S, c) ==
    [S EXCEPT !.cdev[c] = FreeCdev,
              !.file = [f \in Files |-> IF S.file[f] = c THEN Dangling ELSE S.file[f]]]

\* qdma_cdev_create followed by the two stores of xpdev_queue_add.  When it
\* fails, *xcdev_pp is never written and the caller's local is stored.
\* Until probe_one's qdma_cdev_device_init, cdev_minor_cnt is 0 and every
\* minor is refused ("no char dev. left").
QdmaCdevCreate(S, q, d, fail, junk) ==
    LET free == {c \in CdevIds : S.cdev[c].st = "free"}
        h == QHndl(d, q)
    IN IF fail \/ free = {} \/ dev = "opened"
       THEN [s |-> [S EXCEPT !.qdata[<<d, q>>] = [qhndl |-> h, xcdev |-> junk]],
             ok |-> FALSE]
       ELSE LET c == CHOOSE c \in free : \A o \in free : c <= o
            IN [s |-> [S EXCEPT !.cdev[c] = [FreeCdev EXCEPT !.st = "live",
                                      !.dir_init = Bit(d), !.minor = q, !.qh[d] = h],
                                !.qdata[<<d, q>>] = [qhndl |-> h, xcdev |-> c]],
                ok |-> TRUE]

\* qdma_queue_add (libqdma): a queue index below conf.qsets_max is added
\* once per direction, on a device whose qdev exists.
QdmaQueueAdd(S, q, d) ==
    q \in Qs /\ S.conf.up /\ q < S.conf.qsets_max /\ S.lq[<<d, q>>] = "none"

\* The queue is added, and the first add programs the FMAP (init_qrange).
QdmaQueueAdded(S, q, d) ==
    [S EXCEPT !.lq[<<d, q>>] = "added", !.conf.init_qrange = TRUE]

\* Mutant: the peer's cdev is never shared, a cdev is always created.
XpdevQueueAddNoShare(S, q, d, fail, junk) ==
    IF ~QdmaQueueAdd(S, q, d) THEN [s |-> S, ok |-> FALSE]
    ELSE QdmaCdevCreate(QdmaQueueAdded(S, q, d), q, d, fail, junk)

\* xpdev_queue_add: add the queue, then share the peer direction's cdev
\* ("only 1 cdev per queue pair") or create one.
XpdevQueueAdd(S, q, d, fail, junk) ==
    IF ~QdmaQueueAdd(S, q, d) THEN [s |-> S, ok |-> FALSE]
    ELSE LET S1 == QdmaQueueAdded(S, q, d)
             peer == S.qdata[<<1 - d, q>>].xcdev
             h == QHndl(d, q)
         IN IF peer = NULL THEN QdmaCdevCreate(S1, q, d, fail, junk)
            ELSE IF DerefFault(S1, peer) # "none"
            THEN [s |-> Fault(S1, DerefFault(S1, peer)), ok |-> FALSE]
            ELSE [s |-> [S1 EXCEPT !.qdata[<<d, q>>] = [qhndl |-> h, xcdev |-> peer],
                                   !.cdev[peer].qh[d] = h,
                                   !.cdev[peer].dir_init = @ | Bit(d)],
                  ok |-> TRUE]

\* A qhndl is the descq libqdma allocated for it: once the queue is gone
\* (qdma_queue_remove, qdma_device_cleanup) libqdma reads freed memory.
StaleQhndl(S, h) == h # NoQ /\ S.lq[h] = "none"

\* qdma_queue_remove (libqdma): removes an added queue; a started one only
\* when libqdma allows it.
QdmaQueueRemove(S, h) ==
    IF StaleQhndl(S, h) THEN [s |-> Fault(S, "descq_uaf"), ok |-> FALSE]
    ELSE IF h # NoQ /\ (S.lq[h] = "added" \/ (S.lq[h] = "started" /\ ~RemoveStartedFails))
    THEN [s |-> [S EXCEPT !.lq[h] = "none"], ok |-> TRUE]
    ELSE [s |-> S, ok |-> FALSE]

\* Mutant: the cdev is destroyed whatever the other direction holds.
XpdevQueueDeleteLockedAlwaysDestroy(S, q, d) ==
    IF ~XpdevQueueGet(S, q, d, TRUE) THEN [s |-> S, ok |-> FALSE]
    ELSE LET x == S.qdata[<<d, q>>].xcdev
         IN IF DerefFault(S, x) # "none"
            THEN [s |-> Fault(S, DerefFault(S, x)), ok |-> FALSE]
            ELSE [s |-> QdmaCdevDestroy(S, x), ok |-> TRUE]

\* Mutant: the cdev is never destroyed, only its bit cleared.
XpdevQueueDeleteLockedNoDestroy(S, q, d) ==
    IF ~XpdevQueueGet(S, q, d, TRUE) THEN [s |-> S, ok |-> FALSE]
    ELSE LET x == S.qdata[<<d, q>>].xcdev
         IN IF DerefFault(S, x) # "none"
            THEN [s |-> Fault(S, DerefFault(S, x)), ok |-> FALSE]
            ELSE [s |-> [S EXCEPT !.cdev[x].dir_init = @ & (3 - Bit(d))], ok |-> TRUE]

\* xpdev_queue_delete up to spin_unlock(&cdev_lock): xpdev_queue_get, then
\* under the lock drop this direction's bit of the cdev (dereferencing
\* xcdev before its NULL test) and destroy the cdev when no bit is left.
XpdevQueueDeleteLocked(S, q, d) ==
    IF ~XpdevQueueGet(S, q, d, TRUE) THEN [s |-> S, ok |-> FALSE]
    ELSE LET x == S.qdata[<<d, q>>].xcdev
         IN IF DerefFault(S, x) # "none"
            THEN [s |-> Fault(S, DerefFault(S, x)), ok |-> FALSE]
            ELSE LET S1 == [S EXCEPT !.cdev[x].dir_init = @ & (3 - Bit(d))]
                 IN [s |-> IF S1.cdev[x].dir_init = 0 THEN QdmaCdevDestroy(S1, x) ELSE S1,
                     ok |-> TRUE]

\* Mutant: the entry is memset only when qdma_queue_remove failed.
XpdevQueueDeleteUnlockedNoMemset(S, q, d) ==
    LET h == S.qdata[<<d, q>>].qhndl
        rm == IF h # NoQ THEN QdmaQueueRemove(S, h) ELSE [s |-> S, ok |-> TRUE]
    IN IF rm.ok THEN rm ELSE [s |-> [rm.s EXCEPT !.qdata[<<d, q>>] = EmptyQdata], ok |-> FALSE]

\* The rest of xpdev_queue_delete, after the unlock, through the qdata
\* pointer taken before it: qdma_queue_remove when the entry still holds a
\* qhndl (rv stays 0 otherwise), then the memset whatever it returned.
XpdevQueueDeleteUnlocked(S, q, d) ==
    LET h == S.qdata[<<d, q>>].qhndl
        rm == IF h # NoQ THEN QdmaQueueRemove(S, h) ELSE [s |-> S, ok |-> TRUE]
    IN [s |-> [rm.s EXCEPT !.qdata[<<d, q>>] = EmptyQdata], ok |-> rm.ok]

\* xpdev_queue_delete in one step, as qdma_reset_prepare's
\* xpdev_queue_delete_all runs it (see the README on this abstraction).
XpdevQueueDelete(S, q, d) ==
    LET r == XpdevQueueDeleteLocked(S, q, d)
    IN IF r.ok THEN XpdevQueueDeleteUnlocked(r.s, q, d) ELSE r

\* xnl_q_start per queue: xnl_rcv_check_qidx, qdma_queue_reconfig, then
\* qdma_queue_start (libqdma: an added queue starts).
XnlQStartOne(S, q, d) ==
    IF ~XpdevQueueGet(S, q, d, TRUE) THEN [s |-> S, ok |-> FALSE]
    ELSE LET h == S.qdata[<<d, q>>].qhndl
         IN IF StaleQhndl(S, h) THEN [s |-> Fault(S, "descq_uaf"), ok |-> FALSE]
            ELSE IF h # NoQ /\ S.lq[h] = "added"
            THEN [s |-> [S EXCEPT !.lq[h] = "started"], ok |-> TRUE]
            ELSE [s |-> S, ok |-> FALSE]

\* xnl_q_stop per queue: xnl_rcv_check_qidx, then qdma_queue_stop.
XnlQStopOne(S, q, d) ==
    IF ~XpdevQueueGet(S, q, d, TRUE) THEN [s |-> S, ok |-> FALSE]
    ELSE LET h == S.qdata[<<d, q>>].qhndl
         IN IF StaleQhndl(S, h) THEN [s |-> Fault(S, "descq_uaf"), ok |-> FALSE]
            ELSE IF h # NoQ /\ S.lq[h] = "started"
            THEN [s |-> [S EXCEPT !.lq[h] = "added"], ok |-> TRUE]
            ELSE [s |-> S, ok |-> FALSE]

\* xnl_q_dump per queue: xnl_rcv_check_qidx, then qdma_queue_dump on the
\* entry's qhndl, which reads the descq's state and rings.
XnlQDumpOne(S, q, d) ==
    IF ~XpdevQueueGet(S, q, d, TRUE) THEN [s |-> S, ok |-> FALSE]
    ELSE IF StaleQhndl(S, S.qdata[<<d, q>>].qhndl)
    THEN [s |-> Fault(S, "descq_uaf"), ok |-> FALSE]
    ELSE [s |-> S, ok |-> TRUE]

\* The queues a command visits: for each i < num_q the index qidx + i in
\* qconf.c2h's direction, then, for a queue pair, in the other direction.
CmdSteps(q0, n, d, isQp) ==
    LET per == IF isQp THEN 2 ELSE 1
    IN [i \in 1 .. per * n |-> <<IF (i - 1) % per = 0 THEN d ELSE 1 - d,
                                 q0 + (i - 1) \div per>>]

\* The command loops stop at the first step that fails (goto send_resp).
RECURSIVE AddLoop(_, _, _, _, _)
AddLoop(S, steps, i, failAt, junk) ==
    IF i > Len(steps) THEN S
    ELSE LET r == XpdevQueueAdd(S, steps[i][2], steps[i][1], i = failAt, junk)
         IN IF r.ok THEN AddLoop(r.s, steps, i + 1, failAt, junk) ELSE r.s

RECURSIVE StartLoop(_, _, _)
StartLoop(S, steps, i) ==
    IF i > Len(steps) THEN S
    ELSE LET r == XnlQStartOne(S, steps[i][2], steps[i][1])
         IN IF r.ok THEN StartLoop(r.s, steps, i + 1) ELSE r.s

RECURSIVE StopLoop(_, _, _)
StopLoop(S, steps, i) ==
    IF i > Len(steps) THEN S
    ELSE LET r == XnlQStopOne(S, steps[i][2], steps[i][1])
         IN IF r.ok THEN StopLoop(r.s, steps, i + 1) ELSE r.s

RECURSIVE DumpLoop(_, _, _)
DumpLoop(S, steps, i) ==
    IF i > Len(steps) THEN S
    ELSE LET r == XnlQDumpOne(S, steps[i][2], steps[i][1])
         IN IF r.ok THEN DumpLoop(r.s, steps, i + 1) ELSE r.s

\* xpdev_device_cleanup: walk qdata[0 .. 2*qmax-1] (h2c, then c2h) under
\* cdev_lock; destroy a cdev whose dir_init is 1 or 2, else shift one bit
\* off; memset every entry.
CleanupOrder == [i \in 1 .. 2 * QMax |->
                    IF i <= QMax THEN <<H2C, i - 1>> ELSE <<C2H, i - 1 - QMax>>]

RECURSIVE CleanupLoop(_, _)
CleanupLoop(S, i) ==
    IF i > Len(CleanupOrder) THEN S
    ELSE LET e == CleanupOrder[i]
             x == S.qdata[e].xcdev
         IN IF x = NULL
            THEN CleanupLoop([S EXCEPT !.qdata[e] = EmptyQdata], i + 1)
            ELSE IF DerefFault(S, x) # "none" THEN Fault(S, DerefFault(S, x))
            ELSE LET S1 == IF S.cdev[x].dir_init \in {1, 2}
                           THEN QdmaCdevDestroy(S, x)
                           ELSE [S EXCEPT !.cdev[x].dir_init = shiftR(@, 1)]
                 IN CleanupLoop([S1 EXCEPT !.qdata[e] = EmptyQdata], i + 1)

\* kstrtoint(buf, 0, &v): a number in the buffer is stored in v; anything
\* else returns -EINVAL and leaves v as the caller initialized it.  A buffer
\* is <<"num", n>> or <<"junk", 0>>.
Kstrtoint(buf, v) ==
    IF buf[1] = "num" THEN [err |-> 0, v |-> buf[2]] ELSE [err |-> -22, v |-> v]

\* qdma_device_cleanup (libqdma): every descq is freed, and qdev with it.
QdmaDeviceCleanup(S) ==
    [S EXCEPT !.conf.up = FALSE, !.conf.init_qrange = FALSE,
              !.lq = [e \in Entries |-> "none"]]

\* qdma_device_init (libqdma): a fresh qdev with no queue and no FMAP, or
\* none when its allocation fails.
QdmaDeviceInit(S, ok) == [S EXCEPT !.conf.up = ok, !.conf.init_qrange = FALSE]

\* xpdev_queue_delete_all: xpdev_queue_delete of h2c then c2h for each
\* index below xpdev->qmax, ignoring what each returns.
DeleteAllOrder == [i \in 1 .. 2 * QMax |-> <<(i - 1) % 2, (i - 1) \div 2>>]

RECURSIVE DeleteAllLoop(_, _)
DeleteAllLoop(S, i) ==
    IF i > Len(DeleteAllOrder) THEN S
    ELSE LET r == XpdevQueueDelete(S, DeleteAllOrder[i][2], DeleteAllOrder[i][1])
         IN IF r.s.fault # {} THEN r.s ELSE DeleteAllLoop(r.s, i + 1)
-----------------------------------------------------------------------------
(* Initial state: probe_one has run (xpdev_alloc zeroes qdata), no file is *)
(* open and no fault has happened.                                         *)

\* probe_one: qdma_device_open returns the hardware qsets_max (QMax) and
\* conf.intr_rngsz = QDMA_INTR_COAL_RING_SIZE (INTR_RING_SZ_4KB, 0); the
\* writeback accumulation register holds whatever the hardware reset left.
WbAccVals == {0, 1}

\* The command inputs: XNL_ATTR_QIDX (QMax is one past the table),
\* XNL_ATTR_NUM_Q, and the direction flags as qconf_get reads them: both
\* directions set gives qconf.c2h = 1 and is_qp.
QIdxIn == 0 .. QMax
NumQIn == 0 .. NumQ
DirFlags == {"h2c", "c2h", "both"}
QconfC2h(flag) == IF flag = "h2c" THEN H2C ELSE C2H
FailAts(n) == IF CreateMayFail THEN 0 .. 2 * n ELSE {0}
Junk == {NULL, Garbage}

\* The doit handlers of xnl_ops that reach xnl_rcv_check_xpdev.
NlCmds == {"add", "start", "stop", "del", "dump", "desc", "wrb", "info"}

\* A request: its command and, for xnl_q_del, the attributes the message
\* carries, the loop's step i and the entry whose xpdev_queue_delete has
\* dropped cdev_lock and not yet memset it (pend).  The other bodies read
\* their attributes as they run and never wait, so the model chooses them
\* there; xnl_q_del's body runs queue by queue in two steps each.  NlIdle
\* is the netlink thread between requests.
NlIdle == [cmd |-> "idle", q0 |-> 0, n |-> 0, flag |-> "h2c", i |-> 1, pend |-> {}]
NlReqs == {[NlIdle EXCEPT !.cmd = c] : c \in NlCmds \ {"del"}}
            \cup [cmd : {"del"}, q0 : QIdxIn, n : NumQIn, flag : DirFlags,
                  i : {1}, pend : {{}}]
\* The states of a del request while its loop runs.
NlDelRunning(r) == [r EXCEPT !.i = 1, !.pend = {}]

Init ==
    /\ conf \in [qsets_max : {QMax}, up : {TRUE}, init_qrange : {FALSE},
                 intr_rngsz : {0}, wb_acc : WbAccVals]
    /\ sysfs = [pc |-> "idle", v |-> 0]
    /\ qdata = [e \in Entries |-> EmptyQdata]
    /\ cdev = [c \in CdevIds |-> FreeCdev]
    /\ lq = [e \in Entries |-> "none"]
    /\ file = [f \in Files |-> Closed]
    /\ io = [f \in Files |-> NoIo]
    /\ dev = IF Probe THEN "absent" ELSE "live"
    /\ nl = NlIdle
    /\ caio = [k \in Caios |-> FreeCaio]
    /\ iocb = [f \in Files |-> NoIocb]
    /\ fault = {}

\* xpdev_find_by_idx: the device is on xpdev_list from xpdev_alloc to
\* xpdev_free and carries the index it is asked for once probe_one has set
\* xpdev->idx.
XpdevFindByIdx == dev \in {"opened", "cb", "live", "cleaned"}

\* xnl_rcv_check_xpdev, the first call of every doit handler:
\* xpdev_find_by_idx finds the device and returns the pointer after
\* dropping xpdev_mutex.
XnlRcvCheckXpdev(req) ==
    /\ fault = {}
    /\ nl = NlIdle
    /\ XpdevFindByIdx
    /\ nl' = req
    /\ UNCHANGED <<conf, sysfs, caio, iocb, qdata, cdev, lq, file, io, dev, fault>>

\* qdma_cdev_destroy calls destroy_workqueue(aio_wq), which waits until the
\* aio work queued on the cdevs a step destroys has run.
AioDrained(S) ==
    \A k \in Caios : caio[k].st # "free" => S.cdev[caio[k].c].st = "live"

\* The queue steps of a request for n queues from q0 in the flag's directions.
NlSteps(q0, n, flag) == CmdSteps(q0, n, QconfC2h(flag), flag = "both")

\* A step of a command body runs on the xpdev pointer found before; if
\* remove_one freed the device meanwhile, its first access is a use after
\* free.  Otherwise the step's table S is committed and the netlink thread
\* goes on with request next.
XnlRun(S, next) ==
    /\ dev = "freed" \/ AioDrained(S)
    /\ nl' = IF dev = "freed" THEN NlIdle ELSE next
    /\ IF dev = "freed" THEN Commit(Fault(St, "xpdev_uaf")) ELSE Commit(S)
    /\ UNCHANGED <<sysfs, caio, iocb, io, dev>>

\* A whole body, then xnl_respond_buffer.
XnlRespond(S) == XnlRun(S, NlIdle)

XnlQAdd ==
    /\ fault = {}
    /\ nl.cmd = "add"
    /\ \E q0 \in QIdxIn, n \in NumQIn, flag \in DirFlags :
       \E failAt \in FailAts(n), junk \in Junk :
          XnlRespond(AddLoop(St, NlSteps(q0, n, flag), 1, failAt, junk))

XnlQStart ==
    /\ fault = {}
    /\ nl.cmd = "start"
    /\ \E q0 \in QIdxIn, n \in NumQIn, flag \in DirFlags :
          XnlRespond(StartLoop(St, NlSteps(q0, n, flag), 1))

XnlQStop ==
    /\ fault = {}
    /\ nl.cmd = "stop"
    /\ \E q0 \in QIdxIn, n \in NumQIn, flag \in DirFlags :
          XnlRespond(StopLoop(St, NlSteps(q0, n, flag), 1))

\* xnl_q_del's loop: step i deletes DelSteps[i]; the first failure goes to
\* send_resp, and so does the end of the loop.
DelSteps == NlSteps(nl.q0, nl.n, nl.flag)

\* num_q = 0: the loop body never runs and the reply is sent.
XnlQDelNone ==
    /\ fault = {}
    /\ nl.cmd = "del"
    /\ DelSteps = <<>>
    /\ nl' = NlIdle
    /\ UNCHANGED <<conf, sysfs, qdata, cdev, lq, file, io, dev, caio, iocb, fault>>

\* xpdev_queue_delete of step i up to the unlock of cdev_lock.
XnlQDelLocked ==
    /\ fault = {}
    /\ nl.cmd = "del"
    /\ nl.pend = {}
    /\ nl.i <= Len(DelSteps)
    /\ LET e == <<DelSteps[nl.i][1], DelSteps[nl.i][2]>>
           r == XpdevQueueDeleteLocked(St, e[2], e[1])
       IN XnlRun(r.s, IF r.ok THEN [nl EXCEPT !.pend = {e}] ELSE NlIdle)

\* The rest of that xpdev_queue_delete; the loop goes on or replies.
XnlQDelUnlocked ==
    /\ fault = {}
    /\ nl.cmd = "del"
    /\ \E e \in nl.pend :
          LET r == XpdevQueueDeleteUnlocked(St, e[2], e[1])
          IN XnlRun(r.s, IF r.ok /\ nl.i < Len(DelSteps)
                          THEN [nl EXCEPT !.i = @ + 1, !.pend = {}] ELSE NlIdle)

XnlQDel == XnlQDelNone \/ XnlQDelLocked \/ XnlQDelUnlocked

\* xnl_q_dump: the per-queue dumps, stopping at the first failure; the
\* response text is left out.
XnlQDump ==
    /\ fault = {}
    /\ nl.cmd = "dump"
    /\ \E q0 \in QIdxIn, n \in NumQIn, flag \in DirFlags :
          XnlRespond(DumpLoop(St, NlSteps(q0, n, flag), 1))

\* xnl_q_dump_desc: XNL_ATTR_RANGE_START/END, then the loop of xnl_q_dump
\* with qdma_queue_dump_desc, which reads the descq's ring.
XnlQDumpDesc ==
    /\ fault = {}
    /\ nl.cmd = "desc"
    /\ \E q0 \in QIdxIn, n \in NumQIn, flag \in DirFlags :
          XnlRespond(DumpLoop(St, NlSteps(q0, n, flag), 1))

\* xnl_q_dump_wrb: the same with qdma_queue_dump_wrb on the completion ring.
XnlQDumpWrb ==
    /\ fault = {}
    /\ nl.cmd = "wrb"
    /\ \E q0 \in QIdxIn, n \in NumQIn, flag \in DirFlags :
          XnlRespond(DumpLoop(St, NlSteps(q0, n, flag), 1))

\* xnl_dev_info: xpdev->pdev and qdma_device_get_config through the xpdev
\* pointer, then the reply; nothing in the table changes.
XnlDevInfo ==
    /\ fault = {}
    /\ nl.cmd = "info"
    /\ XnlRespond(St)

\* qdma_reset_prepare (reset_notify with prepare): qdma_device_offline and
\* the FLR quirk (libqdma, no state of the table), then
\* xpdev_queue_delete_all; reset_done's qdma_device_online changes nothing
\* the model keeps.
QdmaResetPrepare ==
    /\ fault = {}
    /\ dev = "live"
    /\ AioDrained(DeleteAllLoop(St, 1))
    /\ Commit(DeleteAllLoop(St, 1))
    /\ UNCHANGED <<sysfs, caio, iocb, io, dev, nl>>

\* remove_one, first half: sysfs_remove_group, which waits for a sysfs
\* store in progress, then xpdev_device_cleanup (qdma_cdev_device_cleanup
\* only releases the chrdev region).
RemoveOneCleanup ==
    /\ fault = {}
    /\ dev = "live"
    /\ sysfs.pc = "idle"
    /\ dev' = "cleaned"
    /\ AioDrained(CleanupLoop(St, 1))
    /\ Commit(CleanupLoop(St, 1))
    /\ UNCHANGED <<sysfs, caio, iocb, io, nl>>

\* remove_one, second half: qdma_device_close drops every libqdma queue and
\* xpdev_free takes the device off xpdev_list and frees it.
RemoveOneFree ==
    /\ fault = {}
    /\ dev = "cleaned"
    /\ dev' = "freed"
    /\ lq' = [e \in Entries |-> "none"]
    /\ UNCHANGED <<conf, sysfs, caio, iocb, qdata, cdev, file, io, nl, fault>>

\* probe_one up to xpdev->idx: qdma_device_open, then xpdev_alloc, which
\* zeroes the xpdev (and its cdev_cb) and puts it on xpdev_list.
ProbeOpen ==
    /\ fault = {}
    /\ dev = "absent"
    /\ dev' = "opened"
    /\ UNCHANGED <<conf, sysfs, caio, iocb, qdata, cdev, lq, file, io, nl, fault>>

\* The probe_one failure path (close_device): qdma_device_close drops every
\* libqdma queue and xpdev_free takes the xpdev off the list and frees it;
\* cdevs and qdata entries made meanwhile are left as they are.
ProbeFail ==
    /\ dev' = "freed"
    /\ lq' = [e \in Entries |-> "none"]
    /\ UNCHANGED <<conf, sysfs, caio, iocb, qdata, cdev, file, io, nl, fault>>

\* qdma_cdev_device_init (cdev_minor_cnt, alloc_chrdev_region) and
\* cdev_cb.xpdev; when it fails, probe_one goes to close_device.
ProbeCdevInit ==
    /\ fault = {}
    /\ dev = "opened"
    /\ \/ /\ dev' = "cb"
          /\ UNCHANGED <<conf, sysfs, caio, iocb, qdata, cdev, lq, file, io, nl, fault>>
       \/ ProbeMayFail /\ ProbeFail

\* sysfs_create_group and dev_set_drvdata; when sysfs fails, probe_one goes
\* to close_device.
ProbeSysfs ==
    /\ fault = {}
    /\ dev = "cb"
    /\ \/ /\ dev' = "live"
          /\ UNCHANGED <<conf, sysfs, caio, iocb, qdata, cdev, lq, file, io, nl, fault>>
       \/ ProbeMayFail /\ ProbeFail

\* cdev_gen_open on a live device node: private_data = the qdma_cdev.
CdevGenOpen(f) ==
    /\ fault = {}
    /\ file[f] = Closed
    /\ \E c \in CdevIds : cdev[c].st = "live" /\ file' = [file EXCEPT ![f] = c]
    /\ UNCHANGED <<conf, sysfs, caio, iocb, qdata, cdev, lq, io, dev, nl, fault>>

\* cdev_gen_close reads xcdev->fp_close_extra.  A submitted kiocb holds a
\* reference on the file, so release does not run while it is active.
CdevGenClose(f) ==
    /\ fault = {}
    /\ file[f] # Closed
    /\ io[f] = NoIo
    /\ iocb[f].st # "active"
    /\ file' = [file EXCEPT ![f] = Closed]
    /\ fault' = IF file[f] = Dangling THEN fault \cup {"file_uaf"} ELSE fault
    /\ UNCHANGED <<conf, sysfs, caio, iocb, qdata, cdev, lq, io, dev, nl>>

\* Mutant: spin_lock instead of spin_trylock, modelled as never failing.
CdevRwBeginNoTrylock(f, write) ==
    LET c == file[f]
        d == IF write THEN H2C ELSE C2H
    IN /\ fault = {}
       /\ c \notin {Closed, Dangling}
       /\ io[f] = NoIo
       /\ cdev' = [cdev EXCEPT ![c].lk[d] = f]
       /\ io' = [io EXCEPT ![f] = [d |-> d, qh |-> cdev[c].qh[d]]]
       /\ UNCHANGED <<conf, sysfs, caio, iocb, qdata, lq, file, dev, nl, fault>>

\* cdev_gen_read_write up to the submit: read the direction's qhndl and
\* spin_trylock its lock; a held lock returns -EINVAL.
CdevRwBegin(f, write) ==
    LET c == file[f]
        d == IF write THEN H2C ELSE C2H
    IN /\ fault = {}
       /\ c \notin {Closed}
       /\ io[f] = NoIo
       /\ IF c = Dangling
          THEN /\ fault' = fault \cup {"file_uaf"}
               /\ UNCHANGED <<cdev, io>>
          ELSE /\ IF cdev[c].lk[d] = NoOwner
                  THEN /\ cdev' = [cdev EXCEPT ![c].lk[d] = f]
                       /\ io' = [io EXCEPT ![f] = [d |-> d, qh |-> cdev[c].qh[d]]]
                  ELSE UNCHANGED <<cdev, io>>
               /\ UNCHANGED fault
       /\ UNCHANGED <<conf, sysfs, caio, iocb, qdata, lq, file, dev, nl>>

\* cdev_gen_read_write from the submit on: fp_rw through xcdev->xcb->xpdev
\* with the qhndl read before, then spin_unlock.
\* Mutant: the direction lock is not released after the submit.
CdevRwEndNoUnlock(f) ==
    LET c == file[f]
    IN /\ fault = {}
       /\ io[f] # NoIo
       /\ io' = [io EXCEPT ![f] = NoIo]
       /\ IF c = Dangling \/ dev = "freed"
          THEN fault' = fault \cup {IF c = Dangling THEN "file_uaf" ELSE "xpdev_uaf"}
          ELSE UNCHANGED fault
       /\ UNCHANGED <<conf, sysfs, caio, iocb, qdata, lq, file, dev, nl, cdev>>

CdevRwEnd(f) ==
    LET c == file[f]
    IN /\ fault = {}
       /\ io[f] # NoIo
       /\ io' = [io EXCEPT ![f] = NoIo]
       /\ IF c = Dangling \/ dev = "freed"
          THEN /\ fault' = fault \cup {IF c = Dangling THEN "file_uaf" ELSE "xpdev_uaf"}
               /\ UNCHANGED cdev
          ELSE /\ cdev' = [cdev EXCEPT ![c].lk[io[f].d] = NoOwner]
               /\ UNCHANGED fault
       /\ UNCHANGED <<conf, sysfs, caio, iocb, qdata, lq, file, dev, nl>>

\* cdev_aio_read/cdev_aio_write (through read_iter/write_iter): one struct
\* cdev_async_io per iovec segment, each queued on xcdev->aio_wq and each
\* pointing at the same kiocb, whose private field ends up naming the last
\* one.  map_user_buf_to_sgl failing for segment pinFail frees that caio
\* and returns the error, and the aio core then completes the kiocb, while
\* the segments queued before stay queued.
PinFailAts(nseg) == IF PinMayFail THEN 0 .. nseg ELSE {0}

CdevAioRw(f, write, nseg, pinFail) ==
    LET c == file[f]
        queued == IF pinFail = 0 THEN nseg ELSE pinFail - 1
    IN /\ fault = {}
       /\ c # Closed
       /\ iocb[f].st # "active"
       /\ IF c = Dangling
          THEN /\ fault' = fault \cup {"file_uaf"}
               /\ UNCHANGED <<caio, iocb>>
          ELSE \E ids \in [1 .. nseg -> Caios] :
                  /\ \A i, j \in 1 .. nseg : i # j => ids[i] # ids[j]
                  /\ \A i \in 1 .. nseg : caio[ids[i]].st = "free"
                  /\ caio' = [k \in Caios |->
                                IF \E i \in 1 .. queued : ids[i] = k
                                THEN [st |-> "queued", f |-> f, c |-> c,
                                      write |-> write, cancel |-> FALSE]
                                ELSE caio[k]]
                  /\ iocb' = [iocb EXCEPT ![f] =
                                IF pinFail = 0
                                THEN [st |-> "active", priv |-> ids[nseg], cancelled |-> FALSE]
                                ELSE [NoIocb EXCEPT !.st = "done"]]
                  /\ UNCHANGED fault
       /\ UNCHANGED <<conf, sysfs, qdata, cdev, lq, file, io, dev, nl>>

\* async_io_handler up to the blocking fp_rw: take caio->lock; a cancelled
\* caio is freed (skip_tran) without completing the kiocb; otherwise
\* spin_trylock the direction's lock of the cdev, requeueing the work while
\* it is held.
AsyncIoHandler(k) ==
    LET a == caio[k]
        d == IF a.write THEN H2C ELSE C2H
    IN /\ fault = {}
       /\ a.st = "queued"
       /\ IF a.cancel
          THEN /\ caio' = [caio EXCEPT ![k] = FreeCaio]
               /\ UNCHANGED cdev
          ELSE IF cdev[a.c].lk[d] # NoOwner
          THEN UNCHANGED <<caio, cdev>>
          ELSE /\ cdev' = [cdev EXCEPT ![a.c].lk[d] = <<"aio", k>>]
               /\ caio' = [caio EXCEPT ![k].st = "running"]
       /\ UNCHANGED <<conf, sysfs, qdata, lq, file, io, dev, nl, iocb, fault>>

\* Mutant: the handler frees the caio and unlocks without ki_complete.
AsyncIoCompleteNoKiComplete(k) ==
    LET a == caio[k]
        d == IF a.write THEN H2C ELSE C2H
    IN /\ fault = {}
       /\ a.st = "running"
       /\ caio' = [caio EXCEPT ![k] = FreeCaio]
       /\ cdev' = [cdev EXCEPT ![a.c].lk[d] = NoOwner]
       /\ UNCHANGED <<conf, sysfs, qdata, lq, file, io, dev, nl, iocb, fault>>

\* async_io_handler from fp_rw's return: ki_complete the kiocb, unlock the
\* direction's lock and caio->lock, kmem_cache_free the caio.
AsyncIoComplete(k) ==
    LET a == caio[k]
        d == IF a.write THEN H2C ELSE C2H
    IN /\ fault = {}
       /\ a.st = "running"
       /\ caio' = [caio EXCEPT ![k] = FreeCaio]
       /\ cdev' = [cdev EXCEPT ![a.c].lk[d] = NoOwner]
       /\ CASE dev = "freed"             -> fault' = fault \cup {"xpdev_uaf"} /\ UNCHANGED iocb
            [] iocb[a.f].st # "active"   -> fault' = fault \cup {"iocb_uaf"} /\ UNCHANGED iocb
            [] OTHER -> iocb' = [iocb EXCEPT ![a.f].st = "done"] /\ UNCHANGED fault
       /\ UNCHANGED <<conf, sysfs, qdata, lq, file, io, dev, nl>>

\* io_cancel on an active kiocb calls caio_cancel once, on the caio its
\* private field names; spin_lock(&caio->lock) waits while the handler holds
\* it across fp_rw.
CaioCancel(f) ==
    LET k == iocb[f].priv
    IN /\ fault = {}
       /\ AioCancel
       /\ iocb[f].st = "active"
       /\ ~iocb[f].cancelled
       /\ caio[k].st # "running"
       /\ iocb' = [iocb EXCEPT ![f].cancelled = TRUE]
       /\ caio' = [caio EXCEPT ![k].cancel = TRUE]
       /\ UNCHANGED <<conf, sysfs, qdata, cdev, lq, file, io, dev, nl, fault>>

\* The buffers a shell writes: the numbers 0 .. QMax and a non-number.
QmaxBufs == {<<"num", n>> : n \in 0 .. QMax} \cup {<<"junk", 0>>}
RngszBufs == {<<"num", n>> : n \in 0 .. 1} \cup {<<"junk", 0>>}
WbAccBufs == {<<"num", n>> : n \in WbAccVals} \cup {<<"junk", 0>>}
InitResults == IF InitMayFail THEN BOOLEAN ELSE {TRUE}

\* qdma_set_qmax's checks: no qdev (-EINVAL), the FMAP programmed, the
\* same value, or more than the current qsets_max (-1) refuse the value.
QdmaSetQmaxAllowed(C, qmax) ==
    C.up /\ ~C.init_qrange /\ qmax # C.qsets_max /\ ~(qmax > C.qsets_max)

\* qdma_set_intr_rngsz: stored unless there is no qdev, it is the current
\* value, aggregation is off or the FMAP is programmed.
QdmaSetIntrRngsz(C, rngsz) ==
    IF C.up /\ rngsz # C.intr_rngsz /\ IntrAgg /\ ~C.init_qrange
    THEN [C EXCEPT !.intr_rngsz = rngsz] ELSE C

\* qdma_set_wrb_acc: written to QDMA_REG_GLBL_WB_ACC unconditionally.
QdmaSetWrbAcc(C, wrb_acc) == [C EXCEPT !.wb_acc = wrb_acc]

\* set_qmax: kstrtoint into qmax = 0, its error ignored, then
\* qdma_set_qmax; a value its checks accept is carried to the rebuild.
SysfsSetQmax(buf) ==
    LET qmax == Kstrtoint(buf, 0).v
    IN /\ fault = {}
       /\ Sysfs
       /\ dev = "live"
       /\ sysfs.pc = "idle"
       /\ IF QdmaSetQmaxAllowed(conf, qmax)
          THEN sysfs' = [pc |-> "checked", v |-> qmax]
          ELSE UNCHANGED sysfs
       /\ UNCHANGED <<conf, qdata, cdev, lq, file, io, dev, nl, caio, iocb, fault>>

\* qdma_set_qmax from the checks on: qdma_device_cleanup, store qsets_max,
\* qdma_device_init, and qdma_device_cleanup again if that fails; it
\* returns success either way.  xpdev->qmax and qdata are left as they are.
SysfsSetQmaxRebuild ==
    /\ fault = {}
    /\ sysfs.pc = "checked"
    /\ \E ok \in InitResults :
          LET S1 == [QdmaDeviceCleanup(St) EXCEPT !.conf.qsets_max = sysfs.v]
              S2 == QdmaDeviceInit(S1, ok)
          IN Commit(IF ok THEN S2 ELSE QdmaDeviceCleanup(S2))
    /\ sysfs' = [pc |-> "idle", v |-> 0]
    /\ UNCHANGED <<io, dev, nl, caio, iocb>>

\* set_intr_rngsz: kstrtoint into rngsz = 0, then qdma_set_intr_rngsz.
SysfsSetIntrRngsz(buf) ==
    /\ fault = {}
    /\ Sysfs
    /\ dev = "live"
    /\ conf' = QdmaSetIntrRngsz(conf, Kstrtoint(buf, 0).v)
    /\ UNCHANGED <<sysfs, qdata, cdev, lq, file, io, dev, nl, caio, iocb, fault>>

\* set_wrb_acc: kstrtoint into wrb_acc = 0, then qdma_set_wrb_acc.
SysfsSetWrbAcc(buf) ==
    /\ fault = {}
    /\ Sysfs
    /\ dev = "live"
    /\ conf' = QdmaSetWrbAcc(conf, Kstrtoint(buf, 0).v)
    /\ UNCHANGED <<sysfs, qdata, cdev, lq, file, io, dev, nl, caio, iocb, fault>>

\* A kernel fault ends the behaviour: every action requires fault = {}.
Next ==
    \/ \E req \in NlReqs : XnlRcvCheckXpdev(req)
    \/ XnlQAdd \/ XnlQStart \/ XnlQStop \/ XnlQDel \/ XnlQDump \/ XnlDevInfo
    \/ XnlQDumpDesc \/ XnlQDumpWrb
    \/ ProbeOpen \/ ProbeCdevInit \/ ProbeSysfs
    \/ RemoveOneCleanup \/ RemoveOneFree \/ QdmaResetPrepare
    \/ \E f \in Files : \/ CdevGenOpen(f) \/ CdevGenClose(f) \/ CdevRwEnd(f)
                        \/ \E w \in BOOLEAN : CdevRwBegin(f, w)
                        \/ \E w \in BOOLEAN, n \in 1 .. MaxSegs :
                              \E p \in PinFailAts(n) : CdevAioRw(f, w, n, p)
                        \/ CaioCancel(f)
    \/ \E k \in Caios : AsyncIoHandler(k) \/ AsyncIoComplete(k)
    \/ \E b \in QmaxBufs : SysfsSetQmax(b)
    \/ SysfsSetQmaxRebuild
    \/ \E b \in RngszBufs : SysfsSetIntrRngsz(b)
    \/ \E b \in WbAccBufs : SysfsSetWrbAcc(b)

Spec == Init /\ [][Next]_vars

\* XnlBody can take a step: the device was freed (the body faults at once),
\* or the aio work on the cdevs xnl_q_del destroys has run; the other bodies
\* can always run on the inputs that name no queue.  Stated as a state
\* predicate so that fairness does not make TLC evaluate ENABLED over the
\* recursive command loops.
XnlBodyReady ==
    /\ fault = {}
    /\ nl # NlIdle
    /\ \/ dev = "freed"
       \/ nl.cmd # "del" /\ AioDrained(St)
       \/ nl.cmd = "del" /\ nl.pend # {} /\ AioDrained(St)
       \/ nl.cmd = "del" /\ DelSteps = <<>>
       \/ nl.cmd = "del" /\ nl.pend = {} /\ DelSteps # <<>>
          /\ AioDrained(XpdevQueueDeleteLocked(St, DelSteps[nl.i][2], DelSteps[nl.i][1]).s)

\* The body of the request the netlink thread holds.
XnlBody ==
    \/ XnlQAdd \/ XnlQStart \/ XnlQStop \/ XnlQDel \/ XnlQDump \/ XnlDevInfo
    \/ XnlQDumpDesc \/ XnlQDumpWrb

\* The workqueue runs queued work, fp_rw returns within req->timeout_ms,
\* and a blocking read or write returns.  A requeued handler retries at
\* once, so it gets the direction lock if that is free infinitely often.
\* The netlink thread runs the body of the request it holds; a body waiting
\* in destroy_workqueue goes on once the aio work it waits for has run, so
\* it runs if it can infinitely often.
FairSpec ==
    /\ Spec
    /\ []<>XnlBodyReady => []<><<XnlBody>>_vars
    /\ \A k \in Caios : SF_vars(AsyncIoHandler(k)) /\ WF_vars(AsyncIoComplete(k))
    /\ \A f \in Files : WF_vars(CdevRwEnd(f))
-----------------------------------------------------------------------------
(* Properties                                                              *)

LiveCdevs == {c \in CdevIds : cdev[c].st = "live"}

TypeOK ==
    /\ qdata \in [Entries -> [qhndl : {NoQ} \cup {QHndl(d, q) : d \in Dirs, q \in Qs},
                             xcdev : CdevIds \cup {NULL, Garbage}]]
    /\ \A c \in CdevIds : cdev[c].st \in {"free", "live"} /\ cdev[c].dir_init \in 0 .. 3
    /\ lq \in [Entries -> {"none", "added", "started"}]
    /\ file \in [Files -> CdevIds \cup {Closed, Dangling}]
    /\ \A f \in Files : io[f] = NoIo \/ io[f].d \in Dirs
    /\ dev \in {"absent", "opened", "cb", "live", "cleaned", "freed"} /\ NlDelRunning(nl) \in {NlIdle} \cup NlReqs
    /\ nl.cmd = "del" => /\ nl.i \in (1 .. Len(DelSteps)) \cup {1}
                         /\ nl.pend \in {{}} \cup {{e} : e \in Entries}
    /\ \A k \in Caios : caio[k].st \in {"free", "queued", "running"}
    /\ \A f \in Files : iocb[f].st \in {"none", "active", "done"}
    /\ conf \in [qsets_max : 0 .. QMax, up : BOOLEAN, init_qrange : BOOLEAN,
                 intr_rngsz : 0 .. 1, wb_acc : WbAccVals]
    /\ sysfs.pc \in {"idle", "checked"} /\ sysfs.v \in 0 .. QMax

\* The dir_init bits of a cdev are its reference count: while the device
\* exists, a live cdev has bit d set exactly when some qdata entry of
\* direction d points at it, and every cdev a qdata entry points at is live,
\* belongs to that entry's queue index and holds the entry's qhndl.  The
\* entry xnl_q_del has unlinked under cdev_lock and not yet memset does
\* not count.  A cleared bit that is still referenced means
\* xpdev_queue_delete or xpdev_device_cleanup frees a cdev another entry
\* still uses.  A kernel fault ends the check: the step that oopses
\* leaves the table half updated.
RefsMatchDirInit ==
    fault = {} /\ dev # "freed" =>
    /\ \A e \in Entries \ nl.pend : qdata[e].xcdev \in CdevIds =>
          /\ cdev[qdata[e].xcdev].st = "live"
          /\ cdev[qdata[e].xcdev].minor = e[2]
          /\ cdev[qdata[e].xcdev].qh[e[1]] = qdata[e].qhndl
    /\ \A c \in LiveCdevs, d \in Dirs :
          (cdev[c].dir_init & Bit(d)) # 0 <=>
             \E q \in Qs : qdata[<<d, q>>].xcdev = c /\ <<d, q>> \notin nl.pend

\* "only 1 cdev per queue pair" (xpdev_queue_add): no two live character
\* devices have the same minor, the queue index qdma_cdev_create gets.
OneCdevPerIndex ==
    \A c1, c2 \in LiveCdevs : c1 # c2 => cdev[c1].minor # cdev[c2].minor

\* "allowing only 1 aio request per cdev" (cdev_gen_read_write) and "per
\* dir of cdev" (async_io_handler): of the blocking reads and writes and
\* the aio handlers, at most one per direction of a live cdev is between
\* its trylock and its unlock, and it is the one the direction's lock names.
OneIoPerCdevDir ==
    \A c \in LiveCdevs, d \in Dirs :
        {f \in Files : file[f] = c /\ io[f] # NoIo /\ io[f].d = d}
          \cup {<<"aio", k>> : k \in {k \in Caios : caio[k].st = "running" /\ caio[k].c = c
                                        /\ (IF caio[k].write THEN H2C ELSE C2H) = d}}
            \subseteq {cdev[c].lk[d]}

\* Every kiocb is completed once: async_io_handler never calls ki_complete
\* on a kiocb that was already completed (and freed) by another segment's
\* handler or by the aio core after an error return.
IocbCompletedOnce == "iocb_uaf" \notin fault

\* An aio read or write is eventually completed unless user space cancels
\* it first (or the kernel has faulted), whatever blocking reads, requeues
\* and netlink commands happen meanwhile.
UncancelledAioCompletes ==
    \A f \in Files : (iocb[f].st = "active" /\ ~iocb[f].cancelled)
                        ~> (iocb[f].st # "active" \/ iocb[f].cancelled
                            \/ fault # {})

\* Every netlink request the thread has taken is answered (or the kernel has
\* faulted): xnl_q_del's destroy_workqueue, called under genl_mutex, is not
\* left waiting for aio work on the cdev that blocking reads, writes and
\* the requeueing aio handler of that cdev keep from finishing.
NetlinkCommandReplies == (nl # NlIdle) ~> (nl = NlIdle \/ fault # {})

\* Netlink commands and device cleanup never dereference a NULL, an
\* uninitialized or a freed struct qdma_cdev * taken from qdata.
NoQdataDerefFault ==
    fault \cap {"null_deref", "wild_deref", "cdev_uaf"} = {}

\* A file's read, write or close never touches a kfree'd qdma_cdev.
NoFileUseAfterFree == "file_uaf" \notin fault

\* A netlink command never uses an xpdev that remove_one has freed.
NoXpdevUseAfterFree == "xpdev_uaf" \notin fault

\* Every qhndl the driver keeps in qdata (and hands to qdma_queue_start,
\* qdma_queue_stop and the cdev's read/write) names a queue libqdma still
\* holds: xpdev_queue_delete memsets the entry after qdma_queue_remove, and
\* no queue is freed behind the table's back (qdma_set_qmax's rebuild).
QdataHandlesValid ==
    dev # "freed" => \A e \in Entries : qdata[e].qhndl # NoQ => lq[e] # "none"
-----------------------------------------------------------------------------
(* Refinement: the queue table implements QueuePairsAbs.  A queue is       *)
(* configured while its qdata entry holds a qhndl and xnl_q_del has not   *)
(* yet dropped its bit under cdev_lock (that step unconfigures it); an     *)
(* index has a node while some live cdev has it as minor.                  *)

Configured == {e \in Entries : qdata[e].qhndl # NoQ} \ nl.pend
Nodes == {cdev[c].minor : c \in LiveCdevs}

Abs == INSTANCE QueuePairsAbs
         WITH QIdx <- Qs, Dir <- Dirs, configured <- Configured, nodes <- Nodes,
              oopsed <- fault # {}

\* The netlink commands and device cleanup change the table only by
\* configuring or unconfiguring queues, and keep one character device per
\* queue index with a configured direction, created on the first and
\* destroyed with the last.
AbsSpecRefined == Abs!AbsSpec
=============================================================================
