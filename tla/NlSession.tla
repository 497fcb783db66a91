------------------------------ MODULE NlSession ------------------------------
(***************************************************************************)
(* One run of dmactl (src/user/cli/main.c, nl_user.c) against the driver's *)
(* generic netlink family (src/drv/nl.c).  The tool is sequential: on each *)
(* socket it sends one request and reads one message, and a doit handler   *)
(* runs inside the tool's sendmsg under genl_mutex, so every message a     *)
(* request causes is queued on the socket before the tool's recv.  A run   *)
(* is therefore a fold over the tool's requests, and each handler is the  *)
(* set of its outcomes: the messages it queues and the value it returns.  *)
(* What the rest of the kernel decides (is the device there, does an      *)
(* allocation or a libqdma call fail, is a queue index valid) is a choice *)
(* among those outcomes.  Message text and attribute values are left out: *)
(* a message is its kind and the request it answers.                      *)
(*                                                                         *)
(* The genetlink core (not in this repository) is the environment: a doit *)
(* returning non-zero makes it queue an NLMSG_ERROR ack after the          *)
(* handler's own messages; dmactl never sets NLM_F_ACK, so a zero return  *)
(* queues nothing more.  Reading a NULL attribute with nla_get_u32 is a   *)
(* kernel oops that kills the sending task inside sendmsg.                *)
(***************************************************************************)
EXTENDS CliParse

ENOMEM == -12
EINVAL == -22
ENOENT == -2
\* A bare "return -1", or a negative result of libqdma.
EFAIL == -1

\* A handler outcome: the kinds of the messages it queued, its return
\* value, whether an allocation failed on its path, and whether it read an
\* absent attribute.
Out(msgs, rc) == [msgs |-> msgs, rc |-> rc, oom |-> FALSE, oops |-> FALSE]
NlOops == [Out(<<>>, 0) EXCEPT !.oops = TRUE]
\* One part of a handler after another; the later part's value is returned.
NlThen(a, b) == [msgs |-> a.msgs \o b.msgs, rc |-> b.rc,
                 oom |-> a.oom \/ b.oom, oops |-> a.oops \/ b.oops]
NlThenSet(A, B) == {NlThen(a, b) : a \in A, b \in B}
NlRet(A, rc) == {[a EXCEPT !.rc = rc] : a \in A}

(***************************************************************************)
(* Reply helpers of nl.c.                                                  *)
(***************************************************************************)
\* xnl_msg_alloc: genlmsg_new failing (or genlmsg_put on a too small skb)
\* returns NULL and nothing is queued; callers return -ENOMEM.
XnlMsgAllocFail == [Out(<<>>, ENOMEM) EXCEPT !.oom = TRUE]

\* xnl_msg_send: genlmsg_unicast's result is only logged; it returns 0.
XnlMsgSend(kind) == Out(<<kind>>, 0)

\* xnl_respond_buffer: a message carrying the buffer as XNL_ATTR_GENMSG in
\* an skb sized for it, so the attribute always fits.
XnlRespondBuffer == {XnlMsgAllocFail, XnlMsgSend("text")}

\* xnl_mem_alloc failing: the kmalloc failure is itself answered ("ERR!
\* xnl OOM") and the caller returns rc.
XnlMemAllocFail(rc) == {[r EXCEPT !.rc = rc, !.oom = TRUE] : r \in XnlRespondBuffer}

\* xnl_rcv_check_xpdev: no DEV_IDX attribute, or no device at that index,
\* is answered with an error text and the caller returns rc.
\* Mutant: the check gives up without answering.
XnlRcvCheckXpdevSilent(rc) == NlRet({Out(<<>>, 0)}, rc)
XnlRcvCheckXpdevOk(A, found) == "DEV_IDX" \in A /\ found
XnlRcvCheckXpdevFail(rc) == NlRet(XnlRespondBuffer, rc)

\* qconf_get: QFLAG must be there and not ask for both ST and MM, and QIDX
\* must be there; otherwise it answers and returns -EINVAL.
QconfGetOk(A, f) == "QFLAG" \in A /\ QconfGet(f).ok /\ "QIDX" \in A
QconfGetFail == NlRet(XnlRespondBuffer, EINVAL)

\* How a command's queue loop ends: every queue done, a queue index that
\* xnl_rcv_check_qidx rejects (it answers first), or a libqdma step failing.
LoopEnds == {"done", "qidx", "fail"}
\* xnl_rcv_check_qidx's own answer, when the loop ended there.
XnlRcvCheckQidx(e) == IF e = "qidx" THEN XnlRespondBuffer ELSE {Out(<<>>, 0)}

\* Attributes a handler reads with nla_get_u32 before any check.
Needs(A, S) == S \subseteq A

(***************************************************************************)
(* The doit handlers: the outcomes of a request with attributes A, queue  *)
(* flags f, a device at DEV_IDX or not.                                    *)
(***************************************************************************)
\* xnl_dev_list: xpdev_list_dump never fails on a non-NULL buffer.
XnlDevListReplies ==
    XnlMemAllocFail(ENOMEM) \cup XnlRespondBuffer

\* xnl_dev_info: qdma_device_get_config may fail; the six u32 attributes
\* always fit the NLMSG_GOODSIZE skb.
XnlDevInfoReplies(A, found) ==
    IF ~XnlRcvCheckXpdevOk(A, found) THEN XnlRcvCheckXpdevFail(EINVAL)
    ELSE {Out(<<>>, EFAIL), XnlMsgAllocFail, XnlMsgSend("info")}

\* xnl_q_list: a failing qdma_queue_list returns without an answer.
XnlQListReplies(A, found) ==
    IF ~XnlRcvCheckXpdevOk(A, found) THEN XnlRcvCheckXpdevFail(EINVAL)
    ELSE XnlMemAllocFail(ENOMEM) \cup {Out(<<>>, EFAIL)} \cup XnlRespondBuffer

\* xnl_q_add: a qconf_get failure frees the buffer and returns; a missing
\* NUM_Q or a failing xpdev_queue_add answers and returns the failure;
\* otherwise it returns the answer's value.
XnlQAddReplies(A, f, found) ==
    IF ~XnlRcvCheckXpdevOk(A, found) THEN XnlRcvCheckXpdevFail(EINVAL)
    ELSE XnlMemAllocFail(ENOMEM) \cup
         IF ~QconfGetOk(A, f) THEN QconfGetFail
         ELSE IF "NUM_Q" \notin A THEN NlRet(XnlRespondBuffer, EFAIL)
         ELSE NlRet(XnlRespondBuffer, EFAIL) \cup XnlRespondBuffer

\* xnl_q_start, xnl_q_stop, xnl_q_del: a missing device returns 0; a
\* qconf_get failure and every loop end go to send_resp and return the
\* answer's value.  xnl_q_start checks NUM_Q with xnl_chk_attr and then
\* reads QFLAG again in xnl_extract_extra_config_attr, every other extra
\* attribute only when present; stop and del return -1 without NUM_Q; del
\* has no xnl_rcv_check_qidx.
XnlQCtlReplies(op, A, f, found) ==
    IF ~XnlRcvCheckXpdevOk(A, found) THEN XnlRcvCheckXpdevFail(0)
    ELSE IF ~QconfGetOk(A, f) THEN NlThenSet(QconfGetFail, XnlRespondBuffer)
    ELSE IF "NUM_Q" \notin A THEN
         (IF op = "Q_START" THEN XnlRespondBuffer ELSE {Out(<<>>, EFAIL)})
    ELSE UNION {NlThenSet(XnlRcvCheckQidx(e), XnlRespondBuffer) :
                e \in IF op = "Q_DEL" THEN LoopEnds \ {"qidx"} ELSE LoopEnds}

\* xnl_q_dump, xnl_q_dump_desc, xnl_q_dump_wrb: desc and wrb read
\* RANGE_START and RANGE_END first; a missing device returns 0, a qconf_get
\* failure returns its value; desc and wrb answer a failed xnl_mem_alloc
\* once more; no NUM_Q returns -1; every loop end goes to send_resp.
XnlQDumpReplies(op, A, f, found) ==
    IF op # "Q_DUMP" /\ ~Needs(A, {"RANGE_START", "RANGE_END"}) THEN {NlOops}
    ELSE IF ~XnlRcvCheckXpdevOk(A, found) THEN XnlRcvCheckXpdevFail(0)
    ELSE IF ~QconfGetOk(A, f) THEN QconfGetFail
    ELSE (IF op = "Q_DUMP" THEN XnlMemAllocFail(ENOMEM)
          ELSE NlRet(NlThenSet(XnlMemAllocFail(0), XnlRespondBuffer), ENOMEM))
         \cup IF "NUM_Q" \notin A THEN {Out(<<>>, EFAIL)}
              ELSE UNION {NlThenSet(XnlRcvCheckQidx(e), XnlRespondBuffer) : e \in LoopEnds}

\* xnl_q_read_pkt: its body is compiled out; it returns -EINVAL.
XnlQReadPktReplies == {Out(<<>>, EINVAL)}

\* xnl_intr_ring_dump: reads START and END once VECTOR_IDX is checked; the
\* reserved vectors and a failing qdma_intr_ring_dump are answered alike.
XnlIntrRingDumpReplies(A, found) ==
    IF ~XnlRcvCheckXpdevOk(A, found) THEN XnlRcvCheckXpdevFail(0)
    ELSE IF "VECTOR_IDX" \notin A THEN {Out(<<>>, EFAIL)}
    ELSE IF ~Needs(A, {"VECTOR_START", "VECTOR_END"}) THEN {NlOops}
    ELSE XnlMemAllocFail(ENOMEM) \cup XnlRespondBuffer

\* xnl_ops: the handler of each command.
XnlDoit(op, A, f, found) ==
    CASE op = "DEV_LIST"       -> XnlDevListReplies
      [] op = "DEV_INFO"       -> XnlDevInfoReplies(A, found)
      [] op = "Q_LIST"         -> XnlQListReplies(A, found)
      [] op = "Q_ADD"          -> XnlQAddReplies(A, f, found)
      [] op \in {"Q_START", "Q_STOP", "Q_DEL"} -> XnlQCtlReplies(op, A, f, found)
      [] op \in {"Q_DUMP", "Q_DESC", "Q_WRB"}  -> XnlQDumpReplies(op, A, f, found)
      [] op = "Q_RX_PKT"       -> XnlQReadPktReplies
      [] op = "INTR_RING_DUMP" -> XnlIntrRingDumpReplies(A, found)

\* The genetlink core: the handler's messages, then an NLMSG_ERROR ack when
\* it returned non-zero.
GenlDelivered(o) == o.msgs \o (IF o.rc # 0 THEN <<"ack">> ELSE <<>>)

(***************************************************************************)
(* dmactl.                                                                  *)
(***************************************************************************)
QAttrs == {"QIDX", "NUM_Q", "QFLAG"}
\* The extra configuration attributes of q start, one per sflags bit.
ExtraAttrs == {"QRNGSZ_IDX", "C2H_BUFSZ_IDX", "WRB_DESC_SIZE",
               "WRB_TIMER_IDX", "WRB_CNTR_IDX", "WRB_TRIG_MODE"}

\* Mutant: q dump desc and wrb share the attributes of q dump.
XnlSendCmdAttrsNoRange(op, sflags) ==
    {"DEV_IDX"} \cup
    CASE op \in {"DEV_LIST", "DEV_INFO", "Q_LIST"} -> {}
      [] op = "Q_START" -> sflags \cup QAttrs
      [] op \in {"INTR_RING_DUMP"} ->
            {"VECTOR_IDX", "VECTOR_START", "VECTOR_END", "RSP_BUF_LEN"}
      [] OTHER -> QAttrs

\* xnl_send_cmd: DEV_IDX always, then the attributes of the command; q
\* start adds the extra attributes its sflags name and falls through to
\* stop, del and dump.
XnlSendCmdAttrs(op, sflags) ==
    {"DEV_IDX"} \cup
    CASE op \in {"DEV_LIST", "DEV_INFO", "Q_LIST"} -> {}
      [] op = "Q_START" -> sflags \cup QAttrs
      [] op \in {"Q_ADD", "Q_STOP", "Q_DEL", "Q_DUMP", "Q_RX_PKT"} -> QAttrs
      [] op \in {"Q_DESC", "Q_WRB"} ->
            QAttrs \cup {"RANGE_START", "RANGE_END", "RSP_BUF_LEN"}
      [] op = "INTR_RING_DUMP" ->
            {"VECTOR_IDX", "VECTOR_START", "VECTOR_END", "RSP_BUF_LEN"}

\* The commands parse_cmd yields; the register commands never reach the
\* kernel (proc_reg_cmd maps the BAR).
RegOps == {"REG_DUMP", "REG_RD", "REG_WRT"}
DmactlOps == {"DEV_LIST", "DEV_INFO", "Q_LIST", "Q_ADD", "Q_START", "Q_STOP",
              "Q_DEL", "Q_DUMP", "Q_DESC", "Q_WRB", "Q_RX_PKT",
              "INTR_RING_DUMP"} \cup RegOps

\* Every outcome of a request for op: any sflags (q start only), any QFLAG
\* bits (q pkt sends C2H), the device present or gone.
ReqOutcomes(op) ==
    UNION {XnlDoit(op, XnlSendCmdAttrs(op, x), f, found) :
           x \in (IF op = "Q_START" THEN SUBSET ExtraAttrs ELSE {{}}),
           f \in (IF op = "Q_RX_PKT" THEN {{"C2H"}} ELSE SUBSET {"ST", "MM", "H2C", "C2H"}),
           found \in BOOLEAN}

\* nlctrl's answer to CTRL_CMD_GETFAMILY: the family, or an error ack when
\* the PF or VF driver has not registered it.
GetFamilyReplies == {Out(<<"family">>, 0), Out(<<>>, ENOENT)}

(* A socket: the messages queued on it (kind and request number), the    *)
(* message the last recv returned, the number of the last request, the   *)
(* tool's rv, and whether the tool is "live", blocked forever in recv     *)
(* ("hang") or killed by an oops in its sendmsg.                          *)
NoMsg == [kind |-> "none", req |-> 0]
Socket0 == [q |-> <<>>, last |-> NoMsg, req |-> 0, rv |-> 0, st |-> "live",
            oom |-> FALSE]

\* xnl_send: request i reaches the handler, whose messages and ack are
\* queued behind what the socket still holds; the reply's nlmsg_seq is
\* never compared with the request's.
XnlSend(s, i, o) ==
    LET d == GenlDelivered(o)
    IN [s EXCEPT !.q = s.q \o [j \in 1 .. Len(d) |-> [kind |-> d[j], req |-> i]],
                 !.req = i, !.oom = s.oom \/ o.oom,
                 !.st = IF o.oops THEN "killed" ELSE s.st]

\* Mutant: an NLMSG_ERROR is taken for an answer.
XnlRecvNoErr(s) ==
    IF s.st # "live" THEN s
    ELSE IF s.q = <<>> THEN [s EXCEPT !.st = "hang"]
    ELSE [s EXCEPT !.q = Tail(s.q), !.last = Head(s.q), !.rv = 0]

\* xnl_recv: one message, -1 for an NLMSG_ERROR; recv on an empty socket
\* sleeps for ever.
XnlRecv(s) ==
    IF s.st # "live" THEN s
    ELSE IF s.q = <<>> THEN [s EXCEPT !.st = "hang"]
    ELSE [s EXCEPT !.q = Tail(s.q), !.last = Head(s.q),
                   !.rv = IF Head(s.q).kind = "ack" THEN EFAIL ELSE 0]

\* A request and its recv, taken only while rv is 0 (main's goto close).
XnlSendRecv(S, i, O) ==
    {IF s.st = "live" /\ s.rv = 0 THEN XnlRecv(XnlSend(s, i, o)) ELSE s :
     s \in S, o \in O}

\* xnl_connect: request 0 is CTRL_CMD_GETFAMILY.
XnlConnect == XnlSendRecv({Socket0}, 0, GetFamilyReplies)

\* recv_attrs: attr_mask is cleared and rebuilt from the attributes of the
\* message just read; the DEV_INFO message carries the PCI address, both
\* BARs and qmax, an answer text only XNL_ATTR_GENMSG.
RecvAttrMask(m) ==
    CASE m.kind = "info" -> {"PCI_BUS", "PCI_DEV", "PCI_FUNC", "DEV_CFG_BAR",
                             "DEV_USR_BAR", "DEV_QSET_MAX"}
      [] m.kind = "text" -> {"GENMSG"}
      [] OTHER -> {}

\* proc_reg_cmd: attr_mask, the one of the last recv (DEV_INFO's), must hold
\* the PCI address and both BARs; the BAR access that follows goes through
\* the PCI resource files, not the socket.
ProcRegCmd(s) ==
    IF s.st = "live" /\ s.rv = 0
    THEN [s EXCEPT !.rv = IF {"PCI_BUS", "PCI_DEV", "PCI_FUNC", "DEV_CFG_BAR",
                              "DEV_USR_BAR"} \subseteq RecvAttrMask(s.last)
                          THEN 0 ELSE EINVAL]
    ELSE s

\* main: dev list asks the PF family, closes, asks the VF family and
\* returns only the VF answer; every other command first sends DEV_INFO on
\* the socket it then uses (a plain "dmactl qdma0" sends DEV_INFO twice).
DmactlRuns(op) ==
    LET info == XnlSendRecv(XnlConnect, 1, ReqOutcomes("DEV_INFO"))
        list == XnlSendRecv(XnlConnect, 1, ReqOutcomes("DEV_LIST"))
    IN CASE op = "DEV_LIST" ->
              {IF pf.st # "live" THEN pf ELSE [vf EXCEPT !.oom = vf.oom \/ pf.oom] :
               pf \in list, vf \in list}
         [] op \in RegOps -> {ProcRegCmd(s) : s \in info}
         [] OTHER -> XnlSendRecv(info, 2, ReqOutcomes(op))

(***************************************************************************)
(* Properties of every dmactl run.                                          *)
(***************************************************************************)
DmactlAllRuns == UNION {DmactlRuns(op) : op \in DmactlOps}

\* dmactl never blocks for ever in xnl_recv unless an allocation in the
\* kernel failed on the way: every handler path that returns 0 has queued
\* an answer (xnl_rcv_check_xpdev, qconf_get and xnl_rcv_check_qidx answer
\* before their callers give up), and every other path gets genetlink's
\* ack.  This is about the error paths of all doit handlers of nl.c
\* together with the one recv per request of xnl_send_cmd.
DmactlNeverHangs ==
    \A r \in DmactlAllRuns : ~r.oom => r.st # "hang"

\* A dmactl run that exits with 0 has read a message caused by its last
\* request, and not an ack.  The tool never compares nlmsg_seq, and a
\* DEV_INFO for a missing device leaves its ack behind the error text; it
\* is xnl_recv's NLMSG_ERROR check on the next request (or proc_reg_cmd's
\* attr_mask check) that keeps a stale message from passing for the
\* command's answer.  This is about main's DEV_INFO-then-command sequence
\* on one socket.
DmactlReadsOwnReply ==
    \A r \in DmactlAllRuns :
        r.st = "live" /\ r.rv = 0 => r.last.req = r.req /\ r.last.kind # "ack"

\* No request dmactl builds makes a handler read an attribute that is not
\* there (nla_get_u32 on NULL kills the tool inside sendmsg): the RANGE
\* attributes of q dump desc and wrb and the START and END attributes of
\* intr ring dump, read without a check, are among those xnl_send_cmd sends
\* for that command.
DmactlNoOops ==
    \A r \in DmactlAllRuns : r.st # "killed"

==============================================================================
