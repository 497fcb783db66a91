----------------------------- MODULE C2hEngine -----------------------------
(***************************************************************************)
(* The streaming card-to-host (C2H) completion engine of one queue,        *)
(* src/libqdma/qdma_st_c2h.c, together with the device it talks to.        *)
(*                                                                         *)
(* Software side (one descq, every handler runs under the queue lock, so   *)
(* each handler is one atomic action):                                     *)
(*   descq  the queue indices: pidx, avail, cidx_wrb, cidx_wrb_pend,       *)
(*          color, err, pidx_wrb                                           *)
(*   flq    the free list: pidx_pend, per slot len/offset/mapping (sdesc)  *)
(*          and valid/sop/eop/cidx (sdesc_info), pkt_dlen, udd_cnt         *)
(*   cb     per request: left, sg_idx, sg_offset and its lifecycle         *)
(*   pendList  descq->pend_list, in arrival order                          *)
(*   pidxDb, cidxDb  the last C2H pidx / write-back cidx doorbell values   *)
(* Device side (runs concurrently with every handler):                     *)
(*   hwCidx the next free-list slot the device fills, hwWrbPidx/hwColor    *)
(*   where and with which color it writes the next completion entry, wrb   *)
(*   the completion ring, statusPidx the status pidx it publishes, page    *)
(*   the label of the first stream byte DMA-ed into each slot.             *)
(* Bytes are labelled by their position in the device's stream; rx records *)
(* every byte delivered to a request, so the order of delivery is visible. *)
(***************************************************************************)
EXTENDS Integers, Sequences, SequencesExt, RingIdx

CONSTANTS
  RngSz,        \* descriptor / free-list ring size (conf.rngsz = flq->size)
  RngSzWrb,     \* completion ring size (conf.rngsz_wrb)
  BufSz,        \* bytes per free-list buffer, 1 << flq->pg_shift
  QConfs,       \* queue confs the queue may have been added with
  SubmitReqs,   \* requests queued on pend_list by the submit path
  ReadReqs,     \* requests passed to qdma_queue_packet_read
  ReqSegs,      \* request -> lengths of its destination scatter list
  InitPending,  \* requests already queued when the queue starts
  EntryKinds,   \* completion entries the device may write
  PktLens,      \* packet lengths the device may report
  MaxBudget,    \* largest budget passed to the completion handler
  MaxBytes,     \* bound on the stream bytes the device produces
  MaxEntries,   \* bound on the completion entries the device writes
  CbMayFail,    \* the packet callback may return an error
  AllocMayFail, \* page allocation / DMA mapping may fail during refill
  UIntMod       \* modulus of unsigned int arithmetic used for counters

Reqs == SubmitReqs \cup ReadReqs
Slots == 0 .. RngSz - 1
WrbSlots == 0 .. RngSzWrb - 1
Count(r) == FoldSeq(+, 0, ReqSegs[r])
MinOf(a, b) == IF a < b THEN a ELSE b
\* Mutant: counters kept as signed integers.
UIntNoWrap(x) == x
\* unsigned int arithmetic on left and pkt_dlen.
U32(x) == x % UIntMod

(* The queue conf is fixed when the queue is added: cmpl_udd_en, and      *)
(* whether a packet callback (fp_descq_c2h_packet) is registered.          *)
QConf == [udd_en : BOOLEAN, uld : BOOLEAN]

ASSUME /\ RngSz >= 2 /\ RngSzWrb >= 2
       /\ BufSz \in {1, 2, 4, 8}
       /\ SubmitReqs \cap ReadReqs = {}
       /\ \A r \in Reqs : ReqSegs[r] \in Seq(Nat) /\ Len(ReqSegs[r]) >= 1
       /\ ToSet(InitPending) \subseteq SubmitReqs
       /\ QConfs \subseteq QConf
       /\ EntryKinds \subseteq {"data", "udd", "err", "fmt"}
       /\ MaxBudget \in Nat /\ MaxBytes + 1 < UIntMod

Entry == [color : {0, 1}, err : {0, 1}, fmt : {0, 1}, used : {0, 1}, len : Nat]
\* The coherent completion ring starts zeroed.
ZeroEntry == [color |-> 0, err |-> 0, fmt |-> 0, used |-> 0, len |-> 0]

VARIABLES qconf, descq, flq, cb, pendList, pidxDb, cidxDb,
          hwCidx, hwWrbPidx, hwColor, statusPidx, wrb, page,
          produced, written, taken, rx

swVars == <<descq, flq, cb, pendList, pidxDb, cidxDb>>
hwVars == <<hwCidx, hwWrbPidx, hwColor, statusPidx, wrb, page, produced, written>>
vars == <<qconf, swVars, hwVars, taken, rx>>

\* conf.cmpl_udd_en and "a packet callback is registered" of this queue.
UddEn == qconf.udd_en
Uld == qconf.uld

(***************************************************************************)
(* Initial state: the queue has just been started.  descq_flq_alloc_       *)
(* resource has mapped every slot at full length (kzalloc leaves the       *)
(* sdesc_info flags clear) and set cidx_wrb_pend to 0; the start path      *)
(* hands the device rngsz - 1 descriptors with a pidx doorbell of rngsz-1. *)
(* Software and device both start with color 1 on a zeroed ring.           *)
(***************************************************************************)
InitFlq == [pidx_pend |-> 0,
            len |-> [s \in Slots |-> BufSz], offset |-> [s \in Slots |-> 0],
            mapped |-> [s \in Slots |-> TRUE],
            valid |-> [s \in Slots |-> FALSE], sop |-> [s \in Slots |-> FALSE],
            eop |-> [s \in Slots |-> FALSE], cidx |-> [s \in Slots |-> 0],
            pkt_dlen |-> 0, udd_cnt |-> 0, fill_err |-> 0]

InitDescq == [pidx |-> 0, avail |-> RngSz - 1, cidx_wrb |-> 0, cidx_wrb_pend |-> 0,
              color |-> 1, err |-> 0, pidx_wrb |-> 0]

Init ==
  /\ qconf \in QConfs
  /\ descq = InitDescq
  /\ flq = InitFlq
  /\ cb = [r \in Reqs |->
             IF r \in ToSet(InitPending)
             THEN [left |-> Count(r), sg_idx |-> 0, sg_offset |-> 0, status |-> "pend", res |-> 0]
             ELSE [left |-> 0, sg_idx |-> 0, sg_offset |-> 0, status |-> "idle", res |-> 0]]
  /\ pendList = InitPending
  /\ pidxDb = RngSz - 1
  /\ cidxDb = 0
  /\ hwCidx = 0 /\ hwWrbPidx = 0 /\ hwColor = 1 /\ statusPidx = 0
  /\ wrb = [k \in WrbSlots |-> ZeroEntry]
  /\ page = [s \in Slots |-> 0]
  /\ produced = 0 /\ written = 0 /\ taken = 0
  /\ rx = <<>>

(***************************************************************************)
(* The device.  It fills free-list slots it was given through the pidx     *)
(* doorbell, writes one completion entry per packet when the write-back    *)
(* ring has room according to the cidx doorbell, and later publishes the   *)
(* new producer index in the status descriptor.                            *)
(***************************************************************************)
\* Slots a packet of len bytes occupies; zero length still uses one.
FlNr(len) == IF len = 0 THEN 1 ELSE (len + BufSz - 1) \div BufSz

HwFreeDesc == RingIdxDelta(pidxDb, hwCidx, RngSz)
HwWrbRoom == RingIdxDelta(hwWrbPidx, cidxDb, RngSzWrb) < RngSzWrb - 1

HwWriteEntry(e) ==
  /\ written < MaxEntries
  /\ HwWrbRoom
  /\ wrb' = [wrb EXCEPT ![hwWrbPidx] = [e EXCEPT !.color = hwColor]]
  /\ hwWrbPidx' = RingIdxIncr(hwWrbPidx, 1, RngSzWrb)
  /\ hwColor' = IF hwWrbPidx = RngSzWrb - 1 THEN 1 - hwColor ELSE hwColor
  /\ written' = written + 1

HwPacket(len) ==
  LET n == FlNr(len) IN
  /\ "data" \in EntryKinds
  /\ produced + len <= MaxBytes
  /\ n <= HwFreeDesc
  /\ HwWriteEntry([ZeroEntry EXCEPT !.used = 1, !.len = len])
  /\ page' = [s \in Slots |->
                IF RingIdxDelta(s, hwCidx, RngSz) < n
                THEN produced + RingIdxDelta(s, hwCidx, RngSz) * BufSz
                ELSE page[s]]
  /\ hwCidx' = RingIdxIncr(hwCidx, n, RngSz)
  /\ produced' = produced + len
  /\ UNCHANGED <<qconf, swVars, statusPidx, taken, rx>>

\* A user-defined-data entry that consumed no descriptor.
HwUddOnly ==
  /\ "udd" \in EntryKinds
  /\ HwWriteEntry(ZeroEntry)
  /\ UNCHANGED <<qconf, swVars, statusPidx, page, hwCidx, produced, taken, rx>>

\* An entry with the error bit, or in the unsupported format 1.
HwBadEntry(kind) ==
  /\ kind \in EntryKinds \cap {"err", "fmt"}
  /\ HwWriteEntry(IF kind = "err" THEN [ZeroEntry EXCEPT !.err = 1, !.used = 1]
                                  ELSE [ZeroEntry EXCEPT !.fmt = 1, !.used = 1])
  /\ UNCHANGED <<qconf, swVars, statusPidx, page, hwCidx, produced, taken, rx>>

\* The status write-back follows the entries it covers (posted writes).
HwUpdateStatus ==
  /\ statusPidx # hwWrbPidx
  /\ statusPidx' = hwWrbPidx
  /\ UNCHANGED <<qconf, swVars, hwCidx, hwWrbPidx, hwColor, wrb, page, produced, written, taken, rx>>

(***************************************************************************)
(* Software.  A handler is a function from the software state SW to its    *)
(* next value; the loops of the C code are RECURSIVE operators over a      *)
(* record of their local variables.                                        *)
(***************************************************************************)
SW == [descq |-> descq, flq |-> flq, cb |-> cb, pendList |-> pendList,
       pidxDb |-> pidxDb, cidxDb |-> cidxDb, rx |-> rx]

SetSW(T) ==
  /\ descq' = T.descq /\ flq' = T.flq /\ cb' = T.cb /\ pendList' = T.pendList
  /\ pidxDb' = T.pidxDb /\ cidxDb' = T.cidxDb /\ rx' = T.rx

\* Slot at distance k from idx, and the count slots starting at idx.
SlotAt(idx, k) == RingIdxIncr(idx, k, RngSz)
SlotRun(idx, count) == { SlotAt(idx, k) : k \in 0 .. count - 1 }

(***************************************************************************)
(* qdma_flq_refill(descq, idx, count, recycle): re-arm count slots from    *)
(* idx.  recycle resets len/offset only; otherwise flq_unmap_one +         *)
(* flq_fill_one map a fresh page, and the first failure leaves that slot   *)
(* unmapped and stops the loop (nok = slots that succeeded).  Each         *)
(* re-armed slot has its sdesc_info flags cleared and increments avail.    *)
(***************************************************************************)
\* Mutant: a re-armed slot keeps the length a short packet left in it.
ResetBufKeepLen(F, done, lost) ==
  [F EXCEPT !.offset = [s \in Slots |-> IF s \in done THEN 0 ELSE F.offset[s]],
            !.mapped = [s \in Slots |-> (s \in done \/ F.mapped[s]) /\ s \notin lost]]

\* The recycle branch, or flq_unmap_one + flq_fill_one: full length, offset
\* 0 and a mapped page for the done slots; the failed slot stays unmapped.
ResetBuf(F, done, lost) ==
  [F EXCEPT !.len = [s \in Slots |-> IF s \in done THEN BufSz ELSE F.len[s]],
            !.offset = [s \in Slots |-> IF s \in done THEN 0 ELSE F.offset[s]],
            !.mapped = [s \in Slots |-> (s \in done \/ F.mapped[s]) /\ s \notin lost]]

\* Mutant: sinfo->fbits is not cleared.
ClearInfoNoop(F, done) == F

\* sinfo->fbits = 0: valid, sop and eop of the re-armed slots are cleared.
ClearInfo(F, done) ==
  [F EXCEPT !.valid = [s \in Slots |-> F.valid[s] /\ s \notin done],
            !.sop = [s \in Slots |-> F.sop[s] /\ s \notin done],
            !.eop = [s \in Slots |-> F.eop[s] /\ s \notin done]]

QdmaFlqRefill(S, idx, count, recycle, nok) ==
  LET k == IF recycle THEN count ELSE MinOf(nok, count)
      done == SlotRun(idx, k)
      lost == IF k < count THEN {SlotAt(idx, k)} ELSE {}
      F == ClearInfo(ResetBuf(S.flq, done, lost), done)
  IN [S EXCEPT
        !.flq = [F EXCEPT !.fill_err = IF lost = {} THEN @ ELSE @ + 1],
        !.descq.avail = S.descq.avail + k]

\* Mutant: the doorbell hands the device the slot at pidx_pend itself.
PidxDoorbellNoDecr(pend) == pend

\* The C2H pidx doorbell value: the slot before the next one to refill.
PidxDoorbell(pend) == RingIdxDecr(pend, 1, RngSz)

(***************************************************************************)
(* descq_st_c2h_read: copy filled slots [pidx_pend, descq->pidx) into the  *)
(* request's scatter list, resuming at (sg_idx, sg_offset).  SegLoop is    *)
(* the inner while (flen && tsg) loop, CopyLoop the outer one.  The source *)
(* of each copy is page_address(fsg->pg) advanced by the bytes already     *)
(* copied from this slot in this call (faddr).                             *)
(***************************************************************************)
RECURSIVE SegLoop(_, _, _)
SegLoop(L, S, r) ==
  LET segs == ReqSegs[r] IN
  IF L.flen > 0 /\ L.j < Len(segs)
  THEN LET seg == segs[L.j + 1]
           copy == MinOf(L.flen, seg - L.tsgoff)
           src == page[L.pidx] + L.foff
           off == L.tsgoff + copy
       IN SegLoop([L EXCEPT !.flen = @ - copy, !.foff = @ + copy,
                            !.copied = @ + copy,
                            !.rx = @ \o [x \in 1 .. copy |-> <<r, src + x - 1>>],
                            !.tsgoff = IF off = seg THEN 0 ELSE off,
                            !.j = IF off = seg THEN @ + 1 ELSE @], S, r)
  ELSE L

\* Mutant: the entry is credited when any slot of it is drained.
DrainedCreditNoEop(F, pidx, cwp) == F.cidx[pidx]

\* A drained slot that ends a packet (eop) makes its entry creditable.
DrainedCredit(F, pidx, cwp) == IF F.eop[pidx] THEN F.cidx[pidx] ELSE cwp

RECURSIVE CopyLoop(_, _, _, _)
CopyLoop(L, S, r, fsgcnt) ==
  IF L.i < fsgcnt /\ L.j < Len(ReqSegs[r])
  THEN LET M == SegLoop([L EXCEPT !.foff = 0, !.flen = S.flq.len[L.pidx]], S, r)
       IN IF M.foff = S.flq.len[L.pidx]
          THEN CopyLoop([M EXCEPT !.cwp = DrainedCredit(S.flq, L.pidx, @),
                                  !.pidx = RingIdxIncr(@, 1, RngSz),
                                  !.i = @ + 1, !.foff = 0], S, r, fsgcnt)
          ELSE M
  ELSE L

\* Mutant: a partly drained slot only has its offset advanced.
ShrinkPartialKeepLen(F, pidx, foff) ==
  [F EXCEPT !.offset[pidx] = IF foff # 0 THEN @ + foff ELSE @]

\* if (foff): the partly drained slot keeps only its undrained tail.
ShrinkPartial(F, pidx, foff) ==
  [F EXCEPT !.offset[pidx] = IF foff # 0 THEN @ + foff ELSE @,
            !.len[pidx] = IF foff # 0 THEN @ - foff ELSE @]

\* Mutant: the scatter-list offset is not saved in the request.
SaveCursorNoOffset(c, j, tsgoff, copied) ==
  [c EXCEPT !.sg_idx = j, !.left = U32(@ - copied)]

\* cb->sg_idx, cb->sg_offset and cb->left after the copy.
SaveCursor(c, j, tsgoff, copied) ==
  [c EXCEPT !.sg_idx = j, !.sg_offset = tsgoff, !.left = U32(@ - copied)]

\* Returns [s |-> next software state, rv |-> bytes copied or -1 (-EINVAL)].
DescqStC2hRead(S, r, updatePidx, refill) ==
  LET p0 == S.flq.pidx_pend
      fsgcnt == RingIdxDelta(S.descq.pidx, p0, RngSz)
      c == S.cb[r]
      L == CopyLoop([i |-> 0, j |-> c.sg_idx, tsgoff |-> c.sg_offset, pidx |-> p0,
                     foff |-> 0, flen |-> 0, copied |-> 0,
                     cwp |-> S.descq.cidx_wrb_pend, rx |-> S.rx], S, r, fsgcnt)
      R == IF refill /\ L.i > 0 THEN QdmaFlqRefill(S, p0, L.i, TRUE, L.i) ELSE S
      pend == RingIdxIncr(p0, L.i, RngSz)
      F == [ShrinkPartial([R.flq EXCEPT !.pidx_pend = pend], L.pidx, L.foff)
              EXCEPT !.pkt_dlen = U32(@ - L.copied)]
      T == [R EXCEPT !.flq = F,
                     !.descq.cidx_wrb_pend = L.cwp,
                     !.pidxDb = IF updatePidx THEN PidxDoorbell(pend) ELSE @,
                     !.cidxDb = IF updatePidx THEN L.cwp ELSE @,
                     !.cb[r] = SaveCursor(@, L.j, L.tsgoff, L.copied),
                     !.rx = L.rx]
  IN IF fsgcnt = 0 THEN [s |-> S, rv |-> 0]
     ELSE IF c.sg_idx # 0 /\ c.sg_idx >= Len(ReqSegs[r]) THEN [s |-> S, rv |-> -1]
     ELSE [s |-> T, rv |-> L.copied]

\* qdma_sgt_req_done (outside src/, spec section 6): the request leaves
\* pend_list and its waiter is completed with rv.
QdmaSgtReqDone(S, r, rv) ==
  [S EXCEPT !.pendList = Remove(@, r),
            !.cb[r] = [@ EXCEPT !.status = "done", !.res = rv]]

(***************************************************************************)
(* qdma_c2h_packets_proc_dflt: serve pend_list in order; a zero-length     *)
(* request is completed and ends the pass; a read error completes the      *)
(* request with the error; an unsatisfied request ends the pass.           *)
(***************************************************************************)
\* Mutant: the pass stops after completing a satisfied request.
QdmaC2hPacketsProcDfltOnce(S) ==
  IF S.pendList = <<>> THEN S
  ELSE LET r == Head(S.pendList) IN
       IF S.cb[r].left = 0 THEN QdmaSgtReqDone(S, r, 0)
       ELSE LET R == DescqStC2hRead(S, r, FALSE, FALSE) IN
            IF R.rv < 0 THEN QdmaSgtReqDone(R.s, r, R.rv)
            ELSE IF R.s.cb[r].left = 0 THEN QdmaSgtReqDone(R.s, r, 0)
                 ELSE R.s

RECURSIVE QdmaC2hPacketsProcDflt(_)
QdmaC2hPacketsProcDflt(S) ==
  IF S.pendList = <<>> THEN S
  ELSE LET r == Head(S.pendList) IN
       IF S.cb[r].left = 0 THEN QdmaSgtReqDone(S, r, 0)
       ELSE LET R == DescqStC2hRead(S, r, FALSE, FALSE) IN
            IF R.rv < 0 THEN QdmaSgtReqDone(R.s, r, R.rv)
            ELSE IF R.s.cb[r].left = 0
                 THEN QdmaC2hPacketsProcDflt(QdmaSgtReqDone(R.s, r, 0))
                 ELSE R.s

(***************************************************************************)
(* Completion entries.                                                     *)
(***************************************************************************)
\* Mutant: the expected color is not flipped on wrap.
WrbNextNoFlip(d) ==
  [d EXCEPT !.cidx_wrb = IF d.cidx_wrb + 1 = RngSzWrb THEN 0 ELSE d.cidx_wrb + 1]

\* wrb_next: advance cidx_wrb, flipping the expected color on wrap.
WrbNext(d) ==
  [d EXCEPT !.cidx_wrb = IF d.cidx_wrb + 1 = RngSzWrb THEN 0 ELSE d.cidx_wrb + 1,
            !.color = IF d.cidx_wrb + 1 = RngSzWrb THEN 1 - d.color ELSE d.color]

IsNewCmplEntry(d, e) == e.color = d.color

\* parse_cmpl_entry rejects (and halts the queue on) these entries.
CmplRejected(e) == e.err = 1 \/ e.fmt = 1 \/ (e.used = 0 /\ ~UddEn)

(***************************************************************************)
(* rcv_pkt: a data entry of len bytes starting at slot pidx.  avail and    *)
(* the last slot's length are updated before the callback is called.  With *)
(* a callback (cbOk = its outcome) the entry is credited and pidx_pend set *)
(* to the last slot; without one the slots are marked valid with sop/eop   *)
(* and the completion index to credit once drained.                        *)
(***************************************************************************)
RcvPkt(S, pidx, len, cbOk) ==
  LET n == FlNr(len)
      last == SlotAt(pidx, n - 1)
      run == SlotRun(pidx, n)
      F0 == [S.flq EXCEPT !.len[last] = IF len = 0 THEN 0
                                        ELSE IF len % BufSz # 0 THEN len % BufSz ELSE @]
      S0 == [S EXCEPT !.descq.avail = @ - n, !.flq = F0]
      cidxNext == RingIdxIncr(S.descq.cidx_wrb, 1, RngSzWrb)
  IN IF Uld
     THEN IF cbOk THEN [S0 EXCEPT !.descq.cidx_wrb_pend = S.descq.cidx_wrb,
                                  !.flq.pidx_pend = last]
          ELSE S0
     ELSE [S0 EXCEPT !.flq = [F0 EXCEPT
             !.valid = [s \in Slots |-> F0.valid[s] \/ s \in run],
             !.cidx = [s \in Slots |-> IF s \in run THEN cidxNext ELSE F0.cidx[s]],
             !.sop[pidx] = TRUE, !.eop[last] = TRUE,
             !.pkt_dlen = U32(@ + len),
             !.udd_cnt = IF UddEn THEN @ + 1 ELSE @]]

\* cmpl.pidx after rcv_pkt: the slot after the packet.
RcvPktNextPidx(pidx, len) == SlotAt(pidx, FlNr(len))

\* rcv_udd_only: handed to the callback, or counted.
RcvUddOnly(S) == IF Uld THEN S ELSE [S EXCEPT !.flq.udd_cnt = @ + 1]

(***************************************************************************)
(* The while (proc_cnt < budget) loop of descq_process_completion_st_c2h.  *)
(* C.stop = "err" when parse_cmpl_entry rejected an entry (the handler     *)
(* returns at once).  fail = number of the entry whose callback fails.     *)
(***************************************************************************)
RECURSIVE CmplLoop(_, _, _)
CmplLoop(C, budget, fail) ==
  IF C.cnt >= budget THEN C
  ELSE LET d == C.s.descq
           e == wrb[d.cidx_wrb]
           ok == C.cnt + 1 # fail
       IN IF CmplRejected(e) THEN [C EXCEPT !.s.descq.err = 1, !.stop = "err"]
          ELSE IF ~IsNewCmplEntry(d, e) THEN C
          ELSE IF e.used = 1
          THEN LET T == RcvPkt(C.s, C.pidx, e.len, ok) IN
               IF Uld /\ ~ok THEN [C EXCEPT !.s = T]
               ELSE CmplLoop([C EXCEPT !.s = [T EXCEPT !.descq = WrbNext(@)],
                                       !.pidx = RcvPktNextPidx(C.pidx, e.len),
                                       !.cnt = @ + 1], budget, fail)
          ELSE IF Uld /\ ~ok THEN C
          ELSE CmplLoop([C EXCEPT !.s = [RcvUddOnly(C.s) EXCEPT !.descq = WrbNext(@)],
                                  !.cnt = @ + 1], budget, fail)

\* If pidx_pend moved (from p0): refill the slots it moved over (recycle
\* unless a callback owns the pages) and ring the pidx doorbell; then ring
\* the cidx doorbell with cidx_wrb_pend.
RefillAndRing(S, p0, nok) ==
  LET S3 == IF S.flq.pidx_pend # p0
            THEN [QdmaFlqRefill(S, p0, RingIdxDelta(S.flq.pidx_pend, p0, RngSz),
                                ~Uld, nok)
                    EXCEPT !.pidxDb = PidxDoorbell(S.flq.pidx_pend)]
            ELSE S
  IN [S3 EXCEPT !.cidxDb = S3.descq.cidx_wrb_pend]

\* Mutant: the default drain of pend_list is not called after the loop.
CmplAfterLoopNoDrain(C, p0, nok) ==
  RefillAndRing([C.s EXCEPT !.descq.pidx_wrb = statusPidx, !.descq.pidx = C.pidx], p0, nok)

\* After a loop that processed entries: publish pidx and pidx_wrb, drain
\* into pend_list (no callback), then refill and ring the doorbells.
CmplAfterLoop(C, p0, nok) ==
  LET S1 == [C.s EXCEPT !.descq.pidx_wrb = statusPidx, !.descq.pidx = C.pidx]
  IN RefillAndRing(IF Uld THEN S1 ELSE QdmaC2hPacketsProcDflt(S1), p0, nok)

(***************************************************************************)
(* descq_process_completion_st_c2h(descq, budget), run by the poll thread  *)
(* or the interrupt work under the queue lock.  fail and nok pick the      *)
(* callback and allocation outcomes.  work_list is never filled by code    *)
(* in src/, so only pend_list is tested.                                   *)
(***************************************************************************)
\* The end of the handler for the loop's outcome C: an error entry returns
\* at once; otherwise the if (proc_cnt) block runs.
CmplFinish(C, nok) ==
  /\ SetSW(IF C.stop = "err" \/ C.cnt = 0 THEN C.s
           ELSE CmplAfterLoop(C, flq.pidx_pend, nok))
  /\ taken' = taken + C.cnt
  /\ UNCHANGED <<qconf, hwVars>>

ProcessCompletion(budget, fail, nok) ==
  LET pend == RingIdxDelta(statusPidx, descq.cidx_wrb, RngSzWrb)
      bud == IF budget = 0 \/ budget > pend THEN pend ELSE budget
  IN /\ descq.err = 0
     /\ Uld \/ pendList # <<>>
     /\ pend > 0
     /\ CmplFinish(CmplLoop([s |-> SW, pidx |-> descq.pidx, cnt |-> 0, stop |-> "none"],
                            bud, fail), nok)

(***************************************************************************)
(* qdma_queue_packet_read: the caller's request block is zeroed (left = 0) *)
(* and descq_st_c2h_read runs with update_pidx and refill set; the call    *)
(* returns req->count - cb->left.                                          *)
(***************************************************************************)
QdmaQueuePacketRead(r) ==
  LET S0 == [SW EXCEPT !.cb[r] = [left |-> 0, sg_idx |-> 0, sg_offset |-> 0,
                                  status |-> "idle", res |-> 0]]
      R == DescqStC2hRead(S0, r, TRUE, TRUE)
  IN /\ r \in ReadReqs
     /\ cb[r].status = "idle"
     /\ SetSW([R.s EXCEPT !.cb[r].status = "done",
                          !.cb[r].res = U32(Count(r) - R.s.cb[r].left)])
     /\ UNCHANGED <<qconf, hwVars, taken>>

\* qdma_request_submit (outside src/, spec section 6): the request is
\* queued at the tail of pend_list with left = its byte count.
SubmitRead(r) ==
  /\ r \in SubmitReqs
  /\ cb[r].status = "idle"
  /\ cb' = [cb EXCEPT ![r] = [left |-> Count(r), sg_idx |-> 0, sg_offset |-> 0,
                              status |-> "pend", res |-> 0]]
  /\ pendList' = Append(pendList, r)
  /\ UNCHANGED <<qconf, descq, flq, pidxDb, cidxDb, hwVars, taken, rx>>

FailChoices == IF Uld /\ CbMayFail THEN 0 .. MaxEntries ELSE {0}
NokChoices == IF Uld /\ AllocMayFail THEN 0 .. RngSz - 1 ELSE {RngSz}

Poll == \E b \in 0 .. MaxBudget, f \in FailChoices, n \in NokChoices :
          ProcessCompletion(b, f, n)

Next ==
  \/ \E len \in PktLens : HwPacket(len)
  \/ HwUddOnly
  \/ \E k \in {"err", "fmt"} : HwBadEntry(k)
  \/ HwUpdateStatus
  \/ Poll
  \/ \E r \in Reqs : SubmitRead(r)
  \/ \E r \in Reqs : QdmaQueuePacketRead(r)

Spec == Init /\ [][Next]_vars

(* Poll can take a step exactly when the queue is not halted, has someone *)
(* to serve and the status write-back reports unconsumed entries: the     *)
(* first of them is then either consumed (taken grows) or rejected (err   *)
(* is set).  Stated as a state predicate so that weak fairness of Poll    *)
(* does not make TLC evaluate ENABLED over the recursive completion loop. *)
PollEnabled ==
  /\ descq.err = 0
  /\ Uld \/ pendList # <<>>
  /\ RingIdxDelta(statusPidx, descq.cidx_wrb, RngSzWrb) > 0

\* The poll thread keeps running (poll_mode_en defaults to 1) and the
\* device eventually writes back the status of entries it wrote.
FairSpec ==
  /\ Spec
  /\ <>[]PollEnabled => []<><<Poll>>_vars
  /\ WF_vars(HwUpdateStatus)

(***************************************************************************)
(* Properties.                                                             *)
(***************************************************************************)
TypeOK ==
  /\ qconf \in QConf
  /\ descq \in [pidx : Slots, avail : Int, cidx_wrb : WrbSlots,
                cidx_wrb_pend : WrbSlots, color : {0, 1}, err : {0, 1},
                pidx_wrb : WrbSlots]
  /\ flq.pidx_pend \in Slots /\ flq.pkt_dlen \in 0 .. UIntMod - 1
  /\ flq.len \in [Slots -> 0 .. BufSz] /\ flq.offset \in [Slots -> 0 .. BufSz]
  /\ cb \in [Reqs -> [left : 0 .. UIntMod - 1, sg_idx : Nat, sg_offset : Nat,
                      status : {"idle", "pend", "done"}, res : Int]]
  /\ pendList \in Seq(SubmitReqs)
  /\ pidxDb \in Slots /\ cidxDb \in WrbSlots
  /\ wrb \in [WrbSlots -> Entry]
  /\ rx \in Seq(Reqs \X Nat)

\* Bytes handed to request r so far, in delivery order.
RxOf(r) == SelectSeq(rx, LAMBDA x : x[1] = r)
\* Slots software owns: filled by the device, reported, not yet drained.
SwOwned == RingSpan(flq.pidx_pend, descq.pidx, RngSz)
\* Slots the device may still fill: handed over by the pidx doorbell.
HwOwned == RingSpan(hwCidx, pidxDb, RngSz)
Live == descq.err = 0

(* The valid flag of sdesc_info marks exactly the reported, undrained      *)
(* slots: rcv_pkt never marks a slot that is still valid (its WARN_ON) and *)
(* refill clears every slot the drain released.                            *)
ValidMarksUndrained ==
  ~Uld /\ Live => \A s \in Slots : flq.valid[s] <=> s \in SwOwned

(* Every slot the device may DMA into is mapped, at full length, offset 0  *)
(* and not valid: the refills after rcv_pkt / descq_st_c2h_read re-arm all *)
(* released slots before the pidx doorbell hands them back.                *)
HwSlotsArmed ==
  \A s \in HwOwned : flq.mapped[s] /\ flq.len[s] = BufSz /\ flq.offset[s] = 0
                     /\ ~flq.valid[s]

(* descq->avail counts the descriptors handed to the device whose          *)
(* completion the handler has not yet processed.                           *)
AvailMatchesRing == Live => descq.avail = RingIdxDelta(pidxDb, descq.pidx, RngSz)

(* The completion ring never holds more unconsumed entries than it has     *)
(* slots, and the color bit at cidx_wrb says "new" exactly when the device *)
(* has written an entry the handler has not consumed (wrb_next's color     *)
(* flip and the cidx credit together keep the generations apart).          *)
CmplRingSound ==
  /\ written - taken <= RngSzWrb - 1
  /\ (written > taken) <=> IsNewCmplEntry(descq, wrb[descq.cidx_wrb])

(* flq->pkt_dlen equals the bytes still held in software-owned slots,      *)
(* after any number of partial drains that shrank a slot.                  *)
DlenMatchesSlots ==
  ~Uld /\ Live => flq.pkt_dlen = SumFunctionOnSet(flq.len, SwOwned)

(* A completion entry is credited to the device (cidx doorbell) only after *)
(* every slot of its packet has been drained into requests.                *)
CreditAfterDrain ==
  ~Uld /\ Live =>
    \A s \in SwOwned :
      RingIdxDelta(flq.cidx[s], cidxDb, RngSzWrb)
        \in 1 .. RingIdxDelta(descq.cidx_wrb, cidxDb, RngSzWrb)

(* A queued request has received exactly count - left bytes, left never    *)
(* wraps, and its (sg_idx, sg_offset) cursor sits exactly that far into    *)
(* its scatter list, however many drains it took.                          *)
RequestProgress ==
  \A r \in SubmitReqs : cb[r].status # "idle" =>
    /\ cb[r].left <= Count(r)
    /\ Len(RxOf(r)) = Count(r) - cb[r].left
    /\ FoldSeq(+, 0, SubSeq(ReqSegs[r], 1, cb[r].sg_idx)) + cb[r].sg_offset
         = Count(r) - cb[r].left

(* A request at the head of pend_list while the device has written       *)
(* completion entries the handler has not consumed is eventually completed *)
(* or handed every byte produced: consuming entries runs the default drain *)
(* of pend_list, which resumes the request and also takes any tail a       *)
(* previous request left in the slots.                                     *)
ReportedDataDrained ==
  \A r \in SubmitReqs :
    (~Uld /\ pendList # <<>> /\ Head(pendList) = r /\ written > taken)
      ~> (cb[r].status = "done" \/ Len(rx) = produced \/ descq.err = 1)

(* Requests receive the device's stream in order, each byte once.          *)
StreamInOrder == \A k \in 1 .. Len(rx) : rx[k][2] = k - 1

(* submit_read "blocks until satisfied" (spec section 6): a waiting        *)
(* request is not left waiting while the device has produced bytes that no *)
(* request received, unless the queue halted.                              *)
WaitingRequestGetsData ==
  (pendList # <<>> /\ produced > Len(rx))
    ~> (pendList = <<>> \/ produced = Len(rx) \/ descq.err = 1)

=============================================================================
