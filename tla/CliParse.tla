------------------------------ MODULE CliParse ------------------------------
(***************************************************************************)
(* The user-space command line tool (src/user/cli): parse_cmd turns an     *)
(* argument vector into a struct xcmd_info, xnl_send_cmd turns that into   *)
(* netlink attributes, and the kernel's qconf_get and command loops (nl.c) *)
(* turn the attributes into the queues a command visits.  The tool has no  *)
(* state between runs, so every part is an operator over an argument       *)
(* vector, and what is checked are constant-level properties over every    *)
(* vector built from a bounded set of phrases.                             *)
(*                                                                         *)
(* An argument vector is a sequence of words; C's argv[i] is a[i + 1] and  *)
(* argc is Len(a).  Words are the strings the parser compares with; the    *)
(* numbers the tool reads with strtoul are the keys of NumVal.  Flag bits  *)
(* of qdma_nl.h are names in a set, and so are the QPARM_ bits of sflags. *)
(***************************************************************************)
EXTENDS Integers, Sequences, FiniteSets, TLC
LOCAL INSTANCE SequencesExt

Argv(a, i) == a[i + 1]

\* strtoul(s, &p, 0) with the check that nothing follows the number: the
\* numeric words the vectors use, with their values ("" parses as 0).
NumVal == "0" :> 0 @@ "1" :> 1 @@ "2" :> 2 @@ "3" :> 3 @@ "16" :> 16
          @@ "256" :> 256 @@ "65536" :> 65536 @@ "0x10" :> 16 @@ "" :> 0

\* arg_read_int: a u32 (every value of NumVal fits), or an error for a word
\* that is not a number.
ArgReadInt(s) ==
    IF s \in DOMAIN NumVal THEN [ok |-> TRUE, v |-> NumVal[s]]
    ELSE [ok |-> FALSE, v |-> 0]

\* next_arg_read_int: get_next_arg fails at the end of argv; the word read
\* is at index i + 1, which becomes the caller's i.
NextArgReadInt(a, i) ==
    IF i + 1 >= Len(a) THEN [ok |-> FALSE, v |-> 0, i |-> i]
    ELSE LET r == ArgReadInt(Argv(a, i + 1)) IN [ok |-> r.ok, v |-> r.v, i |-> i + 1]

\* read_range: <x> <y> starting at index i; the index after.  Its check
\* "v2 < v1" compares the two pointers, and &range_end follows &range_start
\* in both structs, so no range is rejected for being empty.
ReadRange(a, i) ==
    LET x == ArgReadInt(Argv(a, i))
        y == NextArgReadInt(a, i)
    IN IF ~x.ok \/ ~y.ok THEN [ok |-> FALSE, i |-> 0, rs |-> 0, re |-> 0]
       ELSE [ok |-> TRUE, i |-> y.i + 1, rs |-> x.v, re |-> y.v]

\* sscanf(s, "%hhu"): the leading decimal digits modulo 256 ("0x10" reads
\* the 0); with no digit the field is left alone.
ScanHhu == ("0x10" :> 0) @@ [s \in DOMAIN NumVal \ {""} |-> NumVal[s] % 256]

(***************************************************************************)
(* read_qparm's word tables.                                               *)
(***************************************************************************)
ModeWord == "mm" :> "MM" @@ "st" :> "ST"
DirWord  == "h2c" :> {"H2C"} @@ "c2h" :> {"C2H"} @@ "bi" :> {"H2C", "C2H"}
TrigWord == "every" :> 1 @@ "usr_cnt" :> 2 @@ "usr" :> 3 @@ "usr_tmr" :> 4
            @@ "dis" :> 0
\* The idx_* options: the sflags bit each sets; the value is stored in an
\* unsigned char field of xcmd_q_parm.
SizeIdxOpt == "idx_bufsz" :> "C2H_BUFSZ_IDX" @@ "idx_ringsz" :> "RNGSZ_IDX"
              @@ "idx_tmr" :> "WRB_TMR_IDX" @@ "idx_cntr" :> "WRB_CNTR_IDX"
SetFlagOpt == "pfetch_en" :> "PFETCH" @@ "bypass_en" :> "BYPASS"
              @@ "c2h_cmpl_intr_en" :> "CMPL_INTR" @@ "c2h_udd_en" :> "CMPL_UDD"
ClearFlagOpt == "dis_wbk" :> "WBK" @@ "dis_wbk_acc" :> "WBK_ACC"
                @@ "dis_wbk_pend_chk" :> "WBK_PEND_CHK"
                @@ "dis_fetch_credit" :> "FETCH_CREDIT" @@ "dis_wrb_stat" :> "WRB_STAT"

XNL_QIDX_INVALID == 65535

\* The zeroed xcmd_q_parm (parse_cmd's memset) after read_qparm sets idx.
QparmInit == [idx |-> XNL_QIDX_INVALID, num_q |-> 0, flags |-> {}, set |-> {},
              szidx |-> [o \in {SizeIdxOpt[w] : w \in DOMAIN SizeIdxOpt} |-> 0],
              wrbsz |-> 0, trig |-> 0, rs |-> 0, re |-> 0]

QErr == [ok |-> FALSE, i |-> 0, qp |-> QparmInit]
QOk(i, qp) == [ok |-> TRUE, i |-> i, qp |-> qp]

\* One turn of read_qparm's while loop at argv[i].
QparmStep(a, i, qp) ==
  LET w == Argv(a, i)
      n == NextArgReadInt(a, i)
      has2 == i + 1 < Len(a)
      w2 == IF has2 THEN Argv(a, i + 1) ELSE ""
  IN CASE w = "idx" ->
            IF ~n.ok THEN QErr
            ELSE QOk(n.i + 1, [qp EXCEPT !.idx = n.v, !.num_q = 1,
                                         !.set = @ \cup {"IDX"}])
       [] w = "list" ->
            LET m == NextArgReadInt(a, n.i)
            IN IF ~n.ok \/ ~m.ok THEN QErr
               ELSE QOk(m.i + 1, [qp EXCEPT !.idx = n.v, !.num_q = m.v,
                                            !.set = @ \cup {"IDX"}])
       [] w = "mode" ->
            IF ~has2 \/ w2 \notin DOMAIN ModeWord THEN QErr
            ELSE QOk(i + 2, [qp EXCEPT !.flags = @ \cup {ModeWord[w2]},
                                       !.set = @ \cup {"MODE"}])
       [] w = "dir" ->
            IF ~has2 \/ w2 \notin DOMAIN DirWord THEN QErr
            ELSE QOk(i + 2, [qp EXCEPT !.flags = @ \cup DirWord[w2],
                                       !.set = @ \cup {"DIR"}])
       [] w \in DOMAIN SizeIdxOpt ->
            IF ~n.ok THEN QErr
            ELSE QOk(n.i + 1, [qp EXCEPT !.szidx[SizeIdxOpt[w]] = n.v % 256,
                                         !.set = @ \cup {SizeIdxOpt[w]}])
       [] w = "trigmode" ->
            IF ~has2 \/ w2 \notin DOMAIN TrigWord THEN QErr
            ELSE QOk(i + 2, [qp EXCEPT !.trig = TrigWord[w2],
                                       !.set = @ \cup {"WRB_TRIG_MODE"}])
       [] w \in {"desc", "wrb"} ->
            LET r == ReadRange(a, i + 1)
            IN IF ~has2 \/ ~r.ok THEN QErr
               ELSE QOk(r.i, [qp EXCEPT !.rs = r.rs, !.re = r.re,
                                        !.set = @ \cup {IF w = "desc" THEN "DESC" ELSE "WRB"}])
       [] w = "wrbsz" ->
            IF ~has2 THEN QErr
            ELSE QOk(i + 2, [qp EXCEPT !.wrbsz = IF w2 \in DOMAIN ScanHhu
                                                 THEN ScanHhu[w2] ELSE @,
                                       !.set = @ \cup {"WRBSZ"}])
       [] w \in DOMAIN SetFlagOpt ->
            QOk(i + 1, [qp EXCEPT !.flags = @ \cup {SetFlagOpt[w]}])
       [] w \in DOMAIN ClearFlagOpt ->
            QOk(i + 1, [qp EXCEPT !.flags = @ \ {ClearFlagOpt[w]}])
       [] OTHER -> QErr

\* read_qparm's while loop from argv[i]: each turn consumes at least one
\* word, so Len(a) turns reach the end or an error.
QparmTurn(a, r) == IF ~r.ok \/ r.i >= Len(a) THEN r ELSE QparmStep(a, r.i, r.qp)
ReadQparmLoop(a, i, qp) ==
    LET turn[k \in 0 .. Len(a)] == IF k = 0 THEN QOk(i, qp) ELSE QparmTurn(a, turn[k - 1])
    IN turn[Len(a)]

\* read_qparm: the loop, the check that idx (the only mandatory parameter of
\* every q command) was given, and the default direction h2c; sflags is
\* stored only on success.
ReadQparmEnd(r) ==
    IF ~r.ok \/ "IDX" \notin r.qp.set THEN QErr
    ELSE IF "DIR" \in r.qp.set THEN r
    ELSE QOk(r.i, [r.qp EXCEPT !.flags = @ \cup {"H2C"}, !.set = @ \cup {"DIR"}])
ReadQparm(a, i) == ReadQparmEnd(ReadQparmLoop(a, i, QparmInit))

(***************************************************************************)
(* parse_q_cmd and validate_qcmd.                                          *)
(***************************************************************************)
QSubOp == "add" :> "Q_ADD" @@ "start" :> "Q_START" @@ "stop" :> "Q_STOP"
          @@ "del" :> "Q_DEL" @@ "dump" :> "Q_DUMP" @@ "pkt" :> "Q_RX_PKT"

\* What q start always enables after read_qparm, so that the dis_* words
\* read before it have no effect.
StartFlags == {"WBK", "WBK_ACC", "WBK_PEND_CHK", "WRB_STAT", "FETCH_CREDIT"}

\* The per-command fix-ups parse_q_cmd applies after read_qparm.  The test
\* flags & (XNL_F_QDIR_C2H | XNL_F_QMODE_ST) == (...) parses as flags & 1,
\* the ST bit, so wrbsz defaults to 3 for every ST queue.
QCmdFixup(op, qp) ==
  CASE op = "Q_ADD" ->
         IF "MODE" \in qp.set THEN qp
         ELSE [qp EXCEPT !.flags = @ \cup {"MM"}, !.set = @ \cup {"MODE"}]
    [] op = "Q_START" ->
         LET q1 == [qp EXCEPT !.flags = @ \cup StartFlags]
         IN IF "ST" \in q1.flags /\ "WRBSZ" \notin q1.set
            THEN [q1 EXCEPT !.wrbsz = 3, !.set = @ \cup {"WRBSZ"}] ELSE q1
    [] OTHER -> qp

\* q dump becomes Q_DESC or Q_WRB when a range was given.
DumpOp(qp) == IF "DESC" \in qp.set THEN "Q_DESC"
              ELSE IF "WRB" \in qp.set THEN "Q_WRB" ELSE "Q_DUMP"

XNL_ST_C2H_WRB_DESC_SIZE_RSVD == 3

\* validate_qcmd: TRUE when the command is accepted.
ValidateQcmd(op, qp) ==
  CASE op = "Q_START" ->
         /\ \A o \in DOMAIN qp.szidx : qp.szidx[o] < 16
         /\ qp.wrbsz <= XNL_ST_C2H_WRB_DESC_SIZE_RSVD
         /\ "CMPL_UDD" \in qp.flags =>
               "WRBSZ" \in qp.set /\ qp.wrbsz # XNL_ST_C2H_WRB_DESC_SIZE_RSVD
    [] op \in {"Q_WRB", "Q_DUMP"} -> ~({"DESC", "WRB"} \subseteq qp.set)
    [] op = "Q_RX_PKT" -> "H2C" \notin qp.flags
    [] op \in {"Q_LIST", "Q_ADD", "Q_STOP", "Q_DEL", "Q_DESC"} -> TRUE
    [] OTHER -> FALSE

\* A parse result: "ok" with the index after the command, "err" for a
\* negative return, "crash" for a strcmp on the NULL argv[argc].
PErr == [st |-> "err", i |-> 0, op |-> "none", qp |-> QparmInit, if_idx |-> 0]
PCrash == [PErr EXCEPT !.st = "crash"]
POk(i, op, qp) == [st |-> "ok", i |-> i, op |-> op, qp |-> qp, if_idx |-> 0]

\* The rest of parse_q_cmd once read_qparm returned r for command op:
\* add's mode check, the fix-ups, dump's desc/wrb choice, validate_qcmd.
ParseQCmdValidate(op, r, qp) ==
    LET op2 == IF op = "Q_DUMP" THEN DumpOp(qp) ELSE op
    IN IF ~r.ok \/ (op = "Q_ADD" /\ {"MM", "ST"} \subseteq r.qp.flags)
               \/ (op = "Q_DUMP" /\ {"DESC", "WRB"} \subseteq qp.set)
               \/ ~ValidateQcmd(op2, qp)
       THEN PErr ELSE POk(r.i, op2, qp)
ParseQCmdEnd(op, r) == ParseQCmdValidate(op, r, QCmdFixup(op, r.qp))

\* parse_q_cmd at argv[i].  An unknown subcommand leaves rv uninitialized:
\* a negative garbage value is returned as it is, any other one is followed
\* by validate_qcmd of op 0 (XNL_CMD_DEV_LIST), which fails; both reject.
ParseQCmd(a, i) ==
  IF i >= Len(a) THEN PCrash
  ELSE LET w == Argv(a, i) IN
    IF w = "list" THEN POk(i + 1, "Q_LIST", QparmInit)
    ELSE IF w \notin DOMAIN QSubOp \/ i + 1 >= Len(a) THEN PErr
    ELSE ParseQCmdEnd(QSubOp[w], ReadQparm(a, i + 1))

(***************************************************************************)
(* parse_ifname, parse_dev_cmd, parse_intr_cmd and parse_cmd.              *)
(***************************************************************************)
\* The interface names the vectors use: length, whether it starts with
\* "qdma", whether "vf" follows, and the rest of the name.
IfName == "qdma0" :> [len |-> 5, qdma |-> TRUE, vf |-> FALSE, rest |-> "0"]
          @@ "qdmavf1" :> [len |-> 7, qdma |-> TRUE, vf |-> TRUE, rest |-> "1"]
          @@ "qdma256" :> [len |-> 7, qdma |-> TRUE, vf |-> FALSE, rest |-> "256"]
          @@ "qdma" :> [len |-> 4, qdma |-> TRUE, vf |-> FALSE, rest |-> ""]
          @@ "qdma0x10" :> [len |-> 8, qdma |-> TRUE, vf |-> FALSE, rest |-> "0x10"]
          @@ "eth0" :> [len |-> 4, qdma |-> FALSE, vf |-> FALSE, rest |-> "0"]
DigitWords == {"", "0", "1", "2", "3", "16", "256", "65536"}

\* parse_ifname: the device index is stored in the unsigned char if_idx.
ParseIfname(name) ==
    LET n == IfName[name]
    IN IF n.len >= 10 \/ ~n.qdma \/ n.rest \notin DigitWords
       THEN [ok |-> FALSE, vf |-> FALSE, if_idx |-> 0]
       ELSE [ok |-> TRUE, vf |-> n.vf, if_idx |-> NumVal[n.rest] % 256]

QDMA_MAX_INT_RING_ENTRIES == 512

\* parse_intr_cmd: "dump [vector <N>] [<start> [<end>]]".  A word that is not
\* "dump" leaves op 0 (XNL_CMD_DEV_LIST); a missing or bad start or end
\* gives the whole ring; the final i++ skips whatever word was last looked at.
ParseIntrCmd(a, i) ==
  IF i >= Len(a) THEN PCrash
  ELSE IF Argv(a, i) # "dump" THEN POk(i + 1, "DEV_LIST", QparmInit)
  ELSE IF i + 1 >= Len(a) THEN PErr
  ELSE LET v  == IF Argv(a, i + 1) = "vector" THEN NextArgReadInt(a, i + 1)
                 ELSE [ok |-> TRUE, v |-> 0, i |-> i + 1]
           s  == NextArgReadInt(a, v.i)
           e  == NextArgReadInt(a, s.i)
       IN IF ~v.ok THEN PErr
          ELSE IF ~s.ok THEN POk(s.i + 1, "INTR_RING_DUMP", QparmInit)
          ELSE POk(e.i + 1, "INTR_RING_DUMP", QparmInit)

\* The config-space register addresses of qdma_config_regs among the values
\* the numeric words yield (CFG_BLOCK_ID 0x00, CFG_SYS_ID 0x10, GLBL2_ID
\* 0x100); is_valid_addr looks an address up in that table for bar 0.
CfgRegAddrs == {0, 16, 256}
IsValidAddr(bar, reg) == reg \in CfgRegAddrs

\* validate_regcmd: reads and writes name bar 0 or 2, and an address of the
\* register table on bar 0.
ValidateRegcmd(op, bar, reg) ==
  CASE op = "REG_DUMP" -> TRUE
    [] op \in {"REG_RD", "REG_WRT"} -> bar \in {0, 2} /\ (bar = 0 => IsValidAddr(bar, reg))
    [] OTHER -> FALSE

\* parse_reg_cmd: "dump [dmap <x> <y>]", "read [bar <N>] <addr>",
\* "write [bar <N>] <addr> <val>"; another word leaves op 0 and fails
\* validation.  The values read are kept only as far as validation uses them.
ParseRegCmd(a, i) ==
  IF i >= Len(a) THEN PCrash
  ELSE LET w == Argv(a, i) IN
  IF w = "dump" THEN
     IF i + 1 < Len(a) /\ Argv(a, i + 1) = "dmap"
     THEN LET r == ReadRange(a, i + 2)
          IN IF i + 2 >= Len(a) \/ ~r.ok THEN PErr ELSE POk(r.i, "REG_DUMP", QparmInit)
     ELSE POk(i + 1, "REG_DUMP", QparmInit)
  ELSE IF w \notin {"read", "write"} \/ i + 1 >= Len(a) THEN PErr
  ELSE LET op  == IF w = "read" THEN "REG_RD" ELSE "REG_WRT"
           hb  == Argv(a, i + 1) = "bar"
           b   == IF hb THEN NextArgReadInt(a, i + 1) ELSE [ok |-> TRUE, v |-> 0, i |-> i]
           j   == b.i + 1
           reg == ArgReadInt(Argv(a, j))
           val == NextArgReadInt(a, j)
           end == IF op = "REG_RD" THEN j + 1 ELSE val.i + 1
       IN IF ~b.ok \/ j >= Len(a) \/ ~reg.ok \/ (op = "REG_WRT" /\ ~val.ok)
             \/ ~ValidateRegcmd(op, b.v, reg.v)
          THEN PErr ELSE POk(end, op, QparmInit)

HelpWords == {"?", "-h", "help", "--help", "-v", "--version"}

\* parse_cmd: the result with the device index of the interface name;
\* "exit" is usage() or the version text, which end the program.
ParseCmdBody(a, ifn) ==
    IF Len(a) = 1 \/ (Len(a) = 2 /\ Argv(a, 1) \in HelpWords)
    THEN [PErr EXCEPT !.st = "exit"]
    ELSE IF Argv(a, 1) = "dev"
    THEN IF Len(a) = 2 THEN PCrash
         ELSE IF Argv(a, 2) = "list" THEN POk(3, "DEV_LIST", QparmInit)
         ELSE POk(2, "DEV_LIST", QparmInit)
    ELSE IF ~ifn.ok THEN PErr
    ELSE IF Len(a) = 2 THEN POk(2, "DEV_INFO", QparmInit)
    ELSE CASE Argv(a, 2) = "reg"     -> ParseRegCmd(a, 3)
           [] Argv(a, 2) = "q"       -> ParseQCmd(a, 3)
           [] Argv(a, 2) = "intring" -> ParseIntrCmd(a, 3)
           [] OTHER                  -> PErr
\* done: a word left over is an error.
ParseCmdEnd(a, ifn, r) ==
    IF r.st = "ok" /\ r.i < Len(a) THEN PErr
    ELSE [r EXCEPT !.if_idx = IF r.st = "ok" THEN ifn.if_idx ELSE 0]
ParseCmd(a) ==
    LET ifn == IF Len(a) > 1 /\ Argv(a, 1) \in DOMAIN IfName
               THEN ParseIfname(Argv(a, 1)) ELSE [ok |-> FALSE, vf |-> FALSE, if_idx |-> 0]
    IN ParseCmdEnd(a, ifn, ParseCmdBody(a, ifn))

(***************************************************************************)
(* The netlink message and the kernel's view of it.                        *)
(***************************************************************************)
\* xnl_send_cmd: the QFLAG attribute of a q command (q pkt always sends
\* XNL_F_QDIR_C2H), next to its QIDX and NUM_Q attributes.
QFlagAttr(r) == IF r.op = "Q_RX_PKT" THEN {"C2H"} ELSE r.qp.flags

\* Mutant: a queue pair is taken for any direction flag.
QconfGetAnyDir(f) ==
    [ok |-> ~({"ST", "MM"} \subseteq f), st |-> "ST" \in f,
     c2h |-> "C2H" \in f, is_qp |-> {"H2C", "C2H"} \cap f # {}]

\* qconf_get: both modes is an error; no mode means MM and no direction H2C.
QconfGet(f) ==
    [ok |-> ~({"ST", "MM"} \subseteq f), st |-> "ST" \in f,
     c2h |-> "C2H" \in f, is_qp |-> {"H2C", "C2H"} \subseteq f]

\* The handlers that keep num_q in an unsigned short.
ShortNumQ == {"Q_START", "Q_STOP", "Q_DEL"}

\* The queues a q command's loop visits, <<direction, index>>: qidx is the
\* handler's unsigned short copy, i runs over qidx .. qidx + num_q - 1 and
\* each index is taken in qconf.c2h's direction, then for a pair in the
\* other.  xnl_q_read_pkt's body is compiled out: it visits no queue.
NlQueues(r) ==
    LET c    == QconfGet(QFlagAttr(r))
        qidx == r.qp.idx % 2^16
        numq == IF r.op \in ShortNumQ THEN r.qp.num_q % 2^16 ELSE r.qp.num_q
        dirs == IF c.is_qp THEN {"h2c", "c2h"} ELSE {IF c.c2h THEN "c2h" ELSE "h2c"}
    IN IF r.op = "Q_RX_PKT" THEN {}
       ELSE {<<d, q>> : d \in dirs, q \in qidx .. qidx + numq - 1}

(***************************************************************************)
(* What the usage text promises, over vectors of phrases.                  *)
(***************************************************************************)
\* The phrases of the checked vectors: the idx, list, dir, mode, desc and
\* wrb forms of the usage text, a flag, and malformed ones (a bad number, a
\* missing number) and an inverted range.
CliPhrases == {<<"idx", "0">>, <<"idx", "1">>, <<"list", "0", "2">>,
               <<"list", "1", "0">>, <<"dir", "h2c">>, <<"dir", "c2h">>,
               <<"dir", "bi">>, <<"mode", "mm">>, <<"mode", "st">>,
               <<"desc", "0", "1">>, <<"wrb", "0", "0">>, <<"pfetch_en">>,
               <<"idx", "x">>, <<"idx">>, <<"desc", "1", "0">>}
\* Three phrases reach every pair of a selection, a direction and a mode or
\* range, and a selection overridden by a later one.
CliMaxPhrases == 3
CliSubs == DOMAIN QSubOp

Malformed == {<<"idx", "x">>, <<"idx">>}
Kinds(P, k) == {j \in 1 .. Len(P) : P[j][1] = k}
SelIdx(P) == Kinds(P, "idx") \cup Kinds(P, "list")

\* The queue indices the last idx or list phrase names.
RefIndices(P) ==
    LET j == CHOOSE j \in SelIdx(P) : \A k \in SelIdx(P) : k <= j
        p == P[j]
    IN IF p[1] = "idx" THEN {NumVal[p[2]]}
       ELSE NumVal[p[2]] .. NumVal[p[2]] + NumVal[p[3]] - 1

\* The directions: those of the dir phrases, h2c when there is none.
RefDirs(sub, P) ==
    IF Kinds(P, "dir") = {} THEN {"h2c"}
    ELSE UNION {{"h2c", "c2h"} \cap {IF x = "H2C" THEN "h2c" ELSE "c2h" : x \in DirWord[P[j][2]]}
                : j \in Kinds(P, "dir")}

\* The queues the handler of sub serves: none for pkt, whose handler is
\* "NOT supported".
RefQueues(sub, P) ==
    IF sub = "pkt" THEN {}
    ELSE {<<d, q>> : d \in RefDirs(sub, P), q \in RefIndices(P)}

RefOp(sub, P) ==
    IF sub # "dump" THEN QSubOp[sub]
    ELSE IF Kinds(P, "desc") # {} THEN "Q_DESC"
    ELSE IF Kinds(P, "wrb") # {} THEN "Q_WRB" ELSE "Q_DUMP"

\* The forms the usage text lists: one idx or list phrase, at most one dir,
\* a mode only for add, a desc or wrb range only for dump.
UsageForm(sub, P) ==
    /\ sub # "pkt"
    /\ \A j \in 1 .. Len(P) : P[j] \notin Malformed /\ P[j][1] # "pfetch_en"
    /\ Cardinality(SelIdx(P)) = 1
    /\ Cardinality(Kinds(P, "dir")) <= 1
    /\ Cardinality(Kinds(P, "mode")) <= (IF sub = "add" THEN 1 ELSE 0)
    /\ Cardinality(Kinds(P, "desc") \cup Kinds(P, "wrb")) <= (IF sub = "dump" THEN 1 ELSE 0)

QVector(sub, P) == <<"dmactl", "qdma0", "q", sub>> \o FlattenSeq(P)

\* A q command the tool accepts and the kernel's qconf_get accepts makes the
\* handler's loop visit exactly the queues the usage text describes (the
\* last idx or list phrase, every direction named, h2c by default) under
\* the netlink command the subcommand names; every form the usage text
\* lists is accepted; and no q vector makes parse_cmd read past argv.  This
\* is about read_qparm's field updates, parse_q_cmd's fix-ups, the flags
\* xnl_send_cmd sends and qconf_get's and the loops' decoding of them.
CliVectorChecked(sub, P, r) ==
    LET kok == r.st = "ok" /\ QconfGet(QFlagAttr(r)).ok
    IN /\ r.st # "crash"
       /\ kok => /\ NlQueues(r) = RefQueues(sub, P)
                 /\ r.op = RefOp(sub, P)
       /\ UsageForm(sub, P) => kok
\* The check above for every vector of up to CliMaxPhrases phrases.
CliQueueSelection ==
    \A sub \in CliSubs, P \in BoundedSeq(CliPhrases, CliMaxPhrases) :
        CliVectorChecked(sub, P, ParseCmd(QVector(sub, P)))

==============================================================================
