--------------------------- MODULE MC_QueuePairs ---------------------------
EXTENDS QueuePairs, NlSession
CONSTANTS f1
\* No user file open: the netlink and remove paths alone.
MCNoFiles == {}
\* One file: its blocking read or write and its aio handler race for the
\* cdev's direction lock while netlink commands and remove_one run.
MCFiles == {f1}
\* The numeric word the command line tool is given for a value.
CliWord(v) == CHOOSE w \in {"0", "1", "2", "3"} : NumVal[w] = v

\* The q_del request the netlink thread handles, as the command line tool
\* is asked for it: "q del list <q0> <n> dir <h2c|c2h|bi>".
CliDelVector(req) ==
    <<"dmactl", "qdma0", "q", "del", "list", CliWord(req.q0), CliWord(req.n),
      "dir", IF req.flag = "both" THEN "bi" ELSE req.flag>>

\* Every q command vector of the command line tool that it and qconf_get
\* accept reaches the queues its usage text names (CliQueueSelection), and
\* the q_del request in flight in the netlink model is one the tool sends
\* for "q del list ... dir ...": its handler loop visits exactly the queues
\* the tool's vector names.  It ties read_qparm, parse_q_cmd and
\* xnl_send_cmd to the xnl_q_del loop the queue model runs.
CliDelAgrees(r, steps) ==
    /\ r.st = "ok"
    /\ NlQueues(r) = {<<IF steps[k][1] = C2H THEN "c2h" ELSE "h2c", steps[k][2]>>
                      : k \in DOMAIN steps}
CliRequestsReachHandler ==
    /\ CliQueueSelection
    /\ nl.cmd = "del" =>
         CliDelAgrees(ParseCmd(CliDelVector(nl)), NlSteps(nl.q0, nl.n, nl.flag))

(* The dmactl run behind the request the netlink thread holds is one of   *)
(* NlSession's runs; what holds of every such run is checked while the    *)
(* queue model handles the request.                                       *)

\* While the netlink thread handles a request, the dmactl run that sent it
\* cannot block for ever in recv unless a kernel allocation failed
\* (DmactlNeverHangs).
DmactlAnswered == nl # NlIdle => DmactlNeverHangs

\* While the netlink thread handles a request, a dmactl run that exits 0
\* has read a message its own last request caused (DmactlReadsOwnReply).
DmactlExitsOnOwnReply == nl # NlIdle => DmactlReadsOwnReply

\* While the netlink thread handles a request, no request dmactl builds
\* makes a handler read an absent attribute (DmactlNoOops).
DmactlSendsReadAttrs == nl # NlIdle => DmactlNoOops

============================================================================
