----------------------------- MODULE Retrieval ------------------------------
(***************************************************************************)
(* The commands of the frontend that hand out what was rendered,           *)
(* render_status and download_file (lib/threads/frontend.js), against the  *)
(* jobs and the collector that work on the same statuses and files.        *)
(*                                                                         *)
(* A download reads the status, looks whether the file it names is there,  *)
(* sends the head of the reply, and then opens the file.  The program      *)
(* counter names what a client's request waits for:                        *)
(*                                                                         *)
(*   "none"  a request         "stat"  the file's metadata                 *)
(*   "poll"  render_status     "open"  the file, after the head was sent   *)
(*   "hget"  download_file                                                 *)
(*                                                                         *)
(* Nobody listens to the errors of the file stream: one that cannot be     *)
(* opened ends the frontend thread, and with it the requests of the other  *)
(* clients.                                                                *)
(***************************************************************************)
EXTENDS FileGC

CONSTANT Clients

VARIABLE conn   \* conn[c]: the client's request and what became of the last one

retrievalVars == <<vars, conn>>

ConnPCs == {"none", "poll", "hget", "stat", "open"}
Replies == {"none", "200", "404", "500", "broken"}

RetrievalTypeOK ==
  /\ TypeOK
  /\ conn \in [Clients -> [pc : ConnPCs, id : Ids, reply : Replies]]

RetrievalInit ==
  /\ Init
  /\ conn \in [Clients -> {[pc |-> "none", id |-> id, reply |-> "none"] : id \in Ids}]

-----------------------------------------------------------------------------

\* The status is finished and names the file.
Named(id) == finished[id] # Absent

Await(c, pc) == conn' = [conn EXCEPT ![c].pc = pc] /\ UNCHANGED vars

Reply(c, code) ==
  conn' = [conn EXCEPT ![c] = [@ EXCEPT !.pc = "none", !.reply = code]] /\ UNCHANGED vars

\* A client asks for the status or the file of a collection.
Ask(c) ==
  /\ conn[c].pc = "none"
  /\ \E id \in Ids, pc \in {"poll", "hget"} :
       conn' = [conn EXCEPT ![c] = [pc |-> pc, id |-> id, reply |-> "none"]]
  /\ UNCHANGED vars

\* The status goes out as it is.  The 404 of a missing one is caught by the
\* handler of redis errors and becomes a 500.  A status that names no file may
\* be missing as well.
HandleRenderStatus(c) ==
  /\ conn[c].pc = "poll"
  /\ Reply(c, "200") \/ (~Named(conn[c].id) /\ Reply(c, "500"))

\* A missing status is a 404, one that names no file a 500.  The state is not asked
\* for: a job that was started again, or reported on late, may still name the file
\* of its earlier run.
HandleDownloadFile(c) ==
  /\ conn[c].pc = "hget"
  /\ \/ Await(c, "stat")
     \/ ~Named(conn[c].id) /\ (Reply(c, "404") \/ Reply(c, "500"))

\* Faulty: a failing stat is not caught.
StatFileUncaught(c) ==
  /\ conn[c].pc = "stat"
  /\ Exists(Artifact(conn[c].id))
  /\ Await(c, "open")

StatFile(c) ==
  /\ conn[c].pc = "stat"
  /\ IF Exists(Artifact(conn[c].id)) THEN Await(c, "open") ELSE Reply(c, "404")

\* Once the file is open it can be read to its end, whatever happens to its name.
OpenFile(c) ==
  /\ conn[c].pc = "open"
  /\ Exists(Artifact(conn[c].id))
  /\ Reply(c, "200")

\* The stream fails and takes the thread down.
StreamFails(c) ==
  /\ conn[c].pc = "open"
  /\ ~Exists(Artifact(conn[c].id))
  /\ conn' = [d \in Clients |-> IF conn[d].pc = "none" THEN conn[d]
                                ELSE [conn[d] EXCEPT !.pc = "none", !.reply = "broken"]]
  /\ UNCHANGED vars

\* Redis does not answer.
HgetFails(c) ==
  /\ conn[c].pc \in {"poll", "hget"}
  /\ Reply(c, "500")

Serve(c) ==
  \/ HandleRenderStatus(c)
  \/ HandleDownloadFile(c)
  \/ StatFile(c)
  \/ OpenFile(c)
  \/ StreamFails(c)

HostActs == Next /\ UNCHANGED conn

RetrievalNext ==
  \/ HostActs
  \/ \E c \in Clients : Ask(c) \/ Serve(c) \/ HgetFails(c)

RetrievalSpec == RetrievalInit /\ [][RetrievalNext]_retrievalVars

\* The fairness of the host, and redis and the file system reply.
RetrievalFairness ==
  /\ WF_retrievalVars(CollectorStep /\ UNCHANGED conn)
  /\ WF_retrievalVars(Tick /\ UNCHANGED conn)
  /\ \A id \in Ids : WF_retrievalVars(JobStep(id) /\ UNCHANGED conn)
  /\ \A c \in Clients : WF_retrievalVars(Serve(c))

RetrievalFairSpec == RetrievalSpec /\ RetrievalFairness

-----------------------------------------------------------------------------

\* What a client has read in the status is not true any more: the finished status
\* is gone, or the file was taken by the collector after it was written anew.
Lost(id) == ~Named(id) \/ id \in clobbered

\* A download whose status named a file fails only if the status is not finished,
\* or went between two steps of the download: the file of a finished status
\* outlives it.  In particular
\* nothing else takes the thread down, and other clients' requests with it.
DownloadsFailOnlyWithStatus ==
  [][\A c \in Clients :
       /\ conn[c].pc = "stat" /\ conn'[c].reply = "404" => Lost(conn[c].id)
       /\ conn[c].pc # "none" /\ conn'[c].reply = "broken" =>
            \E d \in Clients : conn[d].pc = "open" /\ Lost(conn[d].id)]_retrievalVars

\* Every request is answered, or its thread dies.
ClientsAnswered == \A c \in Clients : conn[c].pc # "none" ~> conn[c].pc = "none"

=============================================================================
