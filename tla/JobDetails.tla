----------------------------- MODULE JobDetails -----------------------------
(***************************************************************************)
(* The status object of a render job (lib/JobDetails.js), the value kept   *)
(* in the redis hash `status_set_name' under the job's collection id.      *)
(*                                                                         *)
(* Kept of its fields: the id, the writer, the state, the metabook, the    *)
(* host that processes it, where the rendered file is and the time of the  *)
(* last update.  A metabook is "full" (it has the title or the items that  *)
(* the backend looks at when it finishes) or "empty" ({} or '').  `loc' is *)
(* the host on whose disk rendered_file_loc names a file: the file's name  *)
(* itself is a function of the collection id.  The progress text, the MIME *)
(* type and the suggested file name are left out.                          *)
(***************************************************************************)
EXTENDS Naturals

CONSTANTS CollectionIds,  \* the SHA-1 ids of the books that are asked for
          Writers,        \* the writers configured with a program to run
          Hosts,          \* the machines that run backend threads
          Null            \* JavaScript's null

\* The id and the writer of details constructed from nothing: new JobDetails(0, '', '').
PhantomId == "0"
NoWriter == ""

ASSUME JobDetailsAssumption ==
  /\ PhantomId \notin CollectionIds
  /\ NoWriter \notin Writers
  /\ Null \notin CollectionIds \union {PhantomId}
  /\ Null \notin Hosts

\* The fields of the hash.
Keys == CollectionIds \union {PhantomId}

States == {"pending", "progress", "finished", "failed"}
Terminal == {"finished", "failed"}
Books == {"full", "empty"}

Details == [id : Keys, writer : Writers \union {NoWriter}, state : States,
            book : Books, host : Hosts \union {Null}, loc : Hosts \union {Null},
            timestamp : Nat]

ASSUME NullAssumption == Null \notin Details

NewJobDetails(id, book, writer, time) ==
  [id |-> id, writer |-> writer, state |-> "pending", book |-> book,
   host |-> Null, loc |-> Null, timestamp |-> time]

\* Bundling and rendering report into the same state.
UpdateProgress(jd, time) ==
  [jd EXCEPT !.state = "progress", !.timestamp = time]

\* Faulty: a state that nobody else knows.
UpdateErrorMisnamed(jd, time) ==
  [jd EXCEPT !.state = "error", !.timestamp = time]

UpdateError(jd, time) ==
  [jd EXCEPT !.state = "failed", !.timestamp = time]

UpdateFinished(jd, host, time) ==
  [jd EXCEPT !.state = "finished", !.timestamp = time, !.loc = host]

\* JSON.parse(null) is null, which has no fields to copy over the defaults.
FromJson(json, time) ==
  IF json = Null THEN NewJobDetails(PhantomId, "empty", NoWriter, time) ELSE json

=============================================================================
