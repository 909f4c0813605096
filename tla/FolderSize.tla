----------------------------- MODULE FolderSize -----------------------------
(***************************************************************************)
(* The sizes of directories that health checks report, and their cache     *)
(* (handleHealthCheck and getFolderSize of lib/threads/frontend.js).       *)
(*                                                                         *)
(* A tree of two levels stands for the output directory: "root" and in it  *)
(* "sub", which holds the files.  Sizes are not numbers here: the size of  *)
(* "sub" is the time when its contents were read, and so is the size of    *)
(* "root" that is made of it.  getFolderSize stores the promise of a size  *)
(* in the cache before it reads anything; a promise for "root" is an       *)
(* element of Promises, which is free again when nobody holds it.          *)
(*                                                                         *)
(* lstat is one step and what follows it another: the mtime may be out of  *)
(* date when it is compared.                                               *)
(***************************************************************************)
EXTENDS Integers, FiniteSets

CONSTANTS Requests,   \* health checks that run at the same time
          Promises,
          Nobody,     \* no promise
          Nursery,    \* CACHE_NURSERY
          Expiry,     \* CACHE_EXPIRY
          Jitter,     \* CACHE_JITTER
          MaxTime     \* bound of the model: the clock stops here

ASSUME FolderSizeAssumption ==
  /\ {Nursery, Expiry, Jitter, MaxTime} \subseteq Nat
  /\ IsFiniteSet(Requests) /\ IsFiniteSet(Promises)
  /\ Cardinality(Promises) > Cardinality(Requests)
  /\ Nobody \notin Promises

Dirs == {"root", "sub"}
Absent == -1
Pending == -1

Times == 0..MaxTime

VARIABLES now,
          mtime,      \* of each directory; "sub" may be absent
          cache,      \* cache[dir]: the entry of the directory
          promise,    \* promise[p]: the computation of a size of "root"
          req         \* req[q]: the health check in slot q

vars == <<now, mtime, cache, promise, req>>

NoEntry == [mtime |-> Absent, age |-> 0, size |-> Nobody]
Entry(time, age, size) == [mtime |-> time, age |-> age, size |-> size]

Promised == {cache["root"].size} \cup {req[q].held : q \in Requests}

\* The promises that the cache or a request holds.
Held == Promises \cap Promised

NoPromise == [pc |-> "free", seen |-> 0, size |-> Pending]
IdleRequest == [pc |-> "idle", cleared |-> 0, seen |-> 0, checked |-> 0,
                held |-> Nobody]

Ages == (0 - Jitter)..MaxTime

ClockOK ==
  /\ now \in Times
  /\ mtime \in [Dirs -> Times \cup {Absent}]
  /\ mtime["root"] # Absent

CacheOK ==
  /\ DOMAIN cache = Dirs
  /\ cache["sub"] \in [mtime : Times, age : Ages, size : Times] \cup {NoEntry}
  /\ cache["root"] \in [mtime : Times, age : Ages, size : Promises] \cup {NoEntry}

\* A promise is free as long as nobody holds it.
PromisesOK ==
  /\ promise \in [Promises -> [pc : {"free", "lstat", "check", "done"},
                               seen : Times, size : Times \cup {Pending}]]
  /\ \A p \in Promises : promise[p].pc # "free" <=> p \in Held

\* A request waits exactly when it holds a promise.
RequestsOK ==
  /\ req \in [Requests -> [pc : {"idle", "lstat", "check", "wait"}, cleared : Times,
                           seen : Times, checked : Times, held : Promises \cup {Nobody}]]
  /\ \A q \in Requests : req[q].pc = "wait" <=> req[q].held # Nobody

TypeOK == ClockOK /\ CacheOK /\ PromisesOK /\ RequestsOK

Init ==
  /\ now = 0
  /\ mtime = [d \in Dirs |-> 0]
  /\ cache = [d \in Dirs |-> NoEntry]
  /\ promise = [p \in Promises |-> NoPromise]
  /\ req = [q \in Requests |-> IdleRequest]

-----------------------------------------------------------------------------

\* Faulty: the mtime does not count, only the age of the entry.
IsFreshByAge(d, seen) ==
  /\ cache[d] # NoEntry
  /\ Expiry >= now - cache[d].age

\* Faulty: the age of the entry does not count.
IsFreshForever(d, seen) ==
  /\ cache[d] # NoEntry
  /\ cache[d].mtime = seen
  /\ Nursery < now - seen

\* "Use cached value?"
IsFresh(d, seen) ==
  /\ cache[d] # NoEntry
  /\ cache[d].mtime = seen
  /\ Nursery < now - seen
  /\ Expiry >= now - cache[d].age

\* The entry is a little older than it is, to spread out the load.
Store(d, seen, size) ==
  \E jitter \in 0..Jitter : cache' = [cache EXCEPT ![d] = Entry(seen, now - jitter, size)]

-----------------------------------------------------------------------------

\* The promises, without those that nobody holds any more.
Remaining == [p \in Promises |-> IF p \in Held' THEN promise[p] ELSE NoPromise]

\* Faulty: nocache removes the entry of the directory asked for, and not those
\* of the directories in it.
HandleHealthCheckShallow(q) ==
  /\ req[q].pc = "idle"
  /\ \/ /\ req' = [req EXCEPT ![q].pc = "lstat"]
        /\ UNCHANGED cache
     \/ /\ req' = [req EXCEPT ![q].pc = "lstat", ![q].cleared = now]
        /\ cache' = [cache EXCEPT !["root"] = NoEntry]
  /\ promise' = Remaining
  /\ UNCHANGED <<now, mtime>>

\* command=health&du=1.  With nocache the cache is cleared first, and `cleared'
\* keeps the time.
HandleHealthCheck(q) ==
  /\ req[q].pc = "idle"
  /\ \/ /\ req' = [req EXCEPT ![q].pc = "lstat"]
        /\ UNCHANGED cache
     \/ /\ req' = [req EXCEPT ![q].pc = "lstat", ![q].cleared = now]
        /\ cache' = [d \in Dirs |-> NoEntry]
  /\ promise' = Remaining
  /\ UNCHANGED <<now, mtime>>

LstatRoot(q) ==
  /\ req[q].pc = "lstat"
  /\ req' = [req EXCEPT ![q].pc = "check", ![q].seen = mtime["root"]]
  /\ UNCHANGED <<now, mtime, cache, promise>>

Hold(q, p) ==
  req' = [req EXCEPT ![q] = [@ EXCEPT !.pc = "wait", !.held = p, !.checked = now, !.seen = 0]]

\* The size in the cache, promised or known, or a new promise.
ComputeRoot(q) ==
  /\ req[q].pc = "check"
  /\ \/ /\ IsFresh("root", req[q].seen)
        /\ Hold(q, cache["root"].size)
        /\ UNCHANGED <<cache, promise>>
     \/ /\ ~IsFresh("root", req[q].seen)
        /\ \E p \in Promises \ Held :
             /\ Hold(q, p)
             /\ Store("root", req[q].seen, p)
             /\ promise' = [Remaining EXCEPT ![p].pc = "lstat"]
  /\ UNCHANGED <<now, mtime>>

\* Its entries: lstat of the subdirectory.  One that has gone counts nothing.
LstatSub(p) ==
  /\ promise[p].pc = "lstat"
  /\ promise' = [promise EXCEPT ![p] = IF mtime["sub"] = Absent
                                     THEN [pc |-> "done", seen |-> 0, size |-> now]
                                     ELSE [pc |-> "check", seen |-> mtime["sub"], size |-> Pending]]
  /\ UNCHANGED <<now, mtime, cache, req>>

Resolve(p, time) == promise' = [promise EXCEPT ![p] = [pc |-> "done", seen |-> 0, size |-> time]]

ComputeSub(p) ==
  /\ promise[p].pc = "check"
  /\ \/ /\ IsFresh("sub", promise[p].seen)
        /\ Resolve(p, cache["sub"].size)
        /\ UNCHANGED cache
     \/ /\ ~IsFresh("sub", promise[p].seen)
        /\ Resolve(p, now)
        /\ Store("sub", promise[p].seen, now)
  /\ UNCHANGED <<now, mtime, req>>

Collected(d) ==
  IF cache[d] # NoEntry /\ Expiry < now - cache[d].age THEN NoEntry ELSE cache[d]

\* Faulty: the request keeps the promise it was answered from.
ReplyKeeping(q) ==
  /\ req[q].pc = "wait"
  /\ promise[req[q].held].pc = "done"
  /\ req' = [req EXCEPT ![q].pc = "idle"]
  /\ cache' = [d \in Dirs |-> Collected(d)]
  /\ promise' = Remaining
  /\ UNCHANGED <<now, mtime>>

\* The size is there: the cache is swept, and the reply goes out.
Reply(q) ==
  /\ req[q].pc = "wait"
  /\ promise[req[q].held].pc = "done"
  /\ req' = [req EXCEPT ![q] = IdleRequest]
  /\ cache' = [d \in Dirs |-> Collected(d)]
  /\ promise' = Remaining
  /\ UNCHANGED <<now, mtime>>

Compute(q) == LstatRoot(q) \/ ComputeRoot(q) \/ Reply(q)

ComputeEntries(p) == LstatSub(p) \/ ComputeSub(p)

-----------------------------------------------------------------------------

\* mkFilename's touch, or a file comes or goes in the subdirectory.
Touch ==
  /\ mtime["sub"] # Absent
  /\ mtime' = [mtime EXCEPT !["sub"] = now]
  /\ UNCHANGED <<now, cache, promise, req>>

\* The subdirectory itself is made or removed.
MakeOrRemove ==
  /\ mtime' = [mtime EXCEPT !["root"] = now, !["sub"] = IF @ = Absent THEN now ELSE Absent]
  /\ UNCHANGED <<now, cache, promise, req>>

Tick ==
  /\ now < MaxTime
  /\ now' = now + 1
  /\ UNCHANGED <<mtime, cache, promise, req>>

Next ==
  \/ \E q \in Requests : HandleHealthCheck(q) \/ Compute(q)
  \/ \E p \in Promises : ComputeEntries(p)
  \/ Touch
  \/ MakeOrRemove
  \/ Tick

Spec == Init /\ [][Next]_vars

-----------------------------------------------------------------------------

\* q's reply is on its way.
Answered(q) == req[q].pc = "wait" /\ promise[req[q].held].pc = "done"
Size(q) == promise[req[q].held].size

\* The caches of the two levels add up, and no further: what is reported was
\* read at most twice the expiry time before the cache was asked, however many
\* requests share promises and however long they take.
AtMostTwiceExpired ==
  \A q \in Requests : Answered(q) => Size(q) + 2 * Expiry >= req[q].checked

\* A request with nocache reports nothing that was read before it was made, in
\* spite of the requests under way that go on to fill the cache after it was
\* cleared.
FreshAfterClear ==
  \A q \in Requests : Answered(q) => Size(q) >= req[q].cleared

\* A size of the subdirectory that is used was read after the directory last
\* changed, as far as lstat knew, although the size is stored under an mtime
\* that may be out of date.
ReadAfterChange ==
  [][\A p \in Promises :
       promise[p].pc = "check" /\ promise'[p].pc = "done" => promise'[p].size >= promise[p].seen]_vars

=============================================================================
