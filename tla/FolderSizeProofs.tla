-------------------------- MODULE FolderSizeProofs --------------------------
(***************************************************************************)
(* How old the sizes are that health checks report, for every number of    *)
(* requests, every expiry time, nursery and jitter.                        *)
(***************************************************************************)
EXTENDS FolderSize, TLAPS

\* Nothing was seen, read or asked for after now.
Past ==
  /\ \A d \in Dirs : mtime[d] <= now
  /\ \A q \in Requests : req[q].cleared <= now /\ req[q].seen <= now /\ req[q].checked <= now

PromisePast ==
  \A p \in Promises :
    /\ promise[p].pc = "done" => promise[p].size \in Times /\ promise[p].size <= now
    /\ promise[p].pc = "check" => promise[p].seen <= now

\* The entry of the subdirectory was read after it was seen, and is no older
\* than it says.
SubEntry ==
  cache["sub"] # NoEntry =>
    /\ cache["sub"].mtime <= cache["sub"].size
    /\ cache["sub"].age <= cache["sub"].size
    /\ cache["sub"].size <= now
    /\ \A q \in Requests : req[q].cleared <= cache["sub"].size

Done(p) == promise[p].pc = "done"

\* The entry of the root is made of sizes that were not expired then.
RootEntry ==
  cache["root"] # NoEntry =>
    /\ cache["root"].age <= now
    /\ Done(cache["root"].size) =>
         /\ promise[cache["root"].size].size + Expiry >= cache["root"].age
         /\ \A q \in Requests : req[q].cleared <= promise[cache["root"].size].size

\* So is what a request waits for.
Awaited ==
  \A q \in Requests :
    Answered(q) => Size(q) + 2 * Expiry >= req[q].checked /\ req[q].cleared <= Size(q)

Inv == TypeOK /\ Past /\ PromisePast /\ SubEntry /\ RootEntry /\ Awaited

-----------------------------------------------------------------------------

\* Constants and times are numbers.
LEMMA Numbers ==
  /\ Nursery \in Nat /\ Expiry \in Nat /\ Jitter \in Nat /\ MaxTime \in Nat
  /\ Times \subseteq Nat /\ 0 \in Times /\ Ages \subseteq Int
  /\ Absent \in Int /\ Pending \in Int /\ Absent < 0 /\ Pending < 0
  BY FolderSizeAssumption DEF Times, Ages, Absent, Pending

\* A promise is not Nobody.
LEMMA Somebody == Nobody \notin Promises
  BY FolderSizeAssumption

\* An entry that is there has the fields of an entry.
LEMMA Entries ==
  ASSUME CacheOK
  PROVE  /\ cache["sub"] # NoEntry =>
              cache["sub"].mtime \in Nat /\ cache["sub"].age \in Int /\ cache["sub"].size \in Nat
         /\ cache["root"] # NoEntry =>
              cache["root"].mtime \in Nat /\ cache["root"].age \in Int /\ cache["root"].size \in Promises
         /\ cache["root"] = NoEntry => cache["root"].size \notin Promises
<1>1. NoEntry.size = Nobody
  BY DEF NoEntry
<1>2. cache["sub"] # NoEntry => cache["sub"] \in [mtime : Times, age : Ages, size : Times]
  BY DEF CacheOK
<1>3. cache["root"] # NoEntry => cache["root"] \in [mtime : Times, age : Ages, size : Promises]
  BY DEF CacheOK
<1>. QED BY <1>1, <1>2, <1>3, Numbers, Somebody

\* The times of a request and of a promise are numbers.
LEMMA Fields ==
  ASSUME TypeOK
  PROVE  /\ now \in Nat
         /\ \A d \in Dirs : mtime[d] \in Int
         /\ \A r \in Requests :
              /\ req[r].cleared \in Nat /\ req[r].seen \in Nat /\ req[r].checked \in Nat
              /\ req[r].pc = "wait" <=> req[r].held \in Promises
         /\ \A p \in Promises : promise[p].seen \in Nat /\ promise[p].size \in Int
<1>1. now \in Nat /\ \A d \in Dirs : mtime[d] \in Int
  BY FolderSizeAssumption DEF TypeOK, ClockOK, Times, Absent
<1>2. \A r \in Requests : req[r] \in [pc : {"idle", "lstat", "check", "wait"}, cleared : Times,
                           seen : Times, checked : Times, held : Promises \cup {Nobody}]
  BY DEF TypeOK, RequestsOK
<1>3. \A r \in Requests : req[r].cleared \in Nat /\ req[r].seen \in Nat /\ req[r].checked \in Nat
  BY <1>2, Numbers
<1>4. \A r \in Requests : req[r].pc = "wait" <=> req[r].held \in Promises
  BY <1>2, Somebody DEF TypeOK, RequestsOK
<1>5. \A p \in Promises : promise[p] \in [pc : {"free", "lstat", "check", "done"},
                               seen : Times, size : Times \cup {Pending}]
  BY DEF TypeOK, PromisesOK
<1>6. \A p \in Promises : promise[p].seen \in Nat /\ promise[p].size \in Int
  BY <1>5, FolderSizeAssumption DEF Times, Pending
<1>. QED BY <1>1, <1>3, <1>4, <1>6

\* Nothing is cached at first.
LEMMA InitInv == Init => Inv
<1>. SUFFICES ASSUME Init PROVE Inv
  OBVIOUS
<1>1. Held = {}
  BY Somebody DEF Init, Held, Promised, NoEntry, IdleRequest, Dirs
<1>2. TypeOK
  BY <1>1, Numbers
     DEF Init, TypeOK, ClockOK, CacheOK, PromisesOK, RequestsOK, NoPromise, IdleRequest, Dirs
<1>. QED
  BY <1>2, Numbers
     DEF Init, Inv, Past, PromisePast, SubEntry, RootEntry, Awaited, NoPromise, IdleRequest, NoEntry, Dirs,
         Answered

\* The promises that are still held are kept, and no others.
LEMMA Kept ==
  ASSUME NEW p \in Promises
  PROVE  /\ p \in Held' => Remaining[p] = promise[p]
         /\ p \notin Held' => Remaining[p] = NoPromise
  BY DEF Remaining

\* The promises stay well formed when some are let go.
LEMMA LetGo ==
  ASSUME PromisesOK, Held' \subseteq Held, promise' = Remaining
  PROVE  PromisesOK'
  BY Numbers DEF PromisesOK, Remaining, NoPromise

\* A health check starts, with an empty cache or with the one there is.
LEMMA StartInv ==
  ASSUME Inv, NEW q \in Requests, HandleHealthCheck(q)
  PROVE  Inv'
<1>. USE DEF Inv, TypeOK
<1>0. /\ now \in Nat
      /\ \A r \in Requests :
              /\ req[r].cleared \in Nat /\ req[r].seen \in Nat /\ req[r].checked \in Nat
              /\ req[r].pc = "wait" <=> req[r].held \in Promises
  BY Fields
<1>1. /\ now' = now /\ mtime' = mtime /\ promise' = Remaining
      /\ req[q].pc = "idle"
      /\ \/ /\ req' = [req EXCEPT ![q].pc = "lstat"] /\ cache' = cache
         \/ /\ req' = [req EXCEPT ![q].pc = "lstat", ![q].cleared = now]
            /\ cache' = [d \in Dirs |-> NoEntry]
  BY DEF HandleHealthCheck
<1>2. \A r \in Requests : /\ req'[r].held = req[r].held /\ req'[r].seen = req[r].seen
                          /\ req'[r].checked = req[r].checked
                          /\ req'[r].cleared \in {req[r].cleared, now}
                          /\ r # q => req'[r] = req[r]
                          /\ req'[q].pc = "lstat"
  BY <1>1 DEF RequestsOK
<1>3. \/ cache'["root"] = NoEntry /\ cache'["sub"] = NoEntry
      \/ cache' = cache /\ \A r \in Requests : req'[r].cleared = req[r].cleared
  BY <1>1 DEF RequestsOK, Dirs
<1>4. Held' \subseteq Held
  <2>1. NoEntry.size = Nobody
    BY DEF NoEntry
  <2>2. cache'["root"].size = cache["root"].size \/ cache'["root"].size = Nobody
    BY <1>3, <2>1
  <2>3. {req'[r].held : r \in Requests} = {req[r].held : r \in Requests}
    BY <1>2
  <2>. QED BY <2>2, <2>3, Somebody DEF Held, Promised
<1>5. ClockOK' /\ CacheOK' /\ PromisesOK'
  BY <1>1, <1>4, LetGo DEF ClockOK, CacheOK, Dirs
<1>6. RequestsOK'
  BY <1>1, Numbers DEF RequestsOK, ClockOK
<1>7. \A p \in Promises : promise'[p] = promise[p] \/ promise'[p] = NoPromise
  BY <1>1, Kept
<1>8. Past'
  BY <1>0, <1>1, <1>2 DEF Past
<1>9. PromisePast'
  BY <1>1, <1>7, Numbers DEF PromisePast, NoPromise
<1>10. SubEntry'
  BY <1>1, <1>3 DEF SubEntry
<1>11. RootEntry'
  BY <1>1, <1>3, <1>7, Entries DEF RootEntry, Done, NoPromise
<1>12. Awaited'
  <2>. SUFFICES ASSUME NEW r \in Requests, Answered(r)'
                PROVE  Size(r)' + 2 * Expiry >= req'[r].checked /\ req'[r].cleared <= Size(r)'
    BY DEF Awaited
  <2>1. r # q /\ req'[r] = req[r] /\ req[r].pc = "wait" /\ req[r].held \in Promises
    BY <1>0, <1>2 DEF Answered
  <2>2. promise'[req[r].held] = promise[req[r].held]
    BY <1>7, <2>1 DEF Answered, NoPromise
  <2>. QED BY <2>1, <2>2 DEF Awaited, Answered, Size
<1>. QED BY <1>5, <1>6, <1>8, <1>9, <1>10, <1>11, <1>12

\* The held promises depend on the entry of the root and on the requests alone.
LEMMA SameHeld ==
  ASSUME cache'["root"].size = cache["root"].size,
         \A r \in Requests : req'[r].held = req[r].held
  PROVE  Held' = Held
<1>1. {req'[r].held : r \in Requests} = {req[r].held : r \in Requests}
  OBVIOUS
<1>. QED BY <1>1 DEF Held, Promised

\* Directories change and time passes.
LEMMA OutsideInv ==
  ASSUME Inv, Touch \/ MakeOrRemove \/ Tick
  PROVE  Inv'
<1>. USE DEF Inv, TypeOK
<1>0. /\ now \in Nat
      /\ \A d \in Dirs : mtime[d] \in Int
      /\ \A r \in Requests : req[r].cleared \in Nat /\ req[r].seen \in Nat /\ req[r].checked \in Nat
      /\ \A p \in Promises : promise[p].seen \in Nat /\ promise[p].size \in Int
  BY Fields
<1>1. /\ cache' = cache /\ promise' = promise /\ req' = req
      /\ now' = now \/ now' = now + 1
  BY DEF Touch, MakeOrRemove, Tick
<1>2. ClockOK'
  BY FolderSizeAssumption DEF ClockOK, Touch, MakeOrRemove, Tick, Times, Dirs, Absent
<1>3. Held' = Held
  BY <1>1, SameHeld
<1>4. CacheOK' /\ PromisesOK' /\ RequestsOK'
  BY <1>1, <1>3 DEF CacheOK, PromisesOK, RequestsOK
<1>5. \A d \in Dirs : mtime'[d] <= now'
  BY <1>0, <1>1, FolderSizeAssumption DEF Past, ClockOK, Touch, MakeOrRemove, Tick, Times, Absent
<1>6. Past' /\ PromisePast'
  BY <1>0, <1>1, <1>5 DEF Past, PromisePast
<1>7. SubEntry' /\ RootEntry' /\ Awaited'
  BY <1>0, <1>1, Entries DEF SubEntry, RootEntry, Awaited, Done, Answered, Size
<1>. QED BY <1>2, <1>4, <1>6, <1>7

\* lstat of the root.
LEMMA LstatRootInv ==
  ASSUME Inv, NEW q \in Requests, LstatRoot(q)
  PROVE  Inv'
<1>. USE DEF Inv, TypeOK
<1>1. /\ now' = now /\ mtime' = mtime /\ cache' = cache /\ promise' = promise
      /\ req[q].pc = "lstat"
      /\ req' = [req EXCEPT ![q].pc = "check", ![q].seen = mtime["root"]]
  BY DEF LstatRoot
<1>2. mtime["root"] \in Times
  BY DEF ClockOK, Dirs
<1>3. RequestsOK'
  BY <1>1, <1>2 DEF RequestsOK
<1>4. \A r \in Requests : /\ req'[r].held = req[r].held
                          /\ req'[r].checked = req[r].checked
                          /\ req'[r].cleared = req[r].cleared
                          /\ req'[r].seen \in {req[r].seen, mtime["root"]}
                          /\ r # q => req'[r] = req[r]
                          /\ req'[q].pc = "check"
  BY <1>1 DEF RequestsOK
<1>5. Held' = Held
  BY <1>1, <1>4, SameHeld
<1>6. ClockOK' /\ CacheOK' /\ PromisesOK'
  BY <1>1, <1>5 DEF ClockOK, CacheOK, PromisesOK
<1>7. Past' /\ PromisePast'
  BY <1>1, <1>4 DEF Past, PromisePast, Dirs
<1>8. SubEntry' /\ RootEntry' /\ Awaited'
  BY <1>1, <1>4 DEF SubEntry, RootEntry, Awaited, Done, Answered, Size
<1>. QED BY <1>3, <1>6, <1>7, <1>8

\* A promise is settled with a size that had not expired: those who share it,
\* and the entry of the root, get a size that is at most twice as old.
LEMMA Settled ==
  ASSUME Inv, NEW p \in Promises, NEW time \in Nat, promise[p].pc # "done",
         time + Expiry >= now, \A r \in Requests : req[r].cleared <= time,
         now' = now, req' = req, cache'["root"] = cache["root"],
         \A o \in Promises : o # p => promise'[o] = promise[o],
         promise'[p].pc = "done" => promise'[p].size = time
  PROVE  RootEntry' /\ Awaited'
<1>. USE DEF Inv, TypeOK
<1>0. /\ now \in Nat /\ Expiry \in Nat
      /\ \A r \in Requests :
              /\ req[r].checked \in Nat
              /\ req[r].pc = "wait" <=> req[r].held \in Promises
  BY Fields, Numbers
<1>1. RootEntry'
  BY <1>0, Entries DEF RootEntry, Done
<1>2. Awaited'
  <2>. SUFFICES ASSUME NEW r \in Requests, Answered(r)'
                PROVE  Size(r)' + 2 * Expiry >= req[r].checked /\ req[r].cleared <= Size(r)'
    BY DEF Awaited
  <2>1. CASE req[r].held = p
    <3>1. Size(r)' = time
      BY <2>1 DEF Answered, Size
    <3>2. req[r].checked <= now
      BY DEF Past
    <3>. QED BY <1>0, <3>1, <3>2
  <2>2. CASE req[r].held # p
    <3>1. req[r].held \in Promises
      BY <1>0 DEF Answered
    <3>2. Answered(r) /\ Size(r)' = Size(r)
      BY <2>2, <3>1 DEF Answered, Size
    <3>. QED BY <3>2 DEF Awaited
  <2>. QED BY <2>1, <2>2
<1>. QED BY <1>1, <1>2

\* lstat of the subdirectory, which settles the promise if it is gone.
LEMMA LstatSubInv ==
  ASSUME Inv, NEW p \in Promises, LstatSub(p)
  PROVE  Inv'
<1>. USE DEF Inv, TypeOK
<1>0. /\ now \in Nat /\ now \in Times
      /\ mtime["sub"] # Absent => mtime["sub"] \in Times /\ mtime["sub"] <= now
  BY Fields DEF ClockOK, Dirs, Past
<1>1. /\ now' = now /\ mtime' = mtime /\ cache' = cache /\ req' = req
      /\ promise[p].pc = "lstat"
      /\ \/ /\ mtime["sub"] = Absent
            /\ promise' = [promise EXCEPT ![p] = [pc |-> "done", seen |-> 0, size |-> now]]
         \/ /\ mtime["sub"] # Absent
            /\ promise' = [promise EXCEPT ![p] = [pc |-> "check", seen |-> mtime["sub"], size |-> Pending]]
  BY DEF LstatSub
<1>2. /\ \A o \in Promises : o # p => promise'[o] = promise[o]
      /\ promise'[p].pc # "free"
      /\ promise'[p].pc = "done" => promise'[p].size = now
      /\ promise'[p].pc = "check" => promise'[p].seen = mtime["sub"] /\ mtime["sub"] # Absent
  BY <1>1 DEF PromisesOK
<1>3. Held' = Held
  BY <1>1, SameHeld
<1>4. PromisesOK'
  <2>1. promise' \in [Promises -> [pc : {"free", "lstat", "check", "done"},
                                   seen : Times, size : Times \cup {Pending}]]
    BY <1>0, <1>1, Numbers DEF PromisesOK
  <2>. QED BY <1>1, <1>2, <1>3, <2>1 DEF PromisesOK
<1>5. ClockOK' /\ CacheOK' /\ RequestsOK' /\ Past'
  BY <1>1 DEF ClockOK, CacheOK, RequestsOK, Past
<1>6. PromisePast'
  BY <1>0, <1>1, <1>2 DEF PromisePast
<1>7. SubEntry'
  BY <1>1 DEF SubEntry
<1>8. RootEntry' /\ Awaited'
  BY <1>0, <1>1, <1>2, Settled, Numbers DEF Past
<1>. QED BY <1>4, <1>5, <1>6, <1>7, <1>8

\* The subdirectory is read, unless the cache has its size.
LEMMA ComputeSubInv ==
  ASSUME Inv, NEW p \in Promises, ComputeSub(p)
  PROVE  Inv'
<1>. USE DEF Inv, TypeOK
<1>0. /\ now \in Nat /\ now \in Times /\ promise[p].seen \in Times
      /\ Expiry \in Nat /\ Jitter \in Nat
  BY Fields, Numbers DEF ClockOK, PromisesOK
<1>1. /\ now' = now /\ mtime' = mtime /\ req' = req /\ promise[p].pc = "check"
      /\ promise[p].seen <= now
  BY DEF ComputeSub, PromisePast
<1>2. PICK time \in Nat :
        /\ promise' = [promise EXCEPT ![p] = [pc |-> "done", seen |-> 0, size |-> time]]
        /\ time \in Times /\ time <= now /\ time + Expiry >= now
        /\ \A r \in Requests : req[r].cleared <= time
  <2>1. CASE IsFresh("sub", promise[p].seen) /\ Resolve(p, cache["sub"].size)
    <3>1. cache["sub"] # NoEntry /\ Expiry >= now - cache["sub"].age
      BY <2>1 DEF IsFresh
    <3>2. cache["sub"].size \in Times /\ cache["sub"].size \in Nat /\ cache["sub"].age \in Int
      BY <3>1, Entries DEF CacheOK
    <3>3. /\ cache["sub"].size <= now /\ cache["sub"].size + Expiry >= now
          /\ \A r \in Requests : req[r].cleared <= cache["sub"].size
      BY <1>0, <3>1, <3>2 DEF SubEntry
    <3>. USE <3>2
    <3>. WITNESS cache["sub"].size \in Nat
    <3>. QED BY <2>1, <3>2, <3>3 DEF Resolve
  <2>2. CASE Resolve(p, now)
    <3>1. now <= now /\ now + Expiry >= now /\ \A r \in Requests : req[r].cleared <= now
      BY <1>0 DEF Past
    <3>. USE <1>0
    <3>. WITNESS now \in Nat
    <3>. QED BY <1>0, <2>2, <3>1 DEF Resolve
  <2>. QED BY <2>1, <2>2 DEF ComputeSub
<1>3. /\ \A o \in Promises : o # p => promise'[o] = promise[o]
      /\ promise'[p].pc = "done" /\ promise'[p].size = time
  BY <1>2 DEF PromisesOK
<1>4. /\ DOMAIN cache' = DOMAIN cache /\ cache'["root"] = cache["root"]
      /\ \/ cache'["sub"] = cache["sub"]
         \/ \E jitter \in 0..Jitter : cache'["sub"] = Entry(promise[p].seen, now - jitter, now)
  BY DEF ComputeSub, Store, CacheOK, Dirs
<1>5. \/ cache'["sub"] = cache["sub"]
      \/ /\ cache'["sub"] \in [mtime : Times, age : Ages, size : Times]
         /\ cache'["sub"].mtime <= now /\ cache'["sub"].age <= now /\ cache'["sub"].size = now
  <2>1. ASSUME NEW jitter \in 0..Jitter, cache'["sub"] = Entry(promise[p].seen, now - jitter, now)
        PROVE  /\ cache'["sub"] \in [mtime : Times, age : Ages, size : Times]
               /\ cache'["sub"].mtime <= now /\ cache'["sub"].age <= now /\ cache'["sub"].size = now
    <3>1. now - jitter \in Ages /\ now - jitter <= now
      BY <1>0, FolderSizeAssumption DEF Ages, Times
    <3>. QED BY <1>0, <1>1, <2>1, <3>1 DEF Entry
  <2>. QED BY <1>4, <2>1
<1>6. CacheOK'
  BY <1>4, <1>5 DEF CacheOK
<1>7. Held' = Held
  BY <1>1, <1>4, SameHeld
<1>8. PromisesOK'
  <2>1. promise' \in [Promises -> [pc : {"free", "lstat", "check", "done"},
                                   seen : Times, size : Times \cup {Pending}]]
    BY <1>2, Numbers DEF PromisesOK
  <2>. QED BY <1>1, <1>3, <1>7, <2>1 DEF PromisesOK
<1>9. ClockOK' /\ RequestsOK' /\ Past'
  BY <1>1 DEF ClockOK, RequestsOK, Past
<1>10. PromisePast'
  BY <1>1, <1>2, <1>3 DEF PromisePast
<1>11. SubEntry'
  BY <1>0, <1>1, <1>5 DEF SubEntry, Past
<1>12. RootEntry' /\ Awaited'
  BY <1>1, <1>2, <1>3, <1>4, Settled
<1>. QED BY <1>6, <1>8, <1>9, <1>10, <1>11, <1>12

\* A request uses the entry of the root, or makes a new one.
LEMMA ComputeRootInv ==
  ASSUME Inv, NEW q \in Requests, ComputeRoot(q)
  PROVE  Inv'
<1>. USE DEF Inv, TypeOK
<1>0. /\ now \in Nat /\ now \in Times /\ req[q].seen \in Times /\ 0 \in Times
      /\ Expiry \in Nat /\ Jitter \in Nat /\ 0 <= now
      /\ \A r \in Requests : req[r].pc = "wait" <=> req[r].held \in Promises
  BY Fields, Numbers DEF ClockOK, RequestsOK
<1>1. now' = now /\ mtime' = mtime /\ req[q].pc = "check"
  BY DEF ComputeRoot
<1>2. PICK p \in Promises :
        /\ Hold(q, p)
        /\ \/ /\ IsFresh("root", req[q].seen) /\ p = cache["root"].size
              /\ cache' = cache /\ promise' = promise
           \/ /\ p \notin Held /\ Store("root", req[q].seen, p)
              /\ promise' = [Remaining EXCEPT ![p].pc = "lstat"]
  BY Entries DEF ComputeRoot, IsFresh
<1>3. /\ req' \in [Requests -> [pc : {"idle", "lstat", "check", "wait"}, cleared : Times,
                           seen : Times, checked : Times, held : Promises \cup {Nobody}]]
      /\ \A r \in Requests : r # q => req'[r] = req[r]
      /\ \A r \in Requests : req'[r].cleared = req[r].cleared
      /\ req'[q].pc = "wait" /\ req'[q].held = p /\ req'[q].checked = now /\ req'[q].seen = 0
  BY <1>0, <1>2 DEF Hold, RequestsOK
<1>4. RequestsOK' /\ ClockOK'
  BY <1>1, <1>3, Somebody DEF RequestsOK, ClockOK
<1>5. Past'
  BY <1>0, <1>1, <1>3 DEF Past
<1>6. CASE /\ IsFresh("root", req[q].seen) /\ p = cache["root"].size
           /\ cache' = cache /\ promise' = promise
  <2>1. ASSUME NEW o \in Promises PROVE o \in Held' <=> o \in Held
    BY <1>1, <1>3, <1>6, Somebody DEF Held, Promised, RequestsOK
  <2>2. Held' = Held
    BY <2>1 DEF Held
  <2>3. CacheOK' /\ PromisesOK' /\ PromisePast' /\ SubEntry' /\ RootEntry'
    BY <1>1, <1>3, <1>6, <2>2 DEF CacheOK, PromisesOK, PromisePast, SubEntry, RootEntry, Done
  <2>4. Awaited'
    <3>1. cache["root"] # NoEntry /\ Expiry >= now - cache["root"].age /\ cache["root"].age \in Int
      BY <1>6, Entries DEF IsFresh
    <3>2. ASSUME Done(p)
          PROVE  promise[p].size + 2 * Expiry >= now /\ req[q].cleared <= promise[p].size
      BY <1>0, <1>6, <3>1, <3>2, Fields DEF RootEntry
    <3>. QED BY <1>3, <1>6, <3>2 DEF Awaited, Answered, Size, Done
  <2>. QED BY <1>4, <1>5, <2>3, <2>4
<1>7. CASE /\ p \notin Held /\ Store("root", req[q].seen, p)
           /\ promise' = [Remaining EXCEPT ![p].pc = "lstat"]
  <2>1. PICK jitter \in 0..Jitter : cache' = [cache EXCEPT !["root"] = Entry(req[q].seen, now - jitter, p)]
    BY <1>7 DEF Store
  <2>2. /\ cache'["root"] = Entry(req[q].seen, now - jitter, p)
        /\ cache'["sub"] = cache["sub"] /\ DOMAIN cache' = DOMAIN cache
    BY <2>1 DEF CacheOK, Dirs
  <2>3. now - jitter \in Ages /\ now - jitter <= now
    BY <1>0, FolderSizeAssumption DEF Ages, Times
  <2>4. CacheOK'
    BY <1>0, <2>2, <2>3 DEF CacheOK, Entry
  <2>5. /\ p \in Held'
        /\ \A o \in Promises : o \in Held' => o = p \/ o \in Held
        /\ \A r \in Requests : r # q /\ req[r].held \in Promises => req[r].held \in Held \cap Held'
    BY <1>1, <1>3, <2>2, Somebody DEF Held, Promised, Entry
  <2>12. Remaining \in [Promises -> [pc : {"free", "lstat", "check", "done"},
                                   seen : Times, size : Times \cup {Pending}]]
    BY Numbers DEF Remaining, PromisesOK, NoPromise
  <2>6. /\ promise'[p].pc = "lstat"
        /\ \A o \in Promises : o # p =>
             /\ o \in Held' => promise'[o] = promise[o]
             /\ o \notin Held' => promise'[o] = NoPromise
    BY <1>7, <2>12, Kept
  <2>7. PromisesOK'
    <3>2. promise' \in [Promises -> [pc : {"free", "lstat", "check", "done"},
                                   seen : Times, size : Times \cup {Pending}]]
      BY <1>7, <2>12
    <3>. QED BY <2>5, <2>6, <3>2 DEF PromisesOK, NoPromise
  <2>8. PromisePast'
    BY <1>1, <2>6, Numbers DEF PromisePast, NoPromise
  <2>9. SubEntry'
    BY <1>1, <1>3, <2>2 DEF SubEntry
  <2>10. RootEntry'
    BY <1>0, <1>1, <2>2, <2>3, <2>6 DEF RootEntry, Done, Entry
  <2>11. Awaited'
    <3>. SUFFICES ASSUME NEW r \in Requests, Answered(r)'
                  PROVE  Size(r)' + 2 * Expiry >= req'[r].checked /\ req'[r].cleared <= Size(r)'
      BY DEF Awaited
    <3>1. r # q
      BY <1>3, <2>6 DEF Answered
    <3>2. req'[r] = req[r] /\ req[r].held \in Promises
      BY <1>0, <1>3, <3>1 DEF Answered
    <3>3. promise'[req[r].held] = promise[req[r].held]
      BY <1>7, <2>5, <2>6, <3>1, <3>2
    <3>. QED BY <3>2, <3>3 DEF Awaited, Answered, Size
  <2>. QED BY <1>4, <1>5, <2>4, <2>7, <2>8, <2>9, <2>10, <2>11
<1>. QED BY <1>2, <1>6, <1>7

\* The reply goes out: entries and promises may go with it.
LEMMA ReplyInv ==
  ASSUME Inv, NEW q \in Requests, Reply(q)
  PROVE  Inv'
<1>. USE DEF Inv, TypeOK
<1>0. /\ now \in Nat /\ 0 \in Times /\ 0 <= now
      /\ \A r \in Requests : req[r].pc = "wait" <=> req[r].held \in Promises
      /\ \A o \in Promises : promise[o].pc = "done" => promise[o].size >= 0
  BY Fields, Numbers DEF PromisePast
<1>1. /\ now' = now /\ mtime' = mtime /\ promise' = Remaining /\ req[q].pc = "wait"
      /\ req' = [req EXCEPT ![q] = IdleRequest]
      /\ DOMAIN cache' = Dirs /\ \A d \in Dirs : cache'[d] \in {cache[d], NoEntry}
  BY DEF Reply, Collected
<1>2. /\ req'[q] = IdleRequest
      /\ \A r \in Requests : r # q => req'[r] = req[r]
  BY <1>1 DEF RequestsOK
<1>3. /\ IdleRequest.pc = "idle" /\ IdleRequest.held = Nobody /\ IdleRequest.cleared = 0
      /\ IdleRequest.seen = 0 /\ IdleRequest.checked = 0
  BY DEF IdleRequest
<1>4. RequestsOK'
  <2>1. IdleRequest \in [pc : {"idle", "lstat", "check", "wait"}, cleared : Times,
                           seen : Times, checked : Times, held : Promises \cup {Nobody}]
    BY <1>0 DEF IdleRequest
  <2>. QED BY <1>1, <1>2, <1>3, <2>1 DEF RequestsOK
<1>5. ClockOK' /\ CacheOK'
  BY <1>1 DEF ClockOK, CacheOK, Dirs
<1>6. Held' \subseteq Held
  <2>1. NoEntry.size = Nobody
    BY DEF NoEntry
  <2>2. cache'["root"].size = cache["root"].size \/ cache'["root"].size = Nobody
    BY <1>1, <2>1 DEF Dirs
  <2>3. ASSUME NEW o \in Promises, o \in Held' PROVE o \in Held
    BY <1>2, <1>3, <2>2, <2>3, Somebody DEF Held, Promised
  <2>. QED BY <2>3 DEF Held
<1>7. PromisesOK'
  BY <1>1, <1>6, LetGo
<1>8. \A o \in Promises : promise'[o] = promise[o] \/ promise'[o] = NoPromise
  BY <1>1, Kept
<1>9. Past' /\ PromisePast'
  BY <1>0, <1>1, <1>2, <1>3, <1>8, Numbers DEF Past, PromisePast, NoPromise
<1>10. SubEntry'
  <2>1. cache["sub"] # NoEntry => cache["sub"].size \in Nat
    BY Entries
  <2>. QED BY <1>1, <1>2, <1>3, <2>1 DEF SubEntry, Dirs
<1>11. RootEntry'
  BY <1>0, <1>1, <1>2, <1>3, <1>8, Entries DEF RootEntry, Done, Dirs, NoPromise
<1>12. Awaited'
  <2>. SUFFICES ASSUME NEW r \in Requests, Answered(r)'
                PROVE  Size(r)' + 2 * Expiry >= req'[r].checked /\ req'[r].cleared <= Size(r)'
    BY DEF Awaited
  <2>1. r # q /\ req'[r] = req[r] /\ req[r].held \in Promises
    BY <1>0, <1>2, <1>3 DEF Answered
  <2>2. promise'[req[r].held] = promise[req[r].held]
    BY <1>8, <2>1 DEF Answered, NoPromise
  <2>. QED BY <2>1, <2>2 DEF Awaited, Answered, Size
<1>. QED BY <1>4, <1>5, <1>7, <1>9, <1>10, <1>11, <1>12

\* Every step keeps that.
LEMMA StepInv == Inv /\ [Next]_vars => Inv'
<1>1. ASSUME Inv, UNCHANGED vars PROVE Inv'
  <2>1. Held' = Held
    BY <1>1, SameHeld DEF vars
  <2>. QED
    BY <1>1, <2>1 DEF vars, Inv, TypeOK, ClockOK, CacheOK, PromisesOK, RequestsOK, Past, PromisePast,
                      SubEntry, RootEntry, Awaited, Done, Answered, Size
<1>. QED
  BY <1>1, StartInv, LstatRootInv, ComputeRootInv, ReplyInv, LstatSubInv, ComputeSubInv, OutsideInv
     DEF Next, Compute, ComputeEntries

\* The ages of what is known are bounded at all times.
LEMMA Invariance == Spec => []Inv
  BY InitInv, StepInv, PTL DEF Spec

-----------------------------------------------------------------------------

\* Requests, promises and entries are well formed, and a promise is kept as
\* long as somebody holds it.
THEOREM TypeCorrect == Spec => []TypeOK
<1>1. Inv => TypeOK
  BY DEF Inv
<1>. QED BY Invariance, <1>1, PTL

\* What a health check reports was read at most twice the expiry time before
\* the cache was asked.
THEOREM TwiceExpired == Spec => []AtMostTwiceExpired
<1>1. Inv => AtMostTwiceExpired
  BY DEF Inv, Awaited, AtMostTwiceExpired
<1>. QED BY Invariance, <1>1, PTL

\* With nocache nothing is reported that was read before the request.
THEOREM ClearedIsFresh == Spec => []FreshAfterClear
<1>1. Inv => FreshAfterClear
  BY DEF Inv, Awaited, FreshAfterClear
<1>. QED BY Invariance, <1>1, PTL

\* A size is used only if it was read after the change that lstat saw.
THEOREM ReadAfterSeen == Spec => ReadAfterChange
<1>1. ASSUME Inv, [Next]_vars, NEW p \in Promises, promise[p].pc = "check", promise'[p].pc = "done"
      PROVE  promise'[p].size >= promise[p].seen
  <2>. USE <1>1 DEF Inv, TypeOK
  <2>1. CASE ComputeSub(p)
    <3>1. CASE IsFresh("sub", promise[p].seen) /\ Resolve(p, cache["sub"].size)
      <4>1. promise'[p].size = cache["sub"].size
        BY <3>1 DEF Resolve, PromisesOK
      <4>. QED BY <3>1, <4>1, Entries DEF IsFresh, SubEntry
    <3>2. CASE Resolve(p, now)
      <4>1. promise'[p].size = now
        BY <3>2 DEF Resolve, PromisesOK
      <4>. QED BY <4>1 DEF PromisePast
    <3>. QED BY <2>1, <3>1, <3>2 DEF ComputeSub
  <2>2. ASSUME promise' = promise PROVE FALSE
    BY <2>2
  <2>3. ASSUME NEW o \in Promises, LstatSub(o) PROVE FALSE
    BY <2>3 DEF LstatSub, PromisesOK
  <2>4. ASSUME NEW o \in Promises, o # p, ComputeSub(o) PROVE FALSE
    BY <2>4 DEF ComputeSub, Resolve, PromisesOK
  <2>5. ASSUME NEW q \in Requests, HandleHealthCheck(q) \/ Reply(q) PROVE FALSE
    BY <2>5, Kept DEF HandleHealthCheck, Reply, NoPromise
  <2>6. ASSUME NEW q \in Requests, ComputeRoot(q), promise' # promise PROVE FALSE
    <3>1. PICK o \in Promises : promise' = [Remaining EXCEPT ![o].pc = "lstat"]
      BY <2>6 DEF ComputeRoot
    <3>2. Remaining \in [Promises -> [pc : {"free", "lstat", "check", "done"},
                                   seen : Times, size : Times \cup {Pending}]]
      BY Numbers DEF Remaining, PromisesOK, NoPromise
    <3>. QED BY <3>1, <3>2, Kept DEF NoPromise
  <2>. QED
    BY <2>1, <2>2, <2>3, <2>4, <2>5, <2>6
       DEF Next, Compute, ComputeEntries, LstatRoot, Touch, MakeOrRemove, Tick, vars
<1>2. Inv /\ [Next]_vars =>
        [\A p \in Promises :
          promise[p].pc = "check" /\ promise'[p].pc = "done" => promise'[p].size >= promise[p].seen]_vars
  BY <1>1
<1>. QED BY Invariance, <1>2, PTL DEF Spec, ReadAfterChange

=============================================================================
