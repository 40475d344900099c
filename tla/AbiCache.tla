------------------------------ MODULE AbiCache ------------------------------
(***************************************************************************)
(* The ABI cache of wharfkit-abicache (cache.rs): an ABICache value shared *)
(* by the tasks of an application, each of which may be anywhere inside    *)
(* get_abi.  A call of get_abi is one process; a step of a call runs up to *)
(* the next operation on one of the two concurrent maps, on the OnceCell,  *)
(* or to an await.                                                         *)
(*                                                                         *)
(* Data: the body of an ABI is abstracted to where it came from: the call  *)
(* whose fetch produced it, or FromApp when the application stored it with *)
(* set_abi.  A OnceCell is named by the call that created it.              *)
(***************************************************************************)
EXTENDS FiniteSets, Integers

CONSTANTS Calls,        \* invocations of get_abi, each made at most once
          Names,        \* account names
          FromApp,      \* provenance of an ABI stored by set_abi
          None,         \* no cell, no provenance
          MultiThread,  \* TRUE: tasks run in parallel; FALSE: one executor thread
          MayFail,      \* TRUE: the upstream node may answer with an error
          MayCancel     \* TRUE: a caller may drop its get_abi future

ASSUME CallsAssumption ==
  /\ None \notin Calls
  /\ FromApp \notin Calls
  /\ None # FromApp

ASSUME NamesAssumption == Names # {}

VARIABLES cache,    \* cache[n]: provenance of the stored ABI, or None
          pending,  \* pending[n]: the OnceCell registered for n, or None
          online,   \* TRUE iff the cache has a fetcher
          cell,     \* cell[k]: contents of the OnceCell created by call k
          pc,       \* pc[c]: where call c is
          name,     \* name[c]: the argument of call c
          held,     \* held[c]: the OnceCell call c cloned out of `pending`
          result,   \* result[c]: what call c returned
          seen      \* seen[c]: calls that had returned when c began (history)

vars == <<cache, pending, online, cell, pc, name, held, result, seen>>

Abis == Calls \cup {FromApp}

\* A OnceCell is free (empty, its permit available), busy (an initialiser
\* runs) or settled; a settled cell remembers the call that fetched.
Settled == {"ok", "err"}
Cell    == [st : {"free", "busy"} \cup Settled, by : Calls \cup {None}]
Free    == [st |-> "free", by |-> None]

Result ==
  [kind : {"ok"}, from : Abis] \cup [kind : {"err"}, from : Calls]
    \cup [kind : {"none", "no_client", "dropped"}, from : {None}]
NoResult == [kind |-> "none", from |-> None]

\* Where a task can be preempted on a single executor thread: nowhere but
\* at an await.  All other values of pc are inside one poll.
Suspended == {"idle", "join", "fetch", "done"}

\* Where a call holds a OnceCell.
Holding == {"recheck", "get", "join", "fetch", "remove", "publish"}

Init ==
  /\ cache = [n \in Names |-> None]
  /\ pending = [n \in Names |-> None]
  /\ online \in BOOLEAN
  /\ cell = [c \in Calls |-> Free]
  /\ pc = [c \in Calls |-> "idle"]
  /\ name = [c \in Calls |-> CHOOSE n \in Names : TRUE]
  /\ held = [c \in Calls |-> None]
  /\ result = [c \in Calls |-> NoResult]
  /\ seen = [c \in Calls |-> {}]

-----------------------------------------------------------------------------

\* On one thread no other task is in the middle of a poll.
ThreadFree(others) ==
  MultiThread \/ \A d \in others : pc[d] \in Suspended

MayStep(c) == ThreadFree(Calls \ {c})

Goto(c, l) == pc' = [pc EXCEPT ![c] = l]

Return(c, kind, from) ==
  /\ Goto(c, "done")
  /\ result' = [result EXCEPT ![c] = [kind |-> kind, from |-> from]]

\* get_abi up to the lookup of the pending map: the first cache read and
\* the test for a fetcher.
Lookup(c, n) ==
  /\ pc[c] = "idle"
  /\ MayStep(c)
  /\ name' = [name EXCEPT ![c] = n]
  /\ seen' = [seen EXCEPT ![c] = {d \in Calls : pc[d] = "done"}]
  /\ \/ /\ cache[n] # None
        /\ Return(c, "ok", cache[n])
     \/ /\ cache[n] = None
        /\ ~online
        /\ Return(c, "no_client", None)
     \/ /\ cache[n] = None
        /\ online
        /\ Goto(c, "entry")
        /\ UNCHANGED result
  /\ UNCHANGED <<cache, pending, online, cell, held>>

\* Mutant: look the name up without registering a cell for it.
Enter_NoInsert(c) ==
  /\ pc[c] = "entry"
  /\ MayStep(c)
  /\ held' = [held EXCEPT ![c] = pending[name[c]]]
  /\ Goto(c, "recheck")
  /\ UNCHANGED <<cache, pending, online, cell, name, result, seen>>

\* Mutant: `insert` in place of `entry`, so that every call has a cell of its own.
Enter_AlwaysNew(c) ==
  /\ pc[c] = "entry"
  /\ MayStep(c)
  /\ pending' = [pending EXCEPT ![name[c]] = c]
  /\ held' = [held EXCEPT ![c] = c]
  /\ Goto(c, "recheck")
  /\ UNCHANGED <<cache, online, cell, name, result, seen>>

\* pending.entry(n).or_insert_with(..).clone()
Enter(c) ==
  /\ pc[c] = "entry"
  /\ MayStep(c)
  /\ LET k == IF pending[name[c]] = None THEN c ELSE pending[name[c]]
     IN  /\ pending' = [pending EXCEPT ![name[c]] = k]
         /\ held' = [held EXCEPT ![c] = k]
  /\ Goto(c, "recheck")
  /\ UNCHANGED <<cache, online, cell, name, result, seen>>

\* The second cache read; an early return leaves the pending entry behind.
Recheck(c) ==
  /\ pc[c] = "recheck"
  /\ MayStep(c)
  /\ \/ /\ cache[name[c]] # None
        /\ Return(c, "ok", cache[name[c]])
     \/ /\ cache[name[c]] = None
        /\ Goto(c, "get")
        /\ UNCHANGED result
  /\ UNCHANGED <<cache, pending, online, cell, name, held, seen>>

\* cell.get_or_init: take the value, take the permit and start the fetch,
\* or wait for the call that holds the permit.
GetOrInit(c) ==
  /\ pc[c] \in {"get", "join"}
  /\ MayStep(c)
  /\ LET k == held[c]
     IN  \/ /\ cell[k].st \in Settled
            /\ Goto(c, "remove")
            /\ UNCHANGED cell
         \/ /\ cell[k].st = "free"
            /\ cell' = [cell EXCEPT ![k] = [st |-> "busy", by |-> c]]
            /\ Goto(c, "fetch")
         \/ /\ cell[k].st = "busy"
            /\ pc[c] = "get"
            /\ Goto(c, "join")
            /\ UNCHANGED cell
  /\ UNCHANGED <<cache, pending, online, name, held, result, seen>>

\* The upstream answer arrives: the closure's Result, Ok or Err, becomes
\* the value of the cell.
FetchDone(c) ==
  /\ pc[c] = "fetch"
  /\ MayStep(c)
  /\ \E st \in IF MayFail THEN Settled ELSE {"ok"} :
       cell' = [cell EXCEPT ![held[c]] = [st |-> st, by |-> c]]
  /\ Goto(c, "remove")
  /\ UNCHANGED <<cache, pending, online, name, held, result, seen>>

\* Mutant: unregister the cell only when the fetch succeeded.
Remove_OnlyOnSuccess(c) ==
  /\ pc[c] = "remove"
  /\ MayStep(c)
  /\ pending' = IF cell[held[c]].st = "ok"
                THEN [pending EXCEPT ![name[c]] = None] ELSE pending
  /\ Goto(c, "publish")
  /\ UNCHANGED <<cache, online, cell, name, held, result, seen>>

\* pending.remove(n): whichever cell is registered by now.
Remove(c) ==
  /\ pc[c] = "remove"
  /\ MayStep(c)
  /\ pending' = [pending EXCEPT ![name[c]] = None]
  /\ Goto(c, "publish")
  /\ UNCHANGED <<cache, online, cell, name, held, result, seen>>

\* Mutant: return the ABI without storing it.
Publish_NoStore(c) ==
  /\ pc[c] = "publish"
  /\ MayStep(c)
  /\ Return(c, cell[held[c]].st, cell[held[c]].by)
  /\ UNCHANGED <<cache, pending, online, cell, name, held, seen>>

\* Store a successful answer and return; an error is only returned.
Publish(c) ==
  /\ pc[c] = "publish"
  /\ MayStep(c)
  /\ LET v == cell[held[c]]
     IN  /\ Return(c, v.st, v.by)
         /\ \/ /\ v.st = "ok"
               /\ cache' = [cache EXCEPT ![name[c]] = v.by]
            \/ /\ v.st = "err"
               /\ UNCHANGED cache
  /\ UNCHANGED <<pending, online, cell, name, held, seen>>

\* Mutant: a dropped initialiser keeps the permit.
Drop_KeepsPermit(c) ==
  /\ MayCancel
  /\ pc[c] \in {"fetch", "join"}
  /\ MayStep(c)
  /\ Return(c, "dropped", None)
  /\ UNCHANGED <<cache, pending, online, cell, name, held, seen>>

\* The caller drops its future at an await; a dropped initialiser gives
\* the permit back, so that a waiter or a later call can fetch.
Drop(c) ==
  /\ MayCancel
  /\ pc[c] \in {"fetch", "join"}
  /\ MayStep(c)
  /\ cell' = IF pc[c] = "fetch" THEN [cell EXCEPT ![held[c]] = Free] ELSE cell
  /\ Return(c, "dropped", None)
  /\ UNCHANGED <<cache, pending, online, name, held, seen>>

\* set_abi: the application stores an ABI, over whatever was there.
SetAbi(n) ==
  /\ ThreadFree(Calls)
  /\ cache' = [cache EXCEPT ![n] = FromApp]
  /\ UNCHANGED <<pending, online, cell, pc, name, held, result, seen>>

-----------------------------------------------------------------------------

\* One task that awaits get_abi.
Task(c) ==
  \/ \E n \in Names : Lookup(c, n)
  \/ Enter(c) \/ Recheck(c) \/ GetOrInit(c)
  \/ FetchDone(c) \/ Remove(c) \/ Publish(c)

Next ==
  \/ \E c \in Calls : Task(c) \/ Drop(c)
  \/ \E n \in Names : SetAbi(n)

Spec == Init /\ [][Next]_vars

\* The executor polls every task that can make progress, and the upstream
\* client ends every request with an answer or an error.  Nobody is obliged
\* to start a call.
Fairness ==
  \A c \in Calls :
    WF_vars(Enter(c) \/ Recheck(c) \/ GetOrInit(c) \/ FetchDone(c)
            \/ Remove(c) \/ Publish(c))

FairSpec == Spec /\ Fairness

-----------------------------------------------------------------------------
(* What the cache promises. *)

\* Every variable keeps the shape the ABICache struct and the futures of
\* get_abi give it.
TypeOK ==
  /\ cache \in [Names -> Abis \cup {None}]
  /\ pending \in [Names -> Calls \cup {None}]
  /\ online \in BOOLEAN
  /\ cell \in [Calls -> Cell]
  /\ pc \in [Calls -> Suspended \cup Holding \cup {"entry"}]
  /\ name \in [Calls -> Names]
  /\ held \in [Calls -> Calls \cup {None}]
  /\ \A c \in Calls : pc[c] \in Holding => held[c] \in Calls
  /\ result \in [Calls -> Result]
  /\ seen \in [Calls -> SUBSET Calls]

\* A failed lookup is retryable: a call that begins after some call returned
\* the error of a fetch never returns the error of that same fetch, although
\* the error stays in the OnceCell and others may still hold it.
ErrorNotSticky ==
  \A c, d \in Calls :
    (d \in seen[c] /\ result[c].kind = "err" /\ result[d].kind = "err")
      => result[c].from # result[d].from

\* A call that begins after another call returned the ABI of the same account
\* is answered from the cache: it never waits and never fetches.
KnownIsServed ==
  \A c, d \in Calls :
    (d \in seen[c] /\ result[d].kind = "ok" /\ name[c] = name[d])
      => pc[c] = "done" /\ result[c].kind = "ok"

\* A settled OnceCell, which would answer every later call with an old
\* result, stays registered only while a call that will unregister it is in
\* the very same poll, where it cannot be cancelled.
NoPoisonedEntry ==
  \A n \in Names :
    (pending[n] # None /\ cell[pending[n]].st \in Settled)
      => \E c \in Calls : pc[c] = "remove" /\ held[c] = pending[n] /\ name[c] = n

\* A OnceCell whose permit is taken is being filled by a live fetch, so a
\* waiter never waits for a call that was dropped.
NoLostPermit ==
  \A k \in Calls :
    cell[k].st = "busy" => pc[cell[k].by] = "fetch" /\ held[cell[k].by] = k

\* Concurrent lookups of one account are coalesced: never two requests for
\* it under way at the same time.
OneFetchInFlight ==
  \A c, d \in Calls :
    (pc[c] = "fetch" /\ pc[d] = "fetch" /\ name[c] = name[d]) => c = d

\* The cache as the application sees it.
flight == [n \in Names |-> {c \in Calls : pc[c] = "fetch" /\ name[c] = n}]
answer == [n \in Names |-> {c \in Calls : /\ held[c] \in Calls
                                          /\ cell[held[c]] = [st |-> "ok", by |-> c]
                                          /\ name[c] = n}]
status == [c \in Calls |-> IF pc[c] \in {"idle", "done"} THEN pc[c] ELSE "asked"]

SF == INSTANCE SingleFlight WITH stored <- cache

\* On one thread, and while the node answers, get_abi is single flight: one
\* request per account, by whichever call is not dropped, whose answer every
\* call that asked returns, and none for a call that begins once an ABI is
\* stored (cache.rs 93-123).
RefinesSingleFlight == SF!Spec

\* Whoever fails or is dropped, a call that began comes to an end.
EveryCallReturns ==
  \A c \in Calls : (pc[c] # "idle") ~> (pc[c] = "done")

=============================================================================
