--------------------------- MODULE AbiCacheProofs ---------------------------
(* Proofs of the safety properties of AbiCache, for every set of calls and *)
(* names and every runtime flavour.                                        *)
EXTENDS AbiCache, TLAPS

\* A OnceCell that is not free was filled by a call that holds it, and that
\* call stands where the state of the cell says.
CellInv ==
  \A k \in Calls : cell[k].st # "free" =>
    /\ cell[k].by \in Calls
    /\ held[cell[k].by] = k
    /\ cell[k].st = "busy" => pc[cell[k].by] = "fetch"

\* Conversely, a call that fetches or has an answer holds a cell that says so.
CallInv ==
  \A c \in Calls :
    /\ pc[c] = "fetch" => cell[held[c]].st = "busy" /\ cell[held[c]].by = c
    /\ pc[c] \in {"remove", "publish"} => cell[held[c]].st \in Settled

\* A cell is reached only through the name it was registered for, and only
\* after the call it is named by registered it.
Created(k) == pc[k] \notin {"idle", "entry"}

KeyInv ==
  /\ \A c \in Calls : held[c] # None =>
       Created(c) /\ Created(held[c]) /\ name[held[c]] = name[c]
  /\ \A n \in Names : pending[n] # None =>
       Created(pending[n]) /\ name[pending[n]] = n

\* What a call has seen is over, and a call has a result when it is over.
SeenInv ==
  /\ \A c, d \in Calls : d \in seen[c] => pc[d] = "done"
  /\ \A c \in Calls : pc[c] # "done" => result[c] = NoResult

\* Past its `remove`, the cell a call holds is registered nowhere.
RemovedInv ==
  \A c \in Calls : pc[c] = "publish" => \A n \in Names : pending[n] # held[c]

\* Nor is a cell whose error some call has returned.
ReportedInv ==
  \A d \in Calls : result[d].kind = "err" =>
    /\ held[result[d].from] \in Calls
    /\ cell[held[result[d].from]].st = "err"
    /\ cell[held[result[d].from]].by = result[d].from
    /\ \A n \in Names : pending[n] # held[result[d].from]

\* So a call that began after that error was returned never comes to hold it.
FreshInv ==
  \A c, d \in Calls :
    (d \in seen[c] /\ result[d].kind = "err" /\ pc[c] \in Holding)
      => held[c] # held[result[d].from]

\* An account whose ABI was returned is in the cache.
KnownInv == \A d \in Calls : result[d].kind = "ok" => cache[name[d]] # None

IInv ==
  /\ TypeOK
  /\ CellInv /\ CallInv /\ KeyInv /\ SeenInv
  /\ RemovedInv /\ ReportedInv /\ FreshInv /\ KnownInv
  /\ ErrorNotSticky /\ KnownIsServed /\ NoPoisonedEntry

-----------------------------------------------------------------------------

LEMMA LookupStep ==
  ASSUME IInv, NEW c \in Calls, NEW n \in Names, Lookup(c, n)
  PROVE  IInv'
<1>1. TypeOK'
  BY CallsAssumption DEF IInv, TypeOK, Lookup, Goto, Return, Abis, Result,
     Suspended, Holding
<1>2. CellInv'
  BY DEF IInv, TypeOK, CellInv, Lookup, Goto, Return
<1>3. CallInv'
  BY CallsAssumption DEF IInv, TypeOK, CallInv, Lookup, Goto, Return,
     CellInv, Holding
<1>4. KeyInv'
  BY CallsAssumption DEF IInv, TypeOK, KeyInv, Lookup, Goto, Return,
     Created
<1>5. SeenInv'
  BY DEF IInv, TypeOK, SeenInv, Lookup, Goto, Return, NoResult
<1>6. RemovedInv'
  BY DEF IInv, TypeOK, RemovedInv, Lookup, Goto, Return, KeyInv, Created
<1>7. ReportedInv'
  BY DEF IInv, TypeOK, ReportedInv, Lookup, Goto, Return, SeenInv, Result
<1>8. FreshInv'
  BY DEF IInv, TypeOK, FreshInv, Lookup, Goto, Return, Holding, SeenInv,
     NoResult
<1>9. KnownInv'
  BY CallsAssumption DEF IInv, TypeOK, KnownInv, Lookup, Goto, Return,
     SeenInv, NoResult
<1>10. ErrorNotSticky'
  BY DEF IInv, TypeOK, ErrorNotSticky, Lookup, Goto, Return, SeenInv,
     NoResult
<1>11. KnownIsServed'
  BY DEF IInv, TypeOK, KnownIsServed, Lookup, Goto, Return, KnownInv,
     SeenInv, NoResult
<1>12. NoPoisonedEntry'
  BY DEF IInv, TypeOK, NoPoisonedEntry, Lookup, Goto, Return, CellInv
<1> QED
  BY <1>1, <1>2, <1>3, <1>4, <1>5, <1>6, <1>7, <1>8, <1>9, <1>10, <1>11,
     <1>12 DEF IInv

LEMMA EnterStep ==
  ASSUME IInv, NEW c \in Calls, Enter(c)
  PROVE  IInv'
<1>1. TypeOK'
  BY CallsAssumption DEF IInv, TypeOK, Enter, Goto, Suspended, Holding
<1>2. CellInv'
  BY CallsAssumption DEF IInv, TypeOK, CellInv, Enter, Goto, CallInv,
     KeyInv, Created, Cell, Settled, Holding
<1>3. CallInv'
  BY DEF IInv, TypeOK, CallInv, Enter, Goto, CellInv, Holding
<1>4. KeyInv'
  BY CallsAssumption DEF IInv, TypeOK, KeyInv, Enter, Goto, Created
<1>5. SeenInv'
  BY DEF IInv, TypeOK, SeenInv, Enter, Goto, NoResult
<1>6. RemovedInv'
  BY CallsAssumption DEF IInv, TypeOK, RemovedInv, Enter, Goto, KeyInv,
     Created
<1>7. ReportedInv'
  BY CallsAssumption DEF IInv, TypeOK, ReportedInv, Enter, Goto, KeyInv,
     Created, Result
<1>8. FreshInv'
  BY CallsAssumption DEF IInv, TypeOK, FreshInv, Enter, Goto, Holding,
     ReportedInv, KeyInv, SeenInv, Created, Result
<1>9. KnownInv'
  BY DEF IInv, TypeOK, KnownInv, Enter, Goto
<1>10. ErrorNotSticky'
  BY DEF IInv, TypeOK, ErrorNotSticky, Enter, Goto
<1>11. KnownIsServed'
  BY DEF IInv, TypeOK, KnownIsServed, Enter, Goto
<1>12. NoPoisonedEntry'
  BY CallsAssumption DEF IInv, TypeOK, NoPoisonedEntry, Enter, Goto,
     CellInv, KeyInv, Created, Settled
<1> QED
  BY <1>1, <1>2, <1>3, <1>4, <1>5, <1>6, <1>7, <1>8, <1>9, <1>10, <1>11,
     <1>12 DEF IInv

LEMMA RecheckStep ==
  ASSUME IInv, NEW c \in Calls, Recheck(c)
  PROVE  IInv'
<1>1. TypeOK'
  BY CallsAssumption DEF IInv, TypeOK, Recheck, Goto, Return, Abis, Result,
     Suspended, Holding
<1>2. CellInv'
  BY DEF IInv, TypeOK, CellInv, Recheck, Goto, Return, CallInv, KeyInv
<1>3. CallInv'
  BY CallsAssumption DEF IInv, TypeOK, CallInv, Recheck, Goto, Return,
     CellInv, Holding
<1>4. KeyInv'
  BY CallsAssumption DEF IInv, TypeOK, KeyInv, Recheck, Goto, Return,
     Created
<1>5. SeenInv'
  BY DEF IInv, TypeOK, SeenInv, Recheck, Goto, Return, NoResult
<1>6. RemovedInv'
  BY DEF IInv, TypeOK, RemovedInv, Recheck, Goto, Return, KeyInv, Created
<1>7. ReportedInv'
  BY DEF IInv, TypeOK, ReportedInv, Recheck, Goto, Return, Result
<1>8. FreshInv'
  BY DEF IInv, TypeOK, FreshInv, Recheck, Goto, Return, Holding
<1>9. KnownInv'
  BY CallsAssumption DEF IInv, TypeOK, KnownInv, Recheck, Goto, Return
<1>10. ErrorNotSticky'
  BY DEF IInv, TypeOK, ErrorNotSticky, Recheck, Goto, Return, SeenInv,
     NoResult
<1>11. KnownIsServed'
  BY DEF IInv, TypeOK, KnownIsServed, Recheck, Goto, Return, SeenInv
<1>12. NoPoisonedEntry'
  BY DEF IInv, TypeOK, NoPoisonedEntry, Recheck, Goto, Return, CellInv
<1> QED
  BY <1>1, <1>2, <1>3, <1>4, <1>5, <1>6, <1>7, <1>8, <1>9, <1>10, <1>11,
     <1>12 DEF IInv

LEMMA GetOrInitStep ==
  ASSUME IInv, NEW c \in Calls, GetOrInit(c)
  PROVE  IInv'
<1>1. TypeOK'
  BY CallsAssumption DEF IInv, TypeOK, GetOrInit, Goto, Cell, Settled,
     Suspended, Holding
<1>2. CellInv'
  BY DEF IInv, TypeOK, CellInv, GetOrInit, Goto, CallInv, KeyInv, Settled
<1>3. CallInv'
  BY CallsAssumption DEF IInv, TypeOK, CallInv, GetOrInit, Goto, CellInv,
     Holding, Settled
<1>4. KeyInv'
  BY DEF IInv, TypeOK, KeyInv, GetOrInit, Goto, Created
<1>5. SeenInv'
  BY DEF IInv, TypeOK, SeenInv, GetOrInit, Goto, NoResult
<1>6. RemovedInv'
  BY DEF IInv, TypeOK, RemovedInv, GetOrInit, Goto, KeyInv, Created
<1>7. ReportedInv'
  BY DEF IInv, TypeOK, ReportedInv, GetOrInit, Goto, Settled, Result, Cell
<1>8. FreshInv'
  BY DEF IInv, TypeOK, FreshInv, GetOrInit, Goto, Holding
<1>9. KnownInv'
  BY DEF IInv, TypeOK, KnownInv, GetOrInit, Goto
<1>10. ErrorNotSticky'
  BY DEF IInv, TypeOK, ErrorNotSticky, GetOrInit, Goto
<1>11. KnownIsServed'
  BY DEF IInv, TypeOK, KnownIsServed, GetOrInit, Goto
<1>12. NoPoisonedEntry'
  BY DEF IInv, TypeOK, NoPoisonedEntry, GetOrInit, Goto, CellInv, Settled
<1> QED
  BY <1>1, <1>2, <1>3, <1>4, <1>5, <1>6, <1>7, <1>8, <1>9, <1>10, <1>11,
     <1>12 DEF IInv

LEMMA FetchDoneStep ==
  ASSUME IInv, NEW c \in Calls, FetchDone(c)
  PROVE  IInv'
<1>1. TypeOK'
  BY CallsAssumption DEF IInv, TypeOK, FetchDone, Goto, Cell, Settled,
     Suspended, Holding
<1>2. CellInv'
  BY DEF IInv, TypeOK, CellInv, FetchDone, Goto, CallInv, KeyInv, Settled
<1>3. CallInv'
  BY CallsAssumption DEF IInv, TypeOK, CallInv, FetchDone, Goto, CellInv,
     Holding, Settled
<1>4. KeyInv'
  BY DEF IInv, TypeOK, KeyInv, FetchDone, Goto, Created
<1>5. SeenInv'
  BY DEF IInv, TypeOK, SeenInv, FetchDone, Goto, NoResult
<1>6. RemovedInv'
  BY DEF IInv, TypeOK, RemovedInv, FetchDone, Goto, KeyInv, Created
<1>7. ReportedInv'
  BY CallsAssumption DEF IInv, TypeOK, ReportedInv, FetchDone, Goto,
     CallInv, Holding, Result
<1>8. FreshInv'
  BY DEF IInv, TypeOK, FreshInv, FetchDone, Goto, Holding
<1>9. KnownInv'
  BY DEF IInv, TypeOK, KnownInv, FetchDone, Goto
<1>10. ErrorNotSticky'
  BY DEF IInv, TypeOK, ErrorNotSticky, FetchDone, Goto
<1>11. KnownIsServed'
  BY DEF IInv, TypeOK, KnownIsServed, FetchDone, Goto
<1>12. NoPoisonedEntry'
  BY DEF IInv, TypeOK, NoPoisonedEntry, FetchDone, Goto, CellInv, KeyInv,
     CallInv, Settled
<1> QED
  BY <1>1, <1>2, <1>3, <1>4, <1>5, <1>6, <1>7, <1>8, <1>9, <1>10, <1>11,
     <1>12 DEF IInv

LEMMA RemoveStep ==
  ASSUME IInv, NEW c \in Calls, Remove(c)
  PROVE  IInv'
<1>1. TypeOK'
  BY DEF IInv, TypeOK, Remove, Goto, Suspended, Holding
<1>2. CellInv'
  BY DEF IInv, TypeOK, CellInv, Remove, Goto, CallInv, KeyInv
<1>3. CallInv'
  BY DEF IInv, TypeOK, CallInv, Remove, Goto, CellInv, Holding
<1>4. KeyInv'
  BY DEF IInv, TypeOK, KeyInv, Remove, Goto, Created
<1>5. SeenInv'
  BY DEF IInv, TypeOK, SeenInv, Remove, Goto, NoResult
<1>6. RemovedInv'
  BY CallsAssumption DEF IInv, TypeOK, RemovedInv, Remove, Goto, KeyInv,
     Created, Holding
<1>7. ReportedInv'
  BY CallsAssumption DEF IInv, TypeOK, ReportedInv, Remove, Goto, Result,
     Holding
<1>8. FreshInv'
  BY DEF IInv, TypeOK, FreshInv, Remove, Goto, Holding
<1>9. KnownInv'
  BY DEF IInv, TypeOK, KnownInv, Remove, Goto
<1>10. ErrorNotSticky'
  BY DEF IInv, TypeOK, ErrorNotSticky, Remove, Goto
<1>11. KnownIsServed'
  BY DEF IInv, TypeOK, KnownIsServed, Remove, Goto
<1>12. NoPoisonedEntry'
  BY DEF IInv, TypeOK, NoPoisonedEntry, Remove, Goto, CellInv
<1> QED
  BY <1>1, <1>2, <1>3, <1>4, <1>5, <1>6, <1>7, <1>8, <1>9, <1>10, <1>11,
     <1>12 DEF IInv

LEMMA PublishStep ==
  ASSUME IInv, NEW c \in Calls, Publish(c)
  PROVE  IInv'
<1>1. TypeOK'
  BY CallsAssumption DEF IInv, TypeOK, Publish, Return, Goto, Cell,
     CallInv, CellInv, Settled, Result, Abis, Suspended, Holding
<1>2. CellInv'
  BY DEF IInv, TypeOK, CellInv, Publish, Return, Goto, CallInv, KeyInv
<1>3. CallInv'
  BY DEF IInv, TypeOK, CallInv, Publish, Return, Goto, CellInv, Holding
<1>4. KeyInv'
  BY DEF IInv, TypeOK, KeyInv, Publish, Return, Goto, Created
<1>5. SeenInv'
  BY DEF IInv, TypeOK, SeenInv, Publish, Return, Goto, NoResult
<1>6. RemovedInv'
  BY DEF IInv, TypeOK, RemovedInv, Publish, Return, Goto, KeyInv, Created
<1>7. ReportedInv'
  BY CallsAssumption DEF IInv, TypeOK, ReportedInv, Publish, Return, Goto,
     SeenInv, CellInv, CallInv, RemovedInv, Settled, Result, Holding,
     NoResult
<1>8. FreshInv'
  BY DEF IInv, TypeOK, FreshInv, Publish, Return, Goto, Holding, SeenInv
<1>9. KnownInv'
  BY CallsAssumption DEF IInv, TypeOK, KnownInv, Publish, Return, Goto,
     SeenInv, CellInv, CallInv, Abis, Settled, Holding, Cell, NoResult,
     Result
<1>10. ErrorNotSticky'
  BY DEF IInv, TypeOK, ErrorNotSticky, Publish, Return, Goto, FreshInv,
     CellInv, CallInv, SeenInv, Settled, Holding, Result
<1>11. KnownIsServed'
  BY DEF IInv, TypeOK, KnownIsServed, Publish, Return, Goto, SeenInv
<1>12. NoPoisonedEntry'
  BY DEF IInv, TypeOK, NoPoisonedEntry, Publish, Return, Goto, CellInv
<1> QED
  BY <1>1, <1>2, <1>3, <1>4, <1>5, <1>6, <1>7, <1>8, <1>9, <1>10, <1>11,
     <1>12 DEF IInv

LEMMA DropStep ==
  ASSUME IInv, NEW c \in Calls, Drop(c)
  PROVE  IInv'
<1>1. TypeOK'
  BY CallsAssumption DEF IInv, TypeOK, Drop, Return, Goto, Cell, Free,
     Result, Suspended, Holding, Settled
<1>2. CellInv'
  BY DEF IInv, TypeOK, CellInv, Drop, Return, Goto, CallInv, KeyInv, Free
<1>3. CallInv'
  BY CallsAssumption DEF IInv, TypeOK, CallInv, Drop, Return, Goto,
     CellInv, Holding, Settled, Free
<1>4. KeyInv'
  BY DEF IInv, TypeOK, KeyInv, Drop, Return, Goto, Created
<1>5. SeenInv'
  BY DEF IInv, TypeOK, SeenInv, Drop, Return, Goto, NoResult
<1>6. RemovedInv'
  BY DEF IInv, TypeOK, RemovedInv, Drop, Return, Goto, KeyInv, Created
<1>7. ReportedInv'
  BY CallsAssumption DEF IInv, TypeOK, ReportedInv, Drop, Return, Goto,
     CallInv, Holding, Result
<1>8. FreshInv'
  BY DEF IInv, TypeOK, FreshInv, Drop, Return, Goto, Holding
<1>9. KnownInv'
  BY DEF IInv, TypeOK, KnownInv, Drop, Return, Goto
<1>10. ErrorNotSticky'
  BY DEF IInv, TypeOK, ErrorNotSticky, Drop, Return, Goto, SeenInv
<1>11. KnownIsServed'
  BY DEF IInv, TypeOK, KnownIsServed, Drop, Return, Goto, SeenInv
<1>12. NoPoisonedEntry'
  BY CallsAssumption DEF IInv, TypeOK, NoPoisonedEntry, Drop, Return, Goto,
     CellInv, Free, Settled, CallInv
<1> QED
  BY <1>1, <1>2, <1>3, <1>4, <1>5, <1>6, <1>7, <1>8, <1>9, <1>10, <1>11,
     <1>12 DEF IInv

LEMMA SetAbiStep ==
  ASSUME IInv, NEW n \in Names, SetAbi(n)
  PROVE  IInv'
<1>1. TypeOK'
  BY CallsAssumption DEF IInv, TypeOK, SetAbi, Abis
<1>2. CellInv'
  BY DEF IInv, TypeOK, CellInv, SetAbi, CallInv, KeyInv
<1>3. CallInv'
  BY DEF IInv, TypeOK, CallInv, SetAbi, CellInv, Holding
<1>4. KeyInv'
  BY DEF IInv, TypeOK, KeyInv, SetAbi, Created
<1>5. SeenInv'
  BY DEF IInv, TypeOK, SeenInv, SetAbi, NoResult
<1>6. RemovedInv'
  BY DEF IInv, TypeOK, RemovedInv, SetAbi, KeyInv, Created
<1>7. ReportedInv'
  BY DEF IInv, TypeOK, ReportedInv, SetAbi
<1>8. FreshInv'
  BY DEF IInv, TypeOK, FreshInv, SetAbi, Holding
<1>9. KnownInv'
  BY CallsAssumption DEF IInv, TypeOK, KnownInv, SetAbi
<1>10. ErrorNotSticky'
  BY DEF IInv, TypeOK, ErrorNotSticky, SetAbi
<1>11. KnownIsServed'
  BY DEF IInv, TypeOK, KnownIsServed, SetAbi
<1>12. NoPoisonedEntry'
  BY DEF IInv, TypeOK, NoPoisonedEntry, SetAbi, CellInv
<1> QED
  BY <1>1, <1>2, <1>3, <1>4, <1>5, <1>6, <1>7, <1>8, <1>9, <1>10, <1>11,
     <1>12 DEF IInv

-----------------------------------------------------------------------------

LEMMA InitInv == Init => IInv
  BY CallsAssumption, NamesAssumption
  DEF Init, IInv, TypeOK, CellInv, CallInv, KeyInv, Created, SeenInv,
      RemovedInv, ReportedInv, FreshInv, KnownInv, ErrorNotSticky,
      KnownIsServed, NoPoisonedEntry, Abis, Cell, Free, Result, NoResult,
      Suspended, Holding, Settled

LEMMA StutterInv == IInv /\ UNCHANGED vars => IInv'
  BY DEF vars, IInv, TypeOK, CellInv, CallInv, KeyInv, Created, SeenInv,
         RemovedInv, ReportedInv, FreshInv, KnownInv, ErrorNotSticky,
         KnownIsServed, NoPoisonedEntry

LEMMA NextInv == IInv /\ [Next]_vars => IInv'
<1> SUFFICES ASSUME IInv, [Next]_vars PROVE IInv'
  OBVIOUS
<1>1. ASSUME NEW c \in Calls, Task(c) PROVE IInv'
  BY <1>1, LookupStep, EnterStep, RecheckStep, GetOrInitStep, FetchDoneStep,
     RemoveStep, PublishStep DEF Task
<1>2. ASSUME NEW c \in Calls, Drop(c) PROVE IInv'
  BY <1>2, DropStep
<1>3. ASSUME NEW n \in Names, SetAbi(n) PROVE IInv'
  BY <1>3, SetAbiStep
<1>4. CASE UNCHANGED vars
  BY <1>4, StutterInv
<1> QED
  BY <1>1, <1>2, <1>3, <1>4 DEF Next

LEMMA Invariance == Spec => []IInv
  BY InitInv, NextInv, PTL DEF Spec

\* The struct and the futures keep their shape, and a call that holds a
\* OnceCell holds one that exists.
THEOREM TypeCorrect == Spec => []TypeOK
<1>1. IInv => TypeOK
  BY DEF IInv
<1> QED
  BY <1>1, Invariance, PTL

\* An error of get_abi is never reported again to a call that began after
\* it was reported, on any runtime and whoever is dropped meanwhile.
THEOREM RetryableErrors == Spec => []ErrorNotSticky
<1>1. IInv => ErrorNotSticky
  BY DEF IInv
<1> QED
  BY <1>1, Invariance, PTL

\* Once a call returned an ABI, later calls for that account are answered
\* from the cache at once.
THEOREM ServedFromCache == Spec => []KnownIsServed
<1>1. IInv => KnownIsServed
  BY DEF IInv
<1> QED
  BY <1>1, Invariance, PTL

\* The pending map never keeps a settled OnceCell for the calls to come.
THEOREM NoStaleCell == Spec => []NoPoisonedEntry
<1>1. IInv => NoPoisonedEntry
  BY DEF IInv
<1> QED
  BY <1>1, Invariance, PTL

\* A waiter waits for a live fetch: dropping callers never strands it.
THEOREM PermitIsLive == Spec => []NoLostPermit
<1>1. IInv => NoLostPermit
  BY DEF IInv, CellInv, NoLostPermit
<1> QED
  BY <1>1, Invariance, PTL

\* An ABI for account n is the application's, or the answer of a request for n.
AnswerFor(n, from) ==
  \/ from = FromApp
  \/ /\ from \in Calls /\ name[from] = n
     /\ held[from] \in Calls /\ cell[held[from]] = [st |-> "ok", by |-> from]

\* What is stored for an account, and what a call for it returns, never comes
\* from a request for another account, nor from one that failed or was dropped.
AnswersBelong ==
  /\ \A n \in Names : cache[n] # None => AnswerFor(n, cache[n])
  /\ \A c \in Calls : result[c].kind = "ok" => AnswerFor(name[c], result[c].from)

\* An answer stays one: its call holds its cell for good, and the cell is settled.
LEMMA AnswersStay ==
  ASSUME IInv, [Next]_vars, NEW n, NEW from, AnswerFor(n, from)
  PROVE  AnswerFor(n, from)'
<1> SUFFICES ASSUME from \in Calls, name[from] = n, held[from] \in Calls,
                    cell[held[from]] = [st |-> "ok", by |-> from]
             PROVE  /\ name'[from] = n /\ held'[from] = held[from]
                    /\ cell'[held[from]] = cell[held[from]]
  BY DEF AnswerFor
<1> DEFINE k == held[from]
<1>1. pc[from] \notin {"idle", "entry"} /\ cell[k].st = "ok"
  BY CallsAssumption DEF IInv, KeyInv, Created
<1>2. name \in [Calls -> Names] /\ held \in [Calls -> Calls \cup {None}] /\ cell \in [Calls -> Cell]
  BY DEF IInv, TypeOK
<1>3. ASSUME NEW c \in Calls, NEW m \in Names, Lookup(c, m)
      PROVE  name'[from] = n /\ held' = held /\ cell' = cell
  BY <1>1, <1>2, <1>3 DEF Lookup
<1>4. ASSUME NEW c \in Calls, Enter(c)
      PROVE  name' = name /\ held'[from] = held[from] /\ cell' = cell
  BY <1>1, <1>2, <1>4 DEF Enter
<1>5. ASSUME NEW c \in Calls, Recheck(c) \/ Remove(c) \/ Publish(c)
      PROVE  UNCHANGED <<name, held, cell>>
  BY <1>5 DEF Recheck, Remove, Publish
<1>6. ASSUME NEW c \in Calls, GetOrInit(c)
      PROVE  name' = name /\ held' = held /\ cell'[k] = cell[k]
  BY <1>1, <1>2, <1>6 DEF GetOrInit
<1>7. ASSUME NEW c \in Calls, FetchDone(c)
      PROVE  name' = name /\ held' = held /\ cell'[k] = cell[k]
  <2>1. cell[held[c]].st = "busy"
    BY <1>7 DEF FetchDone, IInv, CallInv
  <2>. QED
    BY <1>1, <1>2, <1>7, <2>1 DEF FetchDone
<1>8. ASSUME NEW c \in Calls, Drop(c)
      PROVE  name' = name /\ held' = held /\ cell'[k] = cell[k]
  <2>1. pc[c] = "fetch" => cell[held[c]].st = "busy"
    BY DEF IInv, CallInv
  <2>. QED
    BY <1>1, <1>2, <1>8, <2>1 DEF Drop
<1>9. ASSUME NEW m \in Names, SetAbi(m)
      PROVE  UNCHANGED <<name, held, cell>>
  BY <1>9 DEF SetAbi
<1>10. CASE UNCHANGED vars
  BY <1>10 DEF vars
<1> HIDE DEF k
<1>. QED
  BY <1>3, <1>4, <1>5, <1>6, <1>7, <1>8, <1>9, <1>10 DEF Next, Task, k

LEMMA AnswersNext ==
  ASSUME IInv, AnswersBelong, [Next]_vars
  PROVE  AnswersBelong'
<1> DEFINE Stored == \A n \in Names : cache'[n] # None => AnswerFor(n, cache'[n])
           Returned == \A c \in Calls : result'[c].kind = "ok" =>
                         AnswerFor(name'[c], result'[c].from)
<1>1. SUFFICES Stored /\ Returned
  <2>1. ASSUME NEW n, NEW from, AnswerFor(n, from) PROVE AnswerFor(n, from)'
    BY <2>1, AnswersStay
  <2>. QED
    BY <2>1 DEF AnswersBelong, AnswerFor
<1>2. /\ result \in [Calls -> Result] /\ cache \in [Names -> Abis \cup {None}]
      /\ name \in [Calls -> Names]
      /\ \A c \in Calls : pc[c] # "done" => result[c].kind # "ok"
  BY DEF IInv, TypeOK, SeenInv, NoResult
<1>3. ASSUME NEW c \in Calls, NEW n \in Names, Lookup(c, n) PROVE Stored /\ Returned
  <2>1. /\ cache' = cache /\ name' = [name EXCEPT ![c] = n] /\ pc[c] = "idle"
        /\ \A d \in Calls \ {c} : result'[d] = result[d]
    BY <1>2, <1>3 DEF Lookup, Return
  <2>2. result'[c].kind = "ok" => cache[n] # None /\ result'[c].from = cache[n]
    BY <1>2, <1>3, <2>1 DEF Lookup, Return
  <2>3. result'[c].kind = "ok" => AnswerFor(n, result'[c].from)
    BY <2>2 DEF AnswersBelong
  <2>. QED
    BY <1>2, <2>1, <2>3 DEF AnswersBelong
<1>4. ASSUME NEW c \in Calls, Recheck(c) PROVE Stored /\ Returned
  <2>1. /\ cache' = cache /\ name' = name
        /\ \A d \in Calls \ {c} : result'[d] = result[d]
    BY <1>2, <1>4 DEF Recheck, Return
  <2>2. result'[c].kind = "ok" =>
          cache[name[c]] # None /\ result'[c].from = cache[name[c]]
    BY <1>2, <1>4 DEF Recheck, Return
  <2>3. result'[c].kind = "ok" => AnswerFor(name[c], result'[c].from)
    BY <1>2, <2>2 DEF AnswersBelong
  <2>. QED
    BY <1>2, <2>1, <2>3 DEF AnswersBelong
<1>5. ASSUME NEW c \in Calls, Publish(c) PROVE Stored /\ Returned
  <2> DEFINE k == held[c]
             v == cell[k]
  <2>1. /\ name' = name /\ UNCHANGED <<held, cell>>
        /\ k \in Calls /\ cell \in [Calls -> Cell] /\ v.st \in Settled
        /\ result' = [result EXCEPT ![c] = [kind |-> v.st, from |-> v.by]]
        /\ \/ v.st = "ok" /\ cache' = [cache EXCEPT ![name[c]] = v.by]
           \/ v.st = "err" /\ cache' = cache
    BY <1>5 DEF Publish, Return, IInv, TypeOK, Holding, CallInv
  <2>2. v.by \in Calls /\ held[v.by] = k /\ name[v.by] = name[c]
    BY <2>1, CallsAssumption DEF IInv, CellInv, KeyInv, Settled
  <2>3. v.st = "ok" => AnswerFor(name[c], v.by)
    BY <2>1, <2>2 DEF AnswerFor, Cell
  <2>4. \A d \in Calls \ {c} : result'[d] = result[d]
    BY <2>1
  <2>5. result'[c] = [kind |-> v.st, from |-> v.by]
    BY <1>2, <2>1
  <2> HIDE DEF v
  <2>. QED
    BY <1>2, <2>1, <2>3, <2>4, <2>5 DEF AnswersBelong
<1>6. ASSUME NEW c \in Calls, Drop(c) PROVE Stored /\ Returned
  BY <1>2, <1>6 DEF Drop, Return, AnswersBelong
<1>7. ASSUME NEW c \in Calls, Enter(c) \/ GetOrInit(c) \/ FetchDone(c) \/ Remove(c)
      PROVE  Stored /\ Returned
  BY <1>7 DEF Enter, GetOrInit, FetchDone, Remove, AnswersBelong
<1>8. ASSUME NEW n \in Names, SetAbi(n) PROVE Stored /\ Returned
  BY <1>2, <1>8 DEF SetAbi, AnswerFor, AnswersBelong
<1>9. CASE UNCHANGED vars
  BY <1>9 DEF vars, AnswersBelong
<1> HIDE DEF Stored, Returned
<1>. QED
  BY <1>3, <1>4, <1>5, <1>6, <1>7, <1>8, <1>9 DEF Next, Task

\* get_abi never mixes accounts or requests up, on any runtime.
THEOREM RightAnswers == Spec => []AnswersBelong
<1>1. Init => AnswersBelong
  BY DEF Init, AnswersBelong, NoResult
<1>. QED
  BY <1>1, AnswersNext, Invariance, PTL DEF Spec

-----------------------------------------------------------------------------
(* One executor thread and an upstream node that answers: one request per *)
(* account, however many calls ask and however many of them are dropped.  *)

\* One call at a time is inside a poll.
PollInv == \A c, d \in Calls : pc[c] \notin Suspended /\ pc[d] \notin Suspended => c = d

NoErrInv == \A k \in Calls : cell[k].st # "err"

\* A call that reads the cache and finds nothing stays in that poll, so that
\* nothing is there when it comes to the permit either.
UnknownInv == \A c \in Calls : pc[c] \in {"entry", "recheck", "get"} => cache[name[c]] = None

\* All the calls for one account hold the same cell, ...
SharedInv ==
  \A c, d \in Calls :
    held[c] # None /\ held[d] # None /\ name[c] = name[d] => held[c] = held[d]

\* ... and it stays registered until the ABI is known, or is about to be.
KeptInv ==
  \A c \in Calls : held[c] # None =>
    \/ pending[name[c]] = held[c]
    \/ cache[name[c]] # None
    \/ \E d \in Calls : pc[d] = "publish" /\ name[d] = name[c]

OneInv == PollInv /\ NoErrInv /\ UnknownInv /\ SharedInv /\ KeptInv

LEMMA OneInit == Init => OneInv
BY DEF Init, OneInv, PollInv, NoErrInv, UnknownInv, SharedInv, KeptInv, Suspended, Free

LEMMA OneLookup ==
  ASSUME IInv, OneInv, ~MultiThread, NEW c \in Calls, NEW n \in Names, Lookup(c, n)
  PROVE  OneInv'
<1>1. \A d \in Calls \ {c} : pc[d] \in Suspended
  BY DEF Lookup, MayStep, ThreadFree
<1>2. held[c] = None
  BY DEF Lookup, IInv, KeyInv, Created
<1>3. PollInv'
  BY <1>1 DEF IInv, TypeOK, PollInv, Lookup, Goto, Return
<1>4. NoErrInv'
  BY DEF OneInv, NoErrInv, Lookup
<1>5. UnknownInv'
  BY DEF IInv, TypeOK, OneInv, UnknownInv, Lookup, Goto, Return
<1>6. SharedInv'
  BY <1>2 DEF IInv, TypeOK, OneInv, SharedInv, Lookup
<1>7. KeptInv'
  BY <1>1, <1>2 DEF IInv, TypeOK, OneInv, KeptInv, Lookup, Goto, Return, Suspended
<1>. QED
  BY <1>3, <1>4, <1>5, <1>6, <1>7 DEF OneInv

\* The cell that a call takes is the one the others of the account hold.
LEMMA OneEnter ==
  ASSUME IInv, OneInv, ~MultiThread, NEW c \in Calls, Enter(c)
  PROVE  OneInv'
<1>1. \A d \in Calls \ {c} : pc[d] \in Suspended
  BY DEF Enter, MayStep, ThreadFree
<1>2. pc[c] = "entry" /\ cache[name[c]] = None
  BY DEF Enter, OneInv, UnknownInv
<1>3. \A d \in Calls : held[d] # None /\ name[d] = name[c] => pending[name[c]] = held[d]
  BY <1>1, <1>2 DEF OneInv, KeptInv, Suspended
<1> DEFINE k == IF pending[name[c]] = None THEN c ELSE pending[name[c]]
<1>4. /\ pending' = [pending EXCEPT ![name[c]] = k] /\ held' = [held EXCEPT ![c] = k]
      /\ pc' = [pc EXCEPT ![c] = "recheck"]
      /\ UNCHANGED <<cache, cell, name>>
  BY DEF Enter, Goto
<1>5. k # None /\ \A d \in Calls : held[d] # None /\ name[d] = name[c] => held[d] = k
  BY <1>3, CallsAssumption
<1> HIDE DEF k
<1>6. PollInv'
  BY <1>1, <1>4 DEF IInv, TypeOK, PollInv
<1>7. NoErrInv' /\ UnknownInv'
  BY <1>2, <1>4 DEF IInv, TypeOK, OneInv, NoErrInv, UnknownInv
<1>8. SharedInv'
  BY <1>4, <1>5 DEF IInv, TypeOK, OneInv, SharedInv
<1>9. KeptInv'
  <2> SUFFICES ASSUME NEW d \in Calls, held'[d] # None
               PROVE  \/ pending'[name[d]] = held'[d]
                      \/ cache[name[d]] # None
                      \/ \E e \in Calls : pc'[e] = "publish" /\ name[e] = name[d]
    BY <1>4 DEF KeptInv
  <2>1. CASE name[d] = name[c]
    BY <1>4, <1>5, <2>1 DEF IInv, TypeOK
  <2>2. CASE name[d] # name[c]
    BY <1>2, <1>4, <2>2 DEF IInv, TypeOK, OneInv, KeptInv
  <2>. QED
    BY <2>1, <2>2
<1>. QED
  BY <1>6, <1>7, <1>8, <1>9 DEF OneInv

LEMMA OneRecheck ==
  ASSUME IInv, OneInv, ~MultiThread, NEW c \in Calls, Recheck(c)
  PROVE  OneInv'
<1>1. \A d \in Calls \ {c} : pc[d] \in Suspended
  BY DEF Recheck, MayStep, ThreadFree
<1>2. PollInv'
  BY <1>1 DEF IInv, TypeOK, PollInv, Recheck, Goto, Return
<1>3. NoErrInv' /\ SharedInv'
  BY DEF OneInv, NoErrInv, SharedInv, Recheck
<1>4. UnknownInv'
  BY DEF IInv, TypeOK, OneInv, UnknownInv, Recheck, Goto, Return
<1>5. KeptInv'
  BY <1>1 DEF IInv, TypeOK, OneInv, KeptInv, Recheck, Goto, Return, Suspended
<1>. QED
  BY <1>2, <1>3, <1>4, <1>5 DEF OneInv

LEMMA OneGetOrInit ==
  ASSUME IInv, OneInv, ~MultiThread, NEW c \in Calls, GetOrInit(c)
  PROVE  OneInv'
<1>1. \A d \in Calls \ {c} : pc[d] \in Suspended
  BY DEF GetOrInit, MayStep, ThreadFree
<1>2. PollInv'
  BY <1>1 DEF IInv, TypeOK, PollInv, GetOrInit, Goto
<1>3. NoErrInv' /\ SharedInv'
  BY DEF IInv, TypeOK, OneInv, NoErrInv, SharedInv, GetOrInit
<1>4. UnknownInv'
  BY DEF IInv, TypeOK, OneInv, UnknownInv, GetOrInit, Goto
<1>5. KeptInv'
  BY <1>1 DEF IInv, TypeOK, OneInv, KeptInv, GetOrInit, Goto, Suspended
<1>. QED
  BY <1>2, <1>3, <1>4, <1>5 DEF OneInv

LEMMA OneFetchDone ==
  ASSUME IInv, OneInv, ~MultiThread, ~MayFail, NEW c \in Calls, FetchDone(c)
  PROVE  OneInv'
<1>1. \A d \in Calls \ {c} : pc[d] \in Suspended
  BY DEF FetchDone, MayStep, ThreadFree
<1>2. PollInv'
  BY <1>1 DEF IInv, TypeOK, PollInv, FetchDone, Goto
<1>3. NoErrInv' /\ SharedInv'
  BY DEF IInv, TypeOK, OneInv, NoErrInv, SharedInv, FetchDone
<1>4. UnknownInv'
  BY DEF IInv, TypeOK, OneInv, UnknownInv, FetchDone, Goto
<1>5. KeptInv'
  BY <1>1 DEF IInv, TypeOK, OneInv, KeptInv, FetchDone, Goto, Suspended
<1>. QED
  BY <1>2, <1>3, <1>4, <1>5 DEF OneInv

LEMMA OneRemove ==
  ASSUME IInv, OneInv, ~MultiThread, NEW c \in Calls, Remove(c)
  PROVE  OneInv'
<1>1. \A d \in Calls \ {c} : pc[d] \in Suspended
  BY DEF Remove, MayStep, ThreadFree
<1>2. PollInv'
  BY <1>1 DEF IInv, TypeOK, PollInv, Remove, Goto
<1>3. NoErrInv' /\ SharedInv'
  BY DEF OneInv, NoErrInv, SharedInv, Remove
<1>4. UnknownInv'
  BY DEF IInv, TypeOK, OneInv, UnknownInv, Remove, Goto
<1>5. KeptInv'
  <2> SUFFICES ASSUME NEW d \in Calls, held[d] # None
               PROVE  \/ pending'[name[d]] = held[d]
                      \/ cache[name[d]] # None
                      \/ \E e \in Calls : pc'[e] = "publish" /\ name[e] = name[d]
    BY DEF KeptInv, Remove
  <2>1. pc' = [pc EXCEPT ![c] = "publish"] /\ pending' = [pending EXCEPT ![name[c]] = None]
    BY DEF Remove, Goto
  <2>2. pc[c] # "publish"
    BY DEF Remove
  <2>3. CASE name[d] = name[c]
    BY <2>1, <2>3 DEF IInv, TypeOK
  <2>4. CASE name[d] # name[c]
    BY <2>1, <2>2, <2>4 DEF IInv, TypeOK, OneInv, KeptInv
  <2>. QED
    BY <2>3, <2>4
<1>. QED
  BY <1>2, <1>3, <1>4, <1>5 DEF OneInv

LEMMA OnePublish ==
  ASSUME IInv, OneInv, ~MultiThread, NEW c \in Calls, Publish(c)
  PROVE  OneInv'
<1>1. \A d \in Calls \ {c} : pc[d] \in Suspended
  BY DEF Publish, MayStep, ThreadFree
<1>2. /\ pc[c] = "publish" /\ pc' = [pc EXCEPT ![c] = "done"]
      /\ UNCHANGED <<pending, cell, name, held>>
  BY DEF Publish, Return, Goto
<1>3. held[c] \in Calls
  BY <1>2 DEF IInv, TypeOK, Holding
<1>4. cell[held[c]].st = "ok" /\ cell[held[c]].by \in Calls
  BY <1>2, <1>3 DEF IInv, CallInv, CellInv, OneInv, NoErrInv, Settled
<1>5. cache' = [cache EXCEPT ![name[c]] = cell[held[c]].by]
  BY <1>4 DEF Publish
<1>6. cell[held[c]].by # None
  BY <1>4, CallsAssumption
<1>7. PollInv'
  BY <1>1, <1>2 DEF IInv, TypeOK, PollInv, Suspended
<1>8. NoErrInv' /\ SharedInv'
  BY <1>2 DEF OneInv, NoErrInv, SharedInv
<1>9. UnknownInv'
  BY <1>1, <1>2 DEF IInv, TypeOK, UnknownInv, Suspended
<1>10. KeptInv'
  <2> SUFFICES ASSUME NEW d \in Calls, held[d] # None
               PROVE  \/ pending[name[d]] = held[d]
                      \/ cache'[name[d]] # None
                      \/ \E e \in Calls : pc'[e] = "publish" /\ name[e] = name[d]
    BY <1>2 DEF KeptInv
  <2>1. CASE name[d] = name[c]
    BY <1>5, <1>6, <2>1 DEF IInv, TypeOK
  <2>2. CASE name[d] # name[c]
    BY <1>2, <1>5, <2>2 DEF IInv, TypeOK, OneInv, KeptInv
  <2>. QED
    BY <2>1, <2>2
<1>. QED
  BY <1>7, <1>8, <1>9, <1>10 DEF OneInv

LEMMA OneDrop ==
  ASSUME IInv, OneInv, ~MultiThread, NEW c \in Calls, Drop(c)
  PROVE  OneInv'
<1>1. \A d \in Calls \ {c} : pc[d] \in Suspended
  BY DEF Drop, MayStep, ThreadFree
<1>2. PollInv'
  BY <1>1 DEF IInv, TypeOK, PollInv, Drop, Return, Goto, Suspended
<1>3. NoErrInv' /\ SharedInv'
  BY DEF IInv, TypeOK, OneInv, NoErrInv, SharedInv, Drop, Free
<1>4. UnknownInv'
  BY DEF IInv, TypeOK, OneInv, UnknownInv, Drop, Return, Goto
<1>5. KeptInv'
  BY <1>1 DEF IInv, TypeOK, OneInv, KeptInv, Drop, Return, Goto, Suspended
<1>. QED
  BY <1>2, <1>3, <1>4, <1>5 DEF OneInv

LEMMA OneSetAbi ==
  ASSUME IInv, OneInv, ~MultiThread, NEW n \in Names, SetAbi(n)
  PROVE  OneInv'
<1>1. \A d \in Calls : pc[d] \in Suspended
  BY DEF SetAbi, ThreadFree
<1>2. PollInv' /\ NoErrInv' /\ SharedInv'
  BY DEF OneInv, PollInv, NoErrInv, SharedInv, SetAbi
<1>3. UnknownInv'
  BY <1>1 DEF UnknownInv, SetAbi, Suspended
<1>4. KeptInv'
  BY CallsAssumption DEF IInv, TypeOK, OneInv, KeptInv, SetAbi
<1>. QED
  BY <1>2, <1>3, <1>4 DEF OneInv

LEMMA OneNext ==
  ASSUME ~MultiThread, ~MayFail
  PROVE  IInv /\ OneInv /\ [Next]_vars => OneInv'
<1> SUFFICES ASSUME IInv, OneInv, [Next]_vars PROVE OneInv'
  OBVIOUS
<1>1. ASSUME NEW c \in Calls, Task(c) PROVE OneInv'
  BY <1>1, OneLookup, OneEnter, OneRecheck, OneGetOrInit, OneFetchDone, OneRemove, OnePublish
     DEF Task
<1>2. ASSUME NEW c \in Calls, Drop(c) PROVE OneInv'
  BY <1>2, OneDrop
<1>3. ASSUME NEW n \in Names, SetAbi(n) PROVE OneInv'
  BY <1>3, OneSetAbi
<1>4. CASE UNCHANGED vars
  BY <1>4 DEF vars, OneInv, PollInv, NoErrInv, UnknownInv, SharedInv, KeptInv
<1>. QED
  BY <1>1, <1>2, <1>3, <1>4 DEF Next

\* Two calls that fetch for one account hold one cell, and so are one call.
LEMMA OneFetch == IInv /\ OneInv => OneFetchInFlight
<1> SUFFICES ASSUME IInv, OneInv, NEW c \in Calls, NEW d \in Calls,
                    pc[c] = "fetch", pc[d] = "fetch", name[c] = name[d]
             PROVE  c = d
  BY DEF OneFetchInFlight
<1>1. held[c] # None /\ held[d] # None
  BY CallsAssumption DEF IInv, TypeOK, Holding
<1>2. held[c] = held[d]
  BY <1>1 DEF OneInv, SharedInv
<1>. QED
  BY <1>2 DEF IInv, CallInv

\* On one executor thread, and as long as the node answers, two requests for
\* one account are never under way at the same time, whoever is dropped.
THEOREM Coalesced ==
  ASSUME ~MultiThread, ~MayFail
  PROVE  Spec => []OneFetchInFlight
<1>1. Init => OneInv
  BY OneInit
<1>2. IInv /\ OneInv /\ [Next]_vars => OneInv'
  BY OneNext
<1>. QED
  BY <1>1, <1>2, OneFetch, Invariance, PTL DEF Spec

\* One successful request per account, however many calls ask for it.
FetchedOnce ==
  \A k, l \in Calls :
    (cell[k].st = "ok" /\ cell[l].st = "ok" /\ name[k] = name[l]) => k = l

\* On one executor thread, and as long as the node answers, an account is
\* fetched successfully once in the life of the cache.
THEOREM OneRequest ==
  ASSUME ~MultiThread, ~MayFail
  PROVE  Spec => []FetchedOnce
<1>1. IInv /\ OneInv => FetchedOnce
  <2> SUFFICES ASSUME IInv, OneInv, NEW k \in Calls, NEW l \in Calls,
                      cell[k].st = "ok", cell[l].st = "ok", name[k] = name[l]
               PROVE  k = l
    BY DEF FetchedOnce
  <2> DEFINE c == cell[k].by
             d == cell[l].by
  <2>1. c \in Calls /\ d \in Calls /\ held[c] = k /\ held[d] = l
    BY DEF IInv, CellInv
  <2>2. k # None /\ l # None
    BY CallsAssumption
  <2> HIDE DEF c, d
  <2>3. name[c] = name[k] /\ name[d] = name[l]
    BY <2>1, <2>2 DEF IInv, KeyInv
  <2>. QED
    BY <2>1, <2>2, <2>3 DEF OneInv, SharedInv
<1>2. Init => OneInv
  BY OneInit
<1>3. IInv /\ OneInv /\ [Next]_vars => OneInv'
  BY OneNext
<1>. QED
  BY <1>1, <1>2, <1>3, Invariance, PTL DEF Spec

-----------------------------------------------------------------------------
(* On one executor thread, and as long as the node answers, the cache is   *)
(* single flight: every step is a step of SingleFlight or changes nothing  *)
(* that the application sees.                                              *)

Seen == <<cache, online, flight, answer, status, name, result>>

\* The calls whose request was answered are those their cell names.
HasAnswer(c) == held[c] \in Calls /\ cell[held[c]] = [st |-> "ok", by |-> c]

LEMMA SeenSame ==
  ASSUME UNCHANGED <<cache, online, result, name>>,
         \A d \in Calls : pc'[d] = "fetch" <=> pc[d] = "fetch",
         \A d \in Calls : HasAnswer(d)' <=> HasAnswer(d),
         status' = status
  PROVE  UNCHANGED Seen
<1>1. flight' = flight
  BY DEF flight
<1>2. answer' = answer
  BY DEF answer, HasAnswer
<1>. QED
  BY <1>1, <1>2 DEF Seen

LEMMA LookupRefines ==
  ASSUME IInv, NEW c \in Calls, NEW n \in Names, Lookup(c, n)
  PROVE  SF!Hit(c, n) \/ SF!Offline(c, n) \/ SF!Ask(c, n)
<1>1. /\ pc[c] = "idle" /\ pc \in [Calls -> Suspended \cup Holding \cup {"entry"}]
      /\ name \in [Calls -> Names] /\ name' = [name EXCEPT ![c] = n]
      /\ UNCHANGED <<cache, online, cell, held>>
  BY DEF Lookup, IInv, TypeOK
<1>2. held[c] = None
  BY <1>1 DEF IInv, TypeOK, KeyInv, Created
<1>3. /\ \A d \in Calls \ {c} : pc'[d] = pc[d] /\ name'[d] = name[d]
      /\ pc'[c] \in {"done", "entry"}
  BY <1>1 DEF Lookup, Return, Goto
<1>4. flight' = flight
  BY <1>1, <1>3 DEF flight
<1>5. answer' = answer
  BY <1>1, <1>2, <1>3, CallsAssumption DEF answer
<1>6. status[c] = "idle"
  BY <1>1 DEF status
<1>7. \A l \in {"done", "entry"} : Goto(c, l) =>
        status' = [status EXCEPT ![c] = IF l = "done" THEN "done" ELSE "asked"]
  BY <1>1 DEF Goto, status
<1>8. CASE cache[n] # None /\ Return(c, "ok", cache[n])
  BY <1>1, <1>4, <1>5, <1>6, <1>7, <1>8 DEF SF!Hit, SF!Return, SF!Becomes, Return
<1>9. CASE cache[n] = None /\ ~online /\ Return(c, "no_client", None)
  BY <1>1, <1>4, <1>5, <1>6, <1>7, <1>9 DEF SF!Offline, SF!Return, SF!Becomes, Return
<1>10. CASE cache[n] = None /\ online /\ Goto(c, "entry") /\ UNCHANGED result
  BY <1>1, <1>4, <1>5, <1>6, <1>7, <1>10 DEF SF!Ask, SF!Becomes
<1>. QED
  BY <1>8, <1>9, <1>10 DEF Lookup

LEMMA EnterRefines ==
  ASSUME IInv, NEW c \in Calls, Enter(c)
  PROVE  UNCHANGED Seen
<1>1. /\ pc[c] = "entry" /\ pc \in [Calls -> Suspended \cup Holding \cup {"entry"}]
      /\ pc' = [pc EXCEPT ![c] = "recheck"]
      /\ UNCHANGED <<cache, online, cell, name, result>>
  BY DEF Enter, Goto, IInv, TypeOK
<1>2. held[c] = None /\ held \in [Calls -> Calls \cup {None}]
  BY <1>1 DEF IInv, TypeOK, KeyInv, Created
<1>3. \A d \in Calls \ {c} : held'[d] = held[d]
  BY <1>2 DEF Enter
<1>4. ~HasAnswer(c) /\ ~HasAnswer(c)'
  <2>1. \A k \in Calls : cell[k] # [st |-> "ok", by |-> c]
    BY <1>2, CallsAssumption DEF IInv, CellInv
  <2>. QED
    BY <1>1, <2>1 DEF HasAnswer
<1>5. \A d \in Calls : HasAnswer(d)' <=> HasAnswer(d)
  BY <1>1, <1>3, <1>4 DEF HasAnswer
<1>6. status' = status
  BY <1>1 DEF status
<1>. QED
  BY <1>1, <1>5, <1>6, SeenSame

LEMMA RecheckRefines ==
  ASSUME IInv, OneInv, NEW c \in Calls, Recheck(c)
  PROVE  UNCHANGED Seen
<1>1. /\ pc[c] = "recheck" /\ pc \in [Calls -> Suspended \cup Holding \cup {"entry"}]
      /\ pc' = [pc EXCEPT ![c] = "get"]
      /\ UNCHANGED <<cache, online, cell, name, held, result>>
  BY DEF Recheck, Goto, IInv, TypeOK, OneInv, UnknownInv
<1>2. \A d \in Calls : HasAnswer(d)' <=> HasAnswer(d)
  BY <1>1 DEF HasAnswer
<1>3. status' = status
  BY <1>1 DEF status
<1>. QED
  BY <1>1, <1>2, <1>3, SeenSame

LEMMA GetOrInitRefines ==
  ASSUME IInv, OneInv, NEW c \in Calls, GetOrInit(c)
  PROVE  SF!TakeOff(c) \/ UNCHANGED Seen
<1> DEFINE k == held[c]
<1>1. /\ pc[c] \in {"get", "join"} /\ pc \in [Calls -> Suspended \cup Holding \cup {"entry"}]
      /\ UNCHANGED <<cache, online, name, held, result>>
      /\ k \in Calls /\ cell \in [Calls -> Cell] /\ name \in [Calls -> Names]
  BY DEF GetOrInit, IInv, TypeOK, Holding
<1>2. CASE cell[k].st \in Settled \/ cell[k].st = "busy"
  <2>1. UNCHANGED cell /\ \E l \in {"remove", "join"} : pc' = [pc EXCEPT ![c] = l]
    BY <1>1, <1>2 DEF GetOrInit, Goto, Settled
  <2>2. \A d \in Calls : HasAnswer(d)' <=> HasAnswer(d)
    BY <1>1, <2>1 DEF HasAnswer
  <2>3. status' = status
    BY <1>1, <2>1 DEF status
  <2>. QED
    BY <1>1, <2>1, <2>2, <2>3, SeenSame
<1>3. CASE cell[k].st = "free"
  <2>1. /\ cell' = [cell EXCEPT ![k] = [st |-> "busy", by |-> c]]
        /\ pc' = [pc EXCEPT ![c] = "fetch"]
    BY <1>3 DEF GetOrInit, Goto, Settled
  <2>2. \A d \in Calls : held[d] # None /\ name[d] = name[c] => held[d] = k
    BY <1>1, CallsAssumption DEF OneInv, SharedInv
  <2>3. flight[name[c]] = {}
    <3>1. \A d \in Calls : pc[d] = "fetch" => held[d] # None /\ cell[held[d]].st = "busy"
      BY CallsAssumption DEF IInv, TypeOK, CallInv, Holding
    <3>. QED
      BY <1>1, <1>3, <2>2, <3>1 DEF flight
  <2>4. answer[name[c]] = {}
    <3>1. \A d \in Calls : HasAnswer(d) => held[d] # None /\ cell[held[d]].st = "ok"
      BY CallsAssumption DEF HasAnswer
    <3>. QED
      BY <1>1, <1>3, <2>2, <3>1 DEF answer, HasAnswer
  <2>5. flight' = [flight EXCEPT ![name[c]] = {c}]
    <3>1. \A n \in Names :
            {d \in Calls : pc'[d] = "fetch" /\ name[d] = n} =
              IF n = name[c] THEN {c} ELSE {d \in Calls : pc[d] = "fetch" /\ name[d] = n}
      BY <1>1, <2>1, <2>3 DEF flight
    <3>. QED
      BY <1>1, <3>1 DEF flight
  <2>6. answer' = answer
    <3>1. \A d \in Calls : HasAnswer(d)' <=> HasAnswer(d)
      BY <1>1, <1>3, <2>1 DEF HasAnswer
    <3>. QED
      BY <1>1, <3>1 DEF answer, HasAnswer
  <2>7. status' = status /\ status[c] = "asked"
    BY <1>1, <2>1 DEF status
  <2>. QED
    BY <1>1, <2>3, <2>4, <2>5, <2>6, <2>7 DEF SF!TakeOff
<1>. QED
  BY <1>1, <1>2, <1>3 DEF Cell, Settled

LEMMA FetchDoneRefines ==
  ASSUME IInv, OneInv, ~MayFail, NEW c \in Calls, FetchDone(c)
  PROVE  SF!Land(c)
<1> DEFINE k == held[c]
           ok == [st |-> "ok", by |-> c]
<1>1. /\ pc[c] = "fetch" /\ pc \in [Calls -> Suspended \cup Holding \cup {"entry"}]
      /\ pc' = [pc EXCEPT ![c] = "remove"] /\ cell' = [cell EXCEPT ![k] = ok]
      /\ UNCHANGED <<cache, online, name, held, result>>
      /\ k \in Calls /\ cell \in [Calls -> Cell] /\ name \in [Calls -> Names]
      /\ cell[k].st = "busy" /\ held \in [Calls -> Calls \cup {None}]
  BY DEF FetchDone, Goto, IInv, TypeOK, Holding, CallInv
<1>2. \A d \in Calls : held[d] # None /\ name[d] = name[c] => held[d] = k
  BY <1>1, CallsAssumption DEF OneInv, SharedInv
<1>3. \A d \in Calls : held[d] = k => name[d] = name[c]
  BY <1>1, CallsAssumption DEF IInv, KeyInv
<1>4. \A d \in Calls : pc[d] = "fetch" /\ name[d] = name[c] => d = c
  BY <1>1, OneFetch DEF OneFetchInFlight
<1>5. flight[name[c]] = {c}
  BY <1>1, <1>4 DEF flight
<1>6. flight' = [flight EXCEPT ![name[c]] = {}]
  <2> DEFINE flying(n) == {d \in Calls : pc[d] = "fetch" /\ name[d] = n}
  <2>1. flight = [n \in Names |-> flying(n)] /\ flight' = [n \in Names |-> flying(n)']
    BY DEF flight
  <2>2. \A d \in Calls : pc'[d] = "fetch" <=> pc[d] = "fetch" /\ d # c
    BY <1>1
  <2>3. \A n \in Names : flying(n)' = IF n = name[c] THEN {} ELSE flying(n)
    BY <1>1, <1>4, <2>2
  <2> HIDE DEF flying
  <2>. QED
    BY <1>1, <2>1, <2>3
<1>7. answer' = [answer EXCEPT ![name[c]] = {c}]
  <2>1. \A d \in Calls : name[d] = name[c] => (HasAnswer(d)' <=> d = c)
    BY <1>1, <1>2, CallsAssumption DEF HasAnswer
  <2>2. \A d \in Calls : name[d] # name[c] => (HasAnswer(d)' <=> HasAnswer(d))
    BY <1>1, <1>3 DEF HasAnswer
  <2> DEFINE answered(n) == {d \in Calls : HasAnswer(d) /\ name[d] = n}
  <2>3. answer = [n \in Names |-> answered(n)] /\ answer' = [n \in Names |-> answered(n)']
    BY DEF answer, HasAnswer
  <2>4. \A n \in Names : answered(n)' = IF n = name[c] THEN {c} ELSE answered(n)
    BY <1>1, <2>1, <2>2
  <2> HIDE DEF answered
  <2>. QED
    BY <1>1, <2>3, <2>4
<1>8. status' = status
  BY <1>1 DEF status
<1>. QED
  BY <1>1, <1>5, <1>6, <1>7, <1>8 DEF SF!Land

LEMMA RemoveRefines ==
  ASSUME IInv, NEW c \in Calls, Remove(c)
  PROVE  UNCHANGED Seen
<1>1. /\ pc[c] = "remove" /\ pc \in [Calls -> Suspended \cup Holding \cup {"entry"}]
      /\ pc' = [pc EXCEPT ![c] = "publish"]
      /\ UNCHANGED <<cache, online, cell, name, held, result>>
  BY DEF Remove, Goto, IInv, TypeOK
<1>2. \A d \in Calls : HasAnswer(d)' <=> HasAnswer(d)
  BY <1>1 DEF HasAnswer
<1>3. status' = status
  BY <1>1 DEF status
<1>. QED
  BY <1>1, <1>2, <1>3, SeenSame

LEMMA PublishRefines ==
  ASSUME IInv, OneInv, NEW c \in Calls, Publish(c)
  PROVE  SF!Answered(c)
<1> DEFINE k == held[c]
           from == cell[k].by
<1>1. /\ pc[c] = "publish" /\ pc \in [Calls -> Suspended \cup Holding \cup {"entry"}]
      /\ UNCHANGED <<online, cell, name, held>>
      /\ k \in Calls /\ cell \in [Calls -> Cell] /\ name \in [Calls -> Names]
  BY DEF Publish, IInv, TypeOK, Holding
<1>2. cell[k].st = "ok" /\ from \in Calls /\ held[from] = k
  BY <1>1 DEF IInv, CallInv, CellInv, OneInv, NoErrInv, Settled
<1>3. cell[k] = [st |-> "ok", by |-> from]
  BY <1>1, <1>2 DEF Cell
<1>4. Return(c, "ok", from) /\ cache' = [cache EXCEPT ![name[c]] = from]
  BY <1>2 DEF Publish
<1>5. name[from] = name[c]
  BY <1>1, <1>2, CallsAssumption DEF IInv, KeyInv
<1>6. \A d \in Calls : held[d] # None /\ name[d] = name[c] => held[d] = k
  BY <1>1, CallsAssumption DEF OneInv, SharedInv
<1>7. answer[name[c]] = {from}
  <2>1. \A d \in Calls : HasAnswer(d) /\ name[d] = name[c] => d = from
    BY <1>6, CallsAssumption DEF HasAnswer
  <2>2. HasAnswer(from)
    BY <1>1, <1>2, <1>3 DEF HasAnswer
  <2> HIDE DEF from, k
  <2>. QED
    BY <1>1, <1>2, <1>5, <2>1, <2>2 DEF answer, HasAnswer
<1>8. pc' = [pc EXCEPT ![c] = "done"]
      /\ result' = [result EXCEPT ![c] = [kind |-> "ok", from |-> from]]
  BY <1>4 DEF Return, Goto
<1>9. flight' = flight
  BY <1>1, <1>8 DEF flight
<1>10. answer' = answer
  BY <1>1 DEF answer
<1>11. status[c] = "asked" /\ status' = [status EXCEPT ![c] = "done"]
  BY <1>1, <1>8 DEF status
<1> HIDE DEF from
<1>. QED
  BY <1>1, <1>2, <1>4, <1>7, <1>8, <1>9, <1>10, <1>11 DEF SF!Answered, SF!Return, SF!Becomes

LEMMA DropRefines ==
  ASSUME IInv, NEW c \in Calls, Drop(c)
  PROVE  SF!Drop(c)
<1> DEFINE k == held[c]
<1>1. /\ pc[c] \in {"fetch", "join"} /\ pc \in [Calls -> Suspended \cup Holding \cup {"entry"}]
      /\ UNCHANGED <<cache, online, name, held>>
      /\ k \in Calls /\ cell \in [Calls -> Cell] /\ name \in [Calls -> Names]
      /\ cell' = IF pc[c] = "fetch" THEN [cell EXCEPT ![k] = Free] ELSE cell
      /\ pc' = [pc EXCEPT ![c] = "done"]
      /\ result' = [result EXCEPT ![c] = [kind |-> "dropped", from |-> None]]
  BY DEF Drop, Return, Goto, IInv, TypeOK, Holding
<1>2. pc[c] = "fetch" => cell[k].st = "busy"
  BY DEF IInv, CallInv
<1>3. \A d \in Calls : HasAnswer(d)' <=> HasAnswer(d)
  BY <1>1, <1>2 DEF HasAnswer, Free
<1>4. answer' = answer
  BY <1>1, <1>3 DEF answer, HasAnswer
<1>5. flight' = [flight EXCEPT ![name[c]] = @ \ {c}]
  <2> DEFINE flying(n) == {d \in Calls : pc[d] = "fetch" /\ name[d] = n}
  <2>1. flight = [n \in Names |-> flying(n)] /\ flight' = [n \in Names |-> flying(n)']
    BY DEF flight
  <2>2. \A d \in Calls : pc'[d] = "fetch" <=> pc[d] = "fetch" /\ d # c
    BY <1>1
  <2>3. \A n \in Names : flying(n)' = IF n = name[c] THEN flying(n) \ {c} ELSE flying(n)
    BY <1>1, <2>2
  <2> HIDE DEF flying
  <2>. QED
    BY <1>1, <2>1, <2>3
<1>6. status[c] = "asked" /\ status' = [status EXCEPT ![c] = "done"]
  BY <1>1 DEF status
<1>. QED
  BY <1>1, <1>4, <1>5, <1>6 DEF SF!Drop, SF!Return, SF!Becomes

\* On one executor thread, and as long as the node answers, get_abi is single
\* flight, for any calls and accounts and whoever is dropped.
THEOREM Refines ==
  ASSUME ~MultiThread, ~MayFail
  PROVE  Spec => RefinesSingleFlight
<1>1. Init => SF!Init
  BY CallsAssumption DEF Init, SF!Init, flight, answer, status, NoResult
<1>2. ASSUME IInv, OneInv, [Next]_vars PROVE [SF!Next]_Seen
  <2>1. ASSUME NEW c \in Calls, NEW n \in Names, Lookup(c, n) PROVE [SF!Next]_Seen
    BY <1>2, <2>1, LookupRefines DEF SF!Next
  <2>2. ASSUME NEW c \in Calls, Enter(c) \/ Recheck(c) \/ Remove(c) PROVE UNCHANGED Seen
    BY <1>2, <2>2, EnterRefines, RecheckRefines, RemoveRefines
  <2>3. ASSUME NEW c \in Calls, GetOrInit(c) \/ FetchDone(c) \/ Publish(c) \/ Drop(c)
        PROVE  [SF!Next]_Seen
    BY <1>2, <2>3, GetOrInitRefines, FetchDoneRefines, PublishRefines, DropRefines
       DEF SF!Next
  <2>4. ASSUME NEW n \in Names, SetAbi(n) PROVE SF!SetAbi(n)
    BY <2>4 DEF SetAbi, SF!SetAbi, flight, answer, status
  <2>5. CASE UNCHANGED vars
    BY <2>5 DEF vars, Seen, flight, answer, status
  <2>. QED
    BY <1>2, <2>1, <2>2, <2>3, <2>4, <2>5 DEF Next, Task, SF!Next
<1>3. Init => OneInv
  BY OneInit
<1>4. IInv /\ OneInv /\ [Next]_vars => OneInv'
  BY OneNext
<1>. QED
  BY <1>1, <1>2, <1>3, <1>4, Invariance, PTL
  DEF Spec, RefinesSingleFlight, SF!Spec, SF!singleFlightVars, Seen

=============================================================================
