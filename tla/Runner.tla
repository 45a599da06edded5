------------------------------- MODULE Runner -------------------------------
(***************************************************************************)
(* The loop oracle.Run and verifier.Run share: every tick of WithBackOff   *)
(* fetches one page of the filtered requests, in the order of their        *)
(* numbers, and handles its items one after another.  The page is a        *)
(* snapshot: an item may have been reviewed since.                         *)
(*                                                                         *)
(* A full page makes the next tick follow the page's next link, any other  *)
(* makes it List from the start again.  When a fetch fails the variable    *)
(* that holds the page becomes nil: every later tick dereferences it,      *)
(* panics and is recovered, until the context is cancelled or the process  *)
(* restarts.                                                               *)
(***************************************************************************)
EXTENDS TokenD

CONSTANT PageLimit    \* requestPageSizeLimit

ASSUME PageLimitAssumption == PageLimit \in Nat \ {0}

VARIABLES
  pc,        \* [Workers -> where the worker is]
  todo,      \* [Workers -> the items of the page it has not started]
  cur,       \* [Workers -> the item it handles, 0 between items]
  cursor,    \* [Workers -> where the next page starts; 0: List]
  cancelled  \* [Instances -> the instance's context is cancelled]

runnerVars == <<pc, todo, cur, cursor, cancelled>>

LoopStates == {"stopped", "wait", "page", "nilPage"}

RunnerInit ==
  /\ pc = [w \in Workers |-> "stopped"]
  /\ todo = [w \in Workers |-> {}]
  /\ cur = [w \in Workers |-> 0]
  /\ cursor = [w \in Workers |-> 0]
  /\ cancelled = [i \in Instances |-> FALSE]

Cancelled(w) == cancelled[Inst[w]]
-----------------------------------------------------------------------------
\* The pending requests whose tasks include set and none of notSet.
TaskFilter(set, notSet) ==
  {r \in Requests : /\ requests[r].state = "pending"
                    /\ set \subseteq requests[r].tasks
                    /\ notSet \cap requests[r].tasks = {}}

\* Those of w's asset.
Filter(w, set, notSet) == {r \in TaskFilter(set, notSet) : Asset[r] = Asset[Inst[w]]}

\* The page that starts after the cursor.
Page(w, matching) ==
  LET rest == {r \in matching : r > cursor[w]}
  IN {r \in rest : Cardinality({q \in rest : q < r}) < PageLimit}

\* Mutant: the loop goes on after its last full page for ever.
ShortPageKeepsCursor(w, matching) ==
  /\ pc[w] = "wait" /\ ~Cancelled(w)
  /\ LET page == Page(w, matching) IN
       /\ Cardinality(page) < PageLimit
       /\ todo' = [todo EXCEPT ![w] = page]
       /\ pc' = [pc EXCEPT ![w] = IF page = {} THEN "wait" ELSE "page"]
  /\ UNCHANGED <<cur, cursor, cancelled>>

FetchShortPage(w, matching) ==
  /\ pc[w] = "wait" /\ ~Cancelled(w)
  /\ LET page == Page(w, matching) IN
       /\ Cardinality(page) < PageLimit
       /\ todo' = [todo EXCEPT ![w] = page]
       /\ pc' = [pc EXCEPT ![w] = IF page = {} THEN "wait" ELSE "page"]
  /\ cursor' = [cursor EXCEPT ![w] = 0]
  /\ UNCHANGED <<cur, cancelled>>

FetchFullPage(w, matching) ==
  /\ pc[w] = "wait" /\ ~Cancelled(w)
  /\ LET page == Page(w, matching) IN
       /\ Cardinality(page) = PageLimit
       /\ todo' = [todo EXCEPT ![w] = page]
       /\ \E last \in page : /\ \A r \in page : r <= last
                             /\ cursor' = [cursor EXCEPT ![w] = last]
  /\ pc' = [pc EXCEPT ![w] = "page"]
  /\ UNCHANGED <<cur, cancelled>>

Fetch(w, matching) == FetchShortPage(w, matching) \/ FetchFullPage(w, matching)

FetchFails(w) ==
  /\ "list" \in Faults
  /\ pc[w] = "wait" /\ ~Cancelled(w)
  /\ pc' = [pc EXCEPT ![w] = "nilPage"]
  /\ UNCHANGED <<todo, cur, cursor, cancelled>>

\* A tick over a nil page panics before it fetches anything.
NilPagePanics(w) == pc[w] = "nilPage" /\ ~Cancelled(w) /\ UNCHANGED runnerVars

\* WithBackOff looks at the context between ticks only.
Stop(w) ==
  /\ pc[w] \in {"wait", "nilPage"} /\ Cancelled(w)
  /\ pc' = [pc EXCEPT ![w] = "stopped"]
  /\ UNCHANGED <<todo, cur, cursor, cancelled>>
-----------------------------------------------------------------------------
\* The items of a page are handled in order.
First(w, r) == pc[w] = "page" /\ r \in todo[w] /\ \A q \in todo[w] : r <= q

\* w starts item r and goes to state next.
StartItem(w, r, next) ==
  /\ First(w, r)
  /\ todo' = [todo EXCEPT ![w] = @ \ {r}]
  /\ cur' = [cur EXCEPT ![w] = r]
  /\ pc' = [pc EXCEPT ![w] = next]
  /\ UNCHANGED <<cursor, cancelled>>

\* w goes on with the same item.
Goto(w, next) ==
  /\ pc' = [pc EXCEPT ![w] = next]
  /\ UNCHANGED <<todo, cur, cursor, cancelled>>

AfterItem(left) == IF left = {} THEN "wait" ELSE "page"

\* w is done with its item: the next one, or the end of the tick.
EndItem(w) ==
  /\ pc' = [pc EXCEPT ![w] = AfterItem(todo[w])]
  /\ cur' = [cur EXCEPT ![w] = 0]
  /\ UNCHANGED <<todo, cursor, cancelled>>

\* w passes over item r without waiting for anything.
SkipItem(w, r) ==
  /\ First(w, r)
  /\ todo' = [todo EXCEPT ![w] = @ \ {r}]
  /\ pc' = [pc EXCEPT ![w] = AfterItem(todo[w] \ {r})]
  /\ UNCHANGED <<cur, cursor, cancelled>>

\* Mutant: a panic also loses the page variable.
PanicLosesPage(w) ==
  /\ pc' = [pc EXCEPT ![w] = "nilPage"]
  /\ todo' = [todo EXCEPT ![w] = {}]
  /\ cur' = [cur EXCEPT ![w] = 0]
  /\ UNCHANGED <<cursor, cancelled>>

\* A panic is recovered around the whole tick: the rest of the page is lost.
AbandonPage(w) ==
  /\ pc' = [pc EXCEPT ![w] = "wait"]
  /\ todo' = [todo EXCEPT ![w] = {}]
  /\ cur' = [cur EXCEPT ![w] = 0]
  /\ UNCHANGED <<cursor, cancelled>>
=============================================================================
