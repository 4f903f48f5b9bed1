------------------------------- MODULE Timers -------------------------------
(***************************************************************************)
(* lib/timers.js without setImmediate: idle lists (insert, enroll, active, *)
(* unenroll and the watcher's ontimeout), Timeout objects (setTimeout,     *)
(* clearTimeout, ref, unref, close) and intervals; the Timer handles of    *)
(* src/timer_wrap.cc and src/handle_wrap.cc; and of libuv the loop's       *)
(* cached time and uv__run_timers (external).                              *)
(*                                                                         *)
(* A callback of an item runs in the middle of its list's ontimeout and    *)
(* may call every operation, on its own list too: the activation of        *)
(* ontimeout is the variable frame.  Lists are the queues of IdleQueue,    *)
(* which LinkList implements.                                              *)
(***************************************************************************)
EXTENDS Integers, Sequences, FiniteSets

CONSTANTS
  Sockets,       \* objects with an idle timeout: enroll, active, unenroll
  Timeouts,      \* the Timeout objects setTimeout may return, one per call
  Intervals,     \* the Timer objects setInterval may return, one per call
  Delays,        \* arguments of setTimeout and setInterval
  SocketDelays,  \* arguments of enroll (net.js passes positive numbers only)
  TIMEOUT_MAX,   \* 2^31 - 1 in the code
  ListIds,       \* bound: Timer objects of idle lists alive at one time
  MaxTime,       \* bound: Date.now() stops here
  Programs,      \* the objects and delays user code works with, one per behaviour
  Skew           \* how far the loop's clock may run ahead of Date.now(), in ms

ASSUME KindsAssumption ==
  Sockets \cap Timeouts = {} /\ Timeouts \cap Intervals = {} /\ Intervals \cap Sockets = {}
ASSUME DelayAssumption ==
  Delays \subseteq Int /\ SocketDelays \subseteq Nat /\ TIMEOUT_MAX \in Nat \ {0}
ASSUME ProgramAssumption ==
  \A p \in Programs : /\ p.uses \subseteq Sockets \cup Timeouts \cup Intervals
                      /\ p.delays \subseteq Delays /\ p.until \in 0..MaxTime
ASSUME ClockAssumption == MaxTime \in Nat /\ Skew \in {0, 1}
ASSUME ListAssumption == ListIds \subseteq Nat \ {0}

VARIABLES
  program,   \* the member of Programs this behaviour has
  now,       \* Date.now()
  loopTime,  \* loop->time: the clock as libuv last read it
  queue,     \* the items of each list, the most idle first
  lists,     \* the object lists: for a duration, its list (0: undefined)
  watcher,   \* the Timer of each list: its duration, when it is due, open or not
             \* (history: left, ontimeout was left half way by an exception)
  item,      \* the fields of sockets and Timeouts (idleNext: _idleNext is not null)
  handle,    \* the Timer of an interval, or of a Timeout after unref (closing: between
             \* close() and OnClose; history: when, the Date.now() it was asked for; lag,
             \* how far loopTime was behind then; late, unref came after it fired or was cleared)
  frame,     \* where the thread is: in the loop, in ontimeout, in a callback
  lastActive,\* history: when an item was activated, Never once it was called or taken out
  fired      \* history: how often the callback of a Timeout ran

vars == <<program, now, loopTime, queue, lists, watcher, item, handle, frame, lastActive, fired>>

Items == Sockets \cup Timeouts
Owners == Timeouts \cup Intervals

\* setTimeout and setInterval replace a delay out of range by 1 ms.
Normal(after) == IF after >= 1 /\ after <= TIMEOUT_MAX THEN after ELSE 1

Durations == {Normal(d) : d \in Delays} \cup SocketDelays

Q == INSTANCE IdleQueue WITH Lists <- ListIds

\* Not started.  A due time is the loop time at which libuv runs the timer.
Stopped == -1

\* A new Timer, started for delay, to run again every repeat ms unless that is 0.
NewTimer(delay, repeat, isRef, hasFn, when, late) ==
  [due |-> loopTime + delay, repeat |-> repeat, open |-> TRUE, closing |-> FALSE, ref |-> isRef,
   fn |-> hasFn, made |-> TRUE, when |-> when, lag |-> now - loopTime, late |-> late]

NoHandle == [due |-> Stopped, repeat |-> 0, open |-> FALSE, closing |-> FALSE, ref |-> FALSE,
             fn |-> FALSE, made |-> FALSE, when |-> 0, lag |-> 0, late |-> FALSE]

Never == -1

\* Frames.  "loop": no JavaScript below user code.  "list": ontimeout of list l,
\* between two items, with its local now in t.  "item": the same while the
\* callback of item i runs.  "own": the callback of the Timer of i.
Frame(at, l, t, i) == [at |-> at, l |-> l, t |-> t, i |-> i]
Nobody == "nobody"
InLoop == Frame("loop", 0, 0, Nobody)
Crash == Frame("dead", 0, 0, Nobody)

Init ==
  /\ program \in Programs
  /\ now = 0 /\ loopTime = 0
  /\ Q!Init
  /\ lists = [d \in Durations |-> 0]
  /\ watcher = [l \in ListIds |-> [msecs |-> 0, due |-> Stopped, open |-> FALSE, left |-> FALSE]]
  /\ item = [i \in Items |-> [idleTimeout |-> -1, idleNext |-> FALSE, idleStart |-> 0,
                              when |-> 0, onTimeout |-> i \in Sockets,
                              made |-> i \in Sockets]]
  /\ handle = [i \in Owners |-> NoHandle]
  /\ frame = InLoop
  /\ lastActive = [i \in Items |-> Never]
  /\ fired = [i \in Timeouts |-> 0]

-----------------------------------------------------------------------------
(***************************************************************************)
(* The clock.  libuv reads it once per iteration, so a callback may see    *)
(* loopTime far behind now; its reading is truncated at another phase than *)
(* Date.now()'s, so it may also be ahead.                                  *)
(***************************************************************************)
Tick ==
  /\ frame.at # "dead" /\ now < program.until /\ now' = now + 1
  /\ UNCHANGED <<program, loopTime, queue, lists, watcher, item, handle, frame, lastActive, fired>>

UpdateTime ==
  /\ frame = InLoop
  /\ \E t \in now..(now + Skew) : loopTime < t /\ loopTime' = t
  /\ UNCHANGED <<program, now, queue, lists, watcher, item, handle, frame, lastActive, fired>>

-----------------------------------------------------------------------------
(***************************************************************************)
(* The operations, as functions of the state they change.                  *)
(***************************************************************************)
\* User code runs off the loop, inside an item's callback, inside a Timer's.
InUserCode == frame.at \in {"loop", "item", "own"}

Idle(l) == queue[l] = <<>>
FreeList == {l \in ListIds : ~watcher[l].open /\ frame.l # l}

\* uv_timer_start, close: on the handle of a list.
Started(w, timeout) == [w EXCEPT !.due = loopTime + timeout]
Closed(w) == [w EXCEPT !.due = Stopped, !.open = FALSE]

\* unenroll, but for its last assignment: take i out of its list, and stop the
\* watcher of the list for i's duration d when that list is empty.
LeaveList(i, d) ==
  LET q == Q!Without(queue, i)
      l == IF d \in Durations THEN lists[d] ELSE 0
  IN  /\ queue' = q
      /\ IF l # 0 /\ q[l] = <<>>
         THEN /\ watcher' = [watcher EXCEPT ![l] = Closed(@)]
              /\ lists' = [lists EXCEPT ![d] = 0]
         ELSE UNCHANGED <<watcher, lists>>

\* History: i waits for nothing any more.
Quiet(i) == lastActive' = [lastActive EXCEPT ![i] = Never]

\* What L.remove and the last assignment of unenroll leave of an item.
Unenrolled(x) == [x EXCEPT !.idleTimeout = -1, !.idleNext = FALSE]

\* insert and active: append i to the list for d, made on demand.
JoinList(i, d) ==
  IF lists[d] # 0
  THEN /\ queue' = Q!AppendTo(queue, lists[d], i)
       /\ UNCHANGED <<lists, watcher>>
  ELSE /\ FreeList # {}
       /\ LET l == CHOOSE x \in FreeList : \A y \in FreeList : x <= y
          IN  /\ watcher' = [watcher EXCEPT ![l] =
                    Started([msecs |-> d, due |-> Stopped, open |-> TRUE, left |-> FALSE], d)]
              /\ lists' = [lists EXCEPT ![d] = l]
              /\ queue' = Q!AppendTo(queue, l, i)

-----------------------------------------------------------------------------
(***************************************************************************)
(* Operations of user code.                                                *)
(***************************************************************************)
\* enroll(item, msecs): leaves the list the item is in, if any.
enroll(i, d) ==
  /\ InUserCode
  /\ IF item[i].idleNext
     THEN LeaveList(i, item[i].idleTimeout)
     ELSE UNCHANGED <<queue, lists, watcher>>
  /\ item' = [item EXCEPT ![i].idleTimeout = d, ![i].idleNext = TRUE]
  /\ Quiet(i)
  /\ UNCHANGED <<program, now, loopTime, handle, frame, fired>>

\* active(item): restart its idle time, at the end of its list.
active(i) ==
  /\ InUserCode /\ item[i].idleTimeout >= 0
  /\ JoinList(i, item[i].idleTimeout)
  /\ item' = [item EXCEPT ![i].idleStart = now, ![i].idleNext = TRUE]
  /\ lastActive' = [lastActive EXCEPT ![i] = now]
  /\ UNCHANGED <<program, now, loopTime, handle, frame, fired>>

unenroll(i) ==
  /\ InUserCode
  /\ LeaveList(i, item[i].idleTimeout)
  /\ item' = [item EXCEPT ![i] = Unenrolled(@)]
  /\ Quiet(i)
  /\ UNCHANGED <<program, now, loopTime, handle, frame, fired>>

setTimeout(i, after) ==
  /\ InUserCode /\ ~item[i].made
  /\ JoinList(i, Normal(after))
  /\ item' = [item EXCEPT ![i] = [idleTimeout |-> Normal(after), idleNext |-> TRUE,
                                  idleStart |-> now, when |-> now + Normal(after),
                                  onTimeout |-> TRUE, made |-> TRUE]]
  /\ lastActive' = [lastActive EXCEPT ![i] = now]
  /\ UNCHANGED <<program, now, loopTime, handle, frame, fired>>

\* uv_timer_stop.
StoppedTimer(h) == [h EXCEPT !.due = Stopped, !.when = 0, !.lag = 0]

\* ontimeout = null and HandleWrap::Close, which a second time does nothing: uv_close
\* stops the Timer, and the wrapper is without a handle until OnClose runs.
ClosedTimer(h) ==
  [StoppedTimer(h) EXCEPT !.fn = FALSE, !.open = FALSE, !.closing = @ \/ h.open]

\* HandleWrap::Ref and Unref of the Timer of i: without effect once OnClose has run, but
\* before that uv_ref and uv_unref are given NULL.
SetRef(i, isRef) ==
  /\ handle' = [handle EXCEPT ![i].ref = IF handle[i].open THEN isRef ELSE @]
  /\ frame' = IF handle[i].closing THEN Crash ELSE frame

\* Mutant: closing a Timeout with a Timer of its own leaves that Timer running.
close_ForgetsHandle(i) ==
  /\ item[i].made
  /\ LeaveList(i, item[i].idleTimeout)
  /\ item' = [item EXCEPT ![i] = [Unenrolled(@) EXCEPT !.onTimeout = FALSE]]
  /\ UNCHANGED handle

\* Timeout.prototype.close
close(i) ==
  /\ item[i].made
  /\ IF handle[i].made
     THEN /\ handle' = [handle EXCEPT ![i] = ClosedTimer(@)]
          /\ item' = [item EXCEPT ![i].onTimeout = FALSE]
          /\ UNCHANGED <<queue, lists, watcher>>
     ELSE /\ LeaveList(i, item[i].idleTimeout)
          /\ item' = [item EXCEPT ![i] = [Unenrolled(@) EXCEPT !.onTimeout = FALSE]]
          /\ UNCHANGED handle

\* clearTimeout closes a Timeout that still has its callback; close may also be
\* called directly.
clearTimeout(i) ==
  /\ InUserCode
  /\ close(i)
  /\ Quiet(i)
  /\ UNCHANGED <<program, now, loopTime, frame, fired>>

\* What is left of the time of a Timeout.
Left(i) == IF item[i].when > now THEN item[i].when - now ELSE 0

\* Mutant: stays in its list beside the Timer of its own.
unref_StaysListed(i) ==
  /\ InUserCode /\ item[i].made /\ ~handle[i].made /\ Q!Linked(queue, i)
  /\ handle' = [handle EXCEPT ![i] = NewTimer(Left(i), 0, FALSE, item[i].onTimeout, item[i].when, FALSE)]
  /\ UNCHANGED <<program, now, loopTime, queue, lists, watcher, item, frame, lastActive, fired>>

\* Timeout.prototype.unref: leave the list for a Timer of one's own, due at _when.
unref(i) ==
  /\ InUserCode /\ item[i].made
  /\ IF handle[i].made
     THEN /\ SetRef(i, FALSE)
          /\ UNCHANGED <<queue, lists, watcher, item>>
     ELSE /\ LeaveList(i, item[i].idleTimeout)
          /\ item' = [item EXCEPT ![i] = Unenrolled(@)]
          /\ handle' = [handle EXCEPT ![i] =
               NewTimer(Left(i), 0, FALSE, item[i].onTimeout, item[i].when, ~Q!Linked(queue, i))]
          /\ UNCHANGED frame
  /\ Quiet(i)
  /\ UNCHANGED <<program, now, loopTime, fired>>

\* ref and unref of an interval are HandleWrap's; ref of a Timeout needs its Timer.
ref(i) ==
  /\ InUserCode /\ handle[i].made
  /\ SetRef(i, TRUE)
  /\ UNCHANGED <<program, now, loopTime, queue, lists, watcher, item, lastActive, fired>>

unrefInterval(i) ==
  /\ InUserCode /\ handle[i].made
  /\ SetRef(i, FALSE)
  /\ UNCHANGED <<program, now, loopTime, queue, lists, watcher, item, lastActive, fired>>

setInterval(i, after) ==
  /\ InUserCode /\ ~handle[i].made
  /\ handle' = [handle EXCEPT ![i] =
       NewTimer(Normal(after), Normal(after), TRUE, TRUE, now + Normal(after), FALSE)]
  /\ UNCHANGED <<program, now, loopTime, queue, lists, watcher, item, frame, lastActive, fired>>

clearInterval(i) ==
  /\ InUserCode /\ handle[i].made
  /\ handle' = [handle EXCEPT ![i] = ClosedTimer(@)]
  /\ UNCHANGED <<program, now, loopTime, queue, lists, watcher, item, frame, lastActive, fired>>

-----------------------------------------------------------------------------
(***************************************************************************)
(* uv__run_timers: the timer due first, of several the one at the lowest   *)
(* address, is stopped (or restarted, when it repeats) and called.         *)
(***************************************************************************)
Dues == {watcher[l].due : l \in ListIds} \cup {handle[i].due : i \in Owners}
DueFirst(due) == due # Stopped /\ due <= loopTime /\ \A d \in Dues : d = Stopped \/ due <= d

Called(i) == fired' = IF i \in Timeouts THEN [fired EXCEPT ![i] = @ + 1] ELSE fired

\* OnTimeout of a list's Timer enters ontimeout.
FireList(l) ==
  /\ frame = InLoop /\ DueFirst(watcher[l].due)
  /\ watcher' = [watcher EXCEPT ![l].due = Stopped]
  /\ frame' = Frame("list", l, now, Nobody)
  /\ UNCHANGED <<program, now, loopTime, queue, lists, item, handle, lastActive, fired>>

\* uv_timer_again.
Again(h) == [h EXCEPT !.due = loopTime + h.repeat, !.when = now + h.repeat, !.lag = now - loopTime]

\* OnTimeout of an interval's or an unref'd Timeout's Timer calls its callback;
\* MakeCallback aborts the process when there is none, _makeCallback returns at
\* once when its domain was disposed.
FireOwn(i) ==
  /\ frame = InLoop /\ DueFirst(handle[i].due)
  /\ handle' = [handle EXCEPT ![i] = IF @.repeat = 0 THEN StoppedTimer(@) ELSE Again(@)]
  /\ \/ ~handle[i].fn /\ frame' = Frame("dead", 0, 0, i) /\ UNCHANGED fired
     \/ handle[i].fn /\ UNCHANGED <<frame, fired>>
     \/ handle[i].fn /\ frame' = Frame("own", 0, 0, i) /\ Called(i)
  /\ UNCHANGED <<program, now, loopTime, queue, lists, watcher, item, lastActive>>

\* uv__run_closing_handles, at the end of an iteration: OnClose deletes the wrappers.
RunClosing ==
  /\ frame = InLoop /\ \E i \in Owners : handle[i].closing
  /\ handle' = [i \in Owners |-> [handle[i] EXCEPT !.closing = FALSE]]
  /\ UNCHANGED <<program, now, loopTime, queue, lists, watcher, item, frame, lastActive, fired>>

OwnReturns ==
  /\ frame.at = "own"
  /\ frame' = InLoop
  /\ UNCHANGED <<program, now, loopTime, queue, lists, watcher, item, handle, lastActive, fired>>

\* What is left of the duration for the most idle item.
Remaining(l) == watcher[l].msecs - (frame.t - item[Head(queue[l])].idleStart)

\* Mutant: compares seconds with milliseconds.
TooEarly_Seconds(l) == frame.t - item[Head(queue[l])].idleStart + 1 < watcher[l].msecs * 1000

TooEarly(l) == frame.t - item[Head(queue[l])].idleStart + 1 < watcher[l].msecs

\* Mutant: does not restart the watcher.
ListWaits_NoRestart ==
  /\ frame.at = "list" /\ ~Idle(frame.l) /\ TooEarly(frame.l)
  /\ frame' = InLoop
  /\ UNCHANGED <<program, now, loopTime, queue, lists, watcher, item, handle, lastActive, fired>>

\* ontimeout finds its most idle item not due yet, and restarts the watcher.
ListWaits ==
  /\ frame.at = "list"
  /\ LET l == frame.l
     IN  /\ ~Idle(l) /\ TooEarly(l)
         /\ watcher' = [watcher EXCEPT ![l] = Started(@, Remaining(l))]
  /\ frame' = InLoop
  /\ UNCHANGED <<program, now, loopTime, queue, lists, item, handle, lastActive, fired>>

\* ontimeout removes its most idle item and calls it, or skips it when it has no
\* callback or its domain was disposed.
ListCalls ==
  /\ frame.at = "list"
  /\ LET l == frame.l
         i == Head(queue[l])
     IN  /\ ~Idle(l) /\ ~TooEarly(l)
         /\ queue' = [queue EXCEPT ![l] = Tail(@)]
         /\ \/ UNCHANGED <<frame, fired>>
            \/ /\ item[i].onTimeout
               /\ frame' = Frame("item", l, frame.t, i)
               /\ Called(i)
         /\ item' = [item EXCEPT ![i].idleNext = FALSE]
         /\ Quiet(i)
  /\ UNCHANGED <<program, now, loopTime, lists, watcher, handle>>

\* ontimeout finds its list empty: close the watcher, delete the table entry.
ListEnds ==
  /\ frame.at = "list" /\ Idle(frame.l)
  /\ watcher' = [watcher EXCEPT ![frame.l] = Closed(@)]
  /\ lists' = [lists EXCEPT ![watcher[frame.l].msecs] = 0]
  /\ frame' = InLoop
  /\ UNCHANGED <<program, now, loopTime, queue, item, handle, lastActive, fired>>

\* The item's callback returns, or throws and the listeners of
\* 'uncaughtException' return.
ItemReturns ==
  /\ frame.at = "item"
  /\ frame' = Frame("list", frame.l, frame.t, Nobody)
  /\ UNCHANGED <<program, now, loopTime, queue, lists, watcher, item, handle, lastActive, fired>>

\* A callback throws and nobody listens: the process ends.  If a listener throws
\* in ontimeout's catch, ontimeout is left, and FatalException asks the listeners
\* again; they may take it this time.
Throws ==
  /\ frame.at \in {"item", "own"}
  /\ \/ frame' = Crash /\ UNCHANGED watcher
     \/ frame.at = "item" /\ frame' = InLoop /\ watcher' = [watcher EXCEPT ![frame.l].left = TRUE]
  /\ UNCHANGED <<program, now, loopTime, queue, lists, item, handle, lastActive, fired>>

RunTimer == (\E l \in ListIds : FireList(l)) \/ (\E i \in Owners : FireOwn(i))

ontimeout == ListWaits \/ ListCalls \/ ListEnds

Next ==
  \/ Tick \/ UpdateTime
  \/ \E i \in Sockets \cap program.uses : active(i) \/ unenroll(i) \/ \E d \in SocketDelays : enroll(i, d)
  \/ \E i \in Timeouts \cap program.uses : clearTimeout(i) \/ unref(i) \/ \E d \in program.delays : setTimeout(i, d)
  \/ \E i \in Intervals \cap program.uses : unrefInterval(i) \/ clearInterval(i) \/ \E d \in program.delays : setInterval(i, d)
  \/ \E i \in Owners \cap program.uses : ref(i)
  \/ RunTimer \/ RunClosing \/ OwnReturns \/ ontimeout \/ ItemReturns \/ Throws

Spec == Init /\ [][Next]_vars

(***************************************************************************)
(* Fairness.  The clock advances, ontimeout is sequential code, callbacks  *)
(* return (or throw), libuv runs a timer that is due and reads the clock   *)
(* on every iteration, whatever else happens between two iterations.       *)
(***************************************************************************)
Fairness ==
  /\ WF_vars(Tick) /\ SF_vars(UpdateTime)
  /\ SF_vars(RunTimer)
  /\ WF_vars(ontimeout) /\ WF_vars(ItemReturns) /\ WF_vars(OwnReturns)

FairSpec == Spec /\ Fairness
-----------------------------------------------------------------------------
TypeOK ==
  /\ now \in 0..MaxTime /\ loopTime \in 0..(MaxTime + Skew)
  /\ queue \in [ListIds -> Seq(Items)]
  /\ lists \in [Durations -> ListIds \cup {0}]
  /\ watcher \in [ListIds -> [msecs : Durations \cup {0}, due : Nat \cup {Stopped}, open : BOOLEAN, left : BOOLEAN]]
  /\ item \in [Items -> [idleTimeout : 1..TIMEOUT_MAX \cup SocketDelays \cup {-1}, idleNext : BOOLEAN,
                         idleStart : Nat, when : Nat, onTimeout : BOOLEAN, made : BOOLEAN]]
  /\ handle \in [Owners -> [due : Nat \cup {Stopped}, repeat : Durations \cup {0}, open : BOOLEAN,
                            closing : BOOLEAN, ref : BOOLEAN, fn : BOOLEAN, made : BOOLEAN,
                            when : Nat, lag : Int, late : BOOLEAN]]
  /\ frame.at \in {"loop", "list", "item", "own", "dead"}
  /\ lastActive \in [Items -> Nat \cup {Never}] /\ fired \in [Timeouts -> Nat]

\* The shared idle lists stay sound whatever callbacks do to them while ontimeout
\* walks them: a list found through the table is open and has the duration of its
\* key, a closed list is empty, and the items of a list have its duration and are
\* ordered by the start of their idle time, so the front is the most idle one.
ListsSound ==
  /\ \A d \in Durations : lists[d] # 0 => watcher[lists[d]].open /\ watcher[lists[d]].msecs = d
  /\ \A l \in ListIds :
       /\ ~watcher[l].open => Idle(l) /\ watcher[l].due = Stopped
       /\ \A k \in 1..Len(queue[l]) : item[queue[l][k]].idleTimeout = watcher[l].msecs
       /\ \A j, k \in 1..Len(queue[l]) :
            j < k => item[queue[l][j]].idleStart <= item[queue[l][k]].idleStart

\* Nobody waits for a watcher that comes too late: a list with items is being
\* walked by ontimeout, or its watcher is due no later than its most idle item
\* (plus the offset of the two clocks), however often items were re-activated,
\* removed or found early.  Only an exception that leaves ontimeout half way (a
\* listener of 'uncaughtException' threw) leaves its list without a watcher.
TimelyWatcher ==
  \A l \in ListIds :
    ~Idle(l) /\ frame.l # l /\ frame.at # "dead" /\ ~watcher[l].left =>
      /\ watcher[l].due # Stopped
      /\ watcher[l].due <= item[Head(queue[l])].idleStart + watcher[l].msecs + Skew

\* "if empty then stop the watcher" (unenroll): a watcher that would keep the event
\* loop alive has an item to wait for.  Not for a list whose table entry was
\* deleted with that of the list before it, by the ontimeout of a list that was
\* closed under it.
EmptyStopped == \A d \in Durations : lists[d] # 0 /\ watcher[lists[d]].due # Stopped => ~Idle(lists[d])

\* setTimeout schedules "a one-time callback": it never runs twice, except when it
\* was unref'd after it had run, which starts a Timer for it again.
OneShot == \A i \in Timeouts : fired[i] <= 1 \/ handle[i].late

\* A Timer that fires has a function to call: MakeCallback never meets the null
\* that clearTimeout, clearInterval and close leave in ontimeout, unless a Timeout
\* was unref'd after it had been cleared.
NeverNull == frame.at = "dead" /\ frame.i # Nobody => handle[frame.i].late

\* The steps that call an item: ontimeout of its list, and the Timer of its own.
ListCallsItem(i) == frame.at = "list" /\ frame' = Frame("item", frame.l, frame.t, i)
TimerCalls(i) == frame = InLoop /\ frame' = Frame("own", 0, 0, i)

\* Nothing is timed out early.  When ontimeout calls an item, at least its duration, less
\* the millisecond that ontimeout tolerates, has passed since it was last activated,
\* although the watcher may have fired too early for it.  A Timer of its own counts from
\* the loop's clock: an interval or an unref'd Timeout may come early, but by no more than
\* that clock was behind Date.now() when the Timer was started.
NotEarly ==
  /\ \A i \in Items : ListCallsItem(i) => now + 1 >= lastActive[i] + item[i].idleTimeout
  /\ \A i \in Owners : TimerCalls(i) => now + Skew + handle[i].lag >= handle[i].when

\* What was taken out is silent, from wherever that was done, the callback of another item
\* of the list being walked included: ontimeout calls an item only for an activation that
\* unenroll, enroll, clearTimeout or unref has not ended and for which it was not called
\* yet, a Timer that was closed calls nobody, and clearTimeout "prevents a timeout from
\* triggering" in either place.
Silence ==
  /\ \A i \in Items : ListCallsItem(i) => lastActive[i] # Never
  /\ \A i \in Owners : TimerCalls(i) => handle[i].open
  /\ \A i \in Timeouts : item[i].made /\ ~item[i].onTimeout => fired'[i] = fired[i]

\* No step of ontimeout or of a Timer calls an item early, or one that was taken out,
\* cleared or closed.
FiresRightly == [][NotEarly /\ Silence]_vars

\* Through everything callbacks do to the list that is being walked, the table leads to the
\* list of each duration and to no other, a list with items has a watcher that is due
\* in time, and one without items has none.
ListsKept == TypeOK /\ ListsSound /\ EmptyStopped /\ TimelyWatcher

\* A Timeout fires once and never with its callback gone, in whichever of its two places
\* it is and however it moves between them; except one that is unref'd when it is over.
FiresOnce == OneShot /\ NeverNull

\* Every item that became idle is eventually called or skipped by ontimeout, taken
\* out of its list, or activated again: the items whose time came before the clock
\* stopped do not stay, unless an exception left their list half way.
Overdue(i) == Q!Linked(queue, i) /\ lastActive[i] + item[i].idleTimeout < program.until
EveryItemExpires ==
  []<>(frame.at = "dead" \/ (\E l \in ListIds : watcher[l].left) \/ \A i \in Items : ~Overdue(i))
=============================================================================
