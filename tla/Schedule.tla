------------------------------ MODULE Schedule ------------------------------
(***************************************************************************)
(* frontends/plan9/schedule.c: the timer list that drives everything that  *)
(* is not an input event: fetcher_poll, the catch up of the low-level      *)
(* cache, its cleaner, reformats and animations.                           *)
(*                                                                         *)
(* schedule_run walks a list while the callbacks it makes schedule and     *)
(* remove entries of that same list.                                       *)
(***************************************************************************)
EXTENDS Integers, Sequences, FiniteSets

CONSTANTS
    Callbacks,      \* pairs of a callback and its private pointer
    NoCallback,     \* no callback is running
    Delays,         \* intervals given to misc_schedule, in units of the clock
    MaxTime         \* bound of the model: where the clock stops

ASSUME ScheduleAssumption ==
    NoCallback \notin Callbacks /\ Delays \subseteq Nat /\ MaxTime \in Nat

VARIABLES
    schedlist,      \* the list, head first: [cb, tv]
    now,            \* what gettimeofday returns
    run,            \* locals of schedule_run: whether it runs, its tv, cur, nexttime
    calling,        \* the callback it is making
    wait            \* what it returned last: how long nothing will be due, -1 for ever

scheduleVars == <<schedlist, now, run, calling, wait>>

Resting == [on |-> FALSE, tv |-> 0, cur |-> 0, nexttime |-> 0]

ScheduleInit ==
    /\ schedlist = <<>>
    /\ now = 0
    /\ run = Resting
    /\ calling = NoCallback
    /\ wait = -1

RemoveNothing(c) == schedlist

\* schedule_remove: the entries of the other callbacks, in their order.
Kept(s, c) == {i \in 1 .. Len(s) : s[i].cb # c}
Place(K, i) == Cardinality({k \in K : k <= i})
Removed(c) ==
    LET K == Kept(schedlist, c)
    IN  [j \in 1 .. Cardinality(K) |-> schedlist[CHOOSE i \in K : Place(K, i) = j]]

\* Code that schedules runs in the main loop or in a callback.
ClientTurn == ~run.on \/ calling # NoCallback

\* misc_schedule with an interval of 0 or more.
MiscSchedule(c, t) ==
    /\ ClientTurn
    /\ schedlist' = <<[cb |-> c, tv |-> now + t]>> \o Removed(c)
    /\ UNCHANGED <<now, run, calling, wait>>

\* misc_schedule with a negative interval.
Unschedule(c) ==
    /\ ClientTurn
    /\ schedlist' = Removed(c)
    /\ UNCHANGED <<now, run, calling, wait>>

Tick ==
    /\ now < MaxTime
    /\ now' = now + 1
    /\ UNCHANGED <<schedlist, run, calling, wait>>

KeepsTime == [run EXCEPT !.cur = 1]

\* cur and nexttime at the head of the list.
Restarted == [run EXCEPT !.cur = 1, !.nexttime = schedlist[1].tv]

RunBegins ==
    /\ ~run.on
    /\ IF schedlist = <<>>
       THEN wait' = -1 /\ UNCHANGED run
       ELSE /\ run' = [on |-> TRUE, tv |-> now, cur |-> 1, nexttime |-> schedlist[1].tv]
            /\ UNCHANGED wait
    /\ UNCHANGED <<schedlist, now, calling>>

Walking == run.on /\ calling = NoCallback

DueAtOnce(e) == run.tv >= e.tv

\* timercmp: strictly later than the entry's time.
Due(e) == run.tv > e.tv

\* An entry that is due is unlinked, then called.
RunCalls ==
    /\ Walking /\ run.cur \in DOMAIN schedlist
    /\ Due(schedlist[run.cur])
    /\ calling' = schedlist[run.cur].cb
    /\ schedlist' = [i \in 1 .. (Len(schedlist) - 1) |->
                        IF i < run.cur THEN schedlist[i] ELSE schedlist[i + 1]]
    /\ UNCHANGED <<now, run, wait>>

\* Any other entry is passed by, and its time noted when it is the earliest.
RunPasses ==
    /\ Walking /\ run.cur \in DOMAIN schedlist
    /\ ~Due(schedlist[run.cur])
    /\ run' = [run EXCEPT !.cur = @ + 1,
                          !.nexttime = IF @ > schedlist[run.cur].tv
                                       THEN schedlist[run.cur].tv ELSE @]
    /\ UNCHANGED <<schedlist, now, calling, wait>>

\* After a callback, which may have changed the list, the walk starts again.
CallbackReturns ==
    /\ calling # NoCallback
    /\ calling' = NoCallback
    /\ IF schedlist = <<>>
       THEN run' = Resting /\ wait' = -1
       ELSE run' = Restarted /\ UNCHANGED wait
    /\ UNCHANGED <<schedlist, now>>

RunEnds ==
    /\ Walking /\ run.cur \notin DOMAIN schedlist
    /\ wait' = run.nexttime - run.tv
    /\ run' = Resting
    /\ UNCHANGED <<schedlist, now, calling>>

ScheduleNext ==
    \/ \E c \in Callbacks : Unschedule(c) \/ \E t \in Delays : MiscSchedule(c, t)
    \/ Tick
    \/ RunBegins \/ RunCalls \/ RunPasses \/ CallbackReturns \/ RunEnds

ScheduleSpec == ScheduleInit /\ [][ScheduleNext]_scheduleVars
FairScheduleSpec == ScheduleSpec /\ WF_scheduleVars(RunCalls \/ RunPasses \/ CallbackReturns \/ RunEnds)

-----------------------------------------------------------------------------
Entry == [cb : Callbacks, tv : Nat]

ScheduleTypeOK ==
    /\ schedlist \in Seq(Entry)
    /\ now \in 0 .. MaxTime
    /\ run \in [on : BOOLEAN, tv : 0 .. MaxTime, cur : Nat, nexttime : Nat]
    /\ calling \in Callbacks \union {NoCallback}
    /\ wait \in Nat \union {-1}

\* The comment of misc_schedule, "additional calls with the same callback and user
\* parameter will reset the callback time": no pair is listed twice, so that
\* removing it stops it for good.
ScheduledOnce ==
    \A i, j \in DOMAIN schedlist : schedlist[i].cb = schedlist[j].cb => i = j

\* While the list is walked the cursor stands in it, whatever callbacks removed,
\* and nothing before it is due.
WalkSound ==
    Walking => /\ run.cur \in 1 .. (Len(schedlist) + 1)
               /\ \A i \in 1 .. (run.cur - 1) : ~Due(schedlist[i])

\* When schedule_run returns every entry that was due when it was called has been
\* called or removed, and the time it returns is the time until the earliest of
\* the others, so that a loop that sleeps so long misses none.  (drawui_run of
\* this port sleeps 10 ms whatever it is told.)
NothingMissed ==
    [][run.on /\ ~run'.on =>
          /\ \A i \in DOMAIN schedlist' : schedlist'[i].tv >= run.tv
          /\ schedlist' = <<>> => wait' = -1
          /\ schedlist' # <<>> =>
                /\ \A i \in DOMAIN schedlist' : run.tv + wait' <= schedlist'[i].tv
                /\ \E i \in DOMAIN schedlist' : run.tv + wait' = schedlist'[i].tv]_scheduleVars

\* schedule_run comes to an end although callbacks schedule themselves again with
\* no delay: what is scheduled meanwhile is not due before the next call.
RunComesToEnd == run.on ~> ~run.on
=============================================================================
