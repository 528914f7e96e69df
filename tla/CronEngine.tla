------------------------------ MODULE CronEngine ------------------------------
(***************************************************************************)
(* The scheduling loop of the go-cron fork the controller vendors          *)
(* (vendor/github.com/ringtail/go-cron/cron.go): one goroutine that owns a *)
(* map of entries and sleeps on a timer, and clients that talk to it over  *)
(* unbuffered channels.  AddJob, RemoveJob, Entries and Stop are the       *)
(* client's side of a channel operation; the Recv... actions are the       *)
(* cases of the loop's select, where the two sides meet.                   *)
(*                                                                         *)
(* Data.  A schedule is abstracted by NextTime[p][t], the value its Next   *)
(* method returns at time t.  The time of the zero time.Time is Zero; the  *)
(* 100000-hour timer of an empty table is Off and never fires.  Entries    *)
(* returns pointers: a list is represented by the identifiers in it.       *)
(*                                                                         *)
(* Bounds.  MaxTime bounds the clock.  Lag bounds how late the loop takes a *)
(* timer that has fired (a Lag of MaxTime is no bound).  Ops[c] says which *)
(* operations client c ever calls: "add", "remove", "entries", "stop", and *)
(* "early" for one that may test c.running in AddJob before the start.     *)
(***************************************************************************)
EXTENDS Naturals

CONSTANTS Ids,        \* job identifiers
          Plans,      \* parsable cron plans
          Callers,    \* client goroutines
          Ops,        \* what each client calls
          MaxTime,    \* the last value of the clock
          Lag,        \* how long a fired timer may wait for the loop
          NextTime    \* the next activation of a plan strictly after a time

ASSUME BoundsAssumption == MaxTime \in Nat /\ Lag \in Nat

Times == 0 .. MaxTime
Zero  == 0
Off   == 0

\* The contract of the Schedule interface: later than the given time, or zero
\* when the plan is never satisfied again.
ASSUME NextTimeAssumption ==
    /\ NextTime \in [Plans -> [Times -> Nat]]
    /\ \A p \in Plans, t \in Times : NextTime[p][t] = Zero \/ NextTime[p][t] > t

ASSUME OpsAssumption ==
    Ops \in [Callers -> SUBSET {"early", "add", "remove", "entries", "stop"}]

Jobs    == [id : Ids, plan : Plans]
Entries == [job : Jobs, next : Nat]

\* Where a client is inside a call of the engine.
Calls == [op : {"idle", "ask", "await", "stop", "stopped"}]
           \cup [op : {"add", "write"}, job : Jobs]
           \cup [op : {"remove"}, id : Ids]

Idle == [op |-> "idle"]

VARIABLES
    clock,     \* the wall clock
    running,   \* c.running
    epc,       \* the loop: not running, before its first pass, in select, answering
    now,       \* the loop's local variable now
    entries,   \* c.entries
    sorted,    \* the identifiers in c.sortedEntries
    timer,     \* when the armed timer fires, or Off
    call,      \* the call each client is in
    view,      \* the list each client's last Entries returned
    launched   \* history: the last activation of each identifier that was launched

vars == <<clock, running, epc, now, entries, sorted, timer, call, view, launched>>

TypeOK ==
    /\ clock \in Times
    /\ running \in BOOLEAN
    /\ epc \in {"off", "boot", "select", "reply"}
    /\ now \in Times
    /\ DOMAIN entries \subseteq Ids
    /\ entries \in [DOMAIN entries -> Entries]
    /\ sorted \in SUBSET Ids
    /\ timer \in Nat
    /\ call \in [Callers -> Calls]
    /\ view \in [Callers -> SUBSET Ids]
    /\ launched \in [Ids -> Nat]

Init ==
    /\ clock = 0
    /\ running = FALSE
    /\ epc = "off"
    /\ now = 0
    /\ entries = [i \in {} |-> {}]
    /\ sorted = {}
    /\ timer = Off
    /\ call = [c \in Callers |-> Idle]
    /\ view = [c \in Callers |-> {}]
    /\ launched = [i \in Ids |-> 0]

-------------------------------------------------------------------------------
\* The entry map and the head of the loop.

Put(es, j, n) ==
    [i \in DOMAIN es \cup {j.id} |->
        IF i = j.id THEN [job |-> j, next |-> n] ELSE es[i]]

\* Mutant: the removed entry is only marked.
DropSoftly(es, id) ==
    [i \in DOMAIN es |-> IF i = id THEN [next |-> Zero, removed |-> TRUE] ELSE es[i]]

Drop(es, id) == [i \in DOMAIN es \ {id} |-> es[i]]

\* Mutant: an exhausted schedule is forgotten.
AdvanceAndForget(es, S, t) ==
    [i \in {k \in DOMAIN es : k \notin S \/ NextTime[es[k].job.plan][t] # Zero} |->
        IF i \in S THEN [job |-> es[i].job, next |-> NextTime[es[i].job.plan][t]]
        ELSE es[i]]

\* Mutant: the next activation is searched from an instant too early.
AdvanceFromBefore(es, S, t) ==
    [i \in DOMAIN es |->
        IF i \in S
        THEN [job |-> es[i].job,
              next |-> NextTime[es[i].job.plan][IF t = 0 THEN 0 ELSE t - 1]]
        ELSE es[i]]

\* Entries with a new next activation, computed from time t, for those in S.
Advance(es, S, t) ==
    [i \in DOMAIN es |->
        IF i \in S THEN [job |-> es[i].job, next |-> NextTime[es[i].job.plan][t]]
        ELSE es[i]]

Waiting(es) == {i \in DOMAIN es : es[i].next # Zero}

\* Mutant: byTime without its case for the zero time, which then sorts first.
ArmZeroFirst(es, t) ==
    /\ sorted' = DOMAIN es
    /\ \/ Waiting(es) # DOMAIN es /\ timer' = Off
       \/ /\ Waiting(es) = DOMAIN es
          /\ \E first \in DOMAIN es :
                /\ \A i \in DOMAIN es : es[first].next <= es[i].next
                /\ timer' = clock + (es[first].next - t)

\* The loop sorts the entries afresh and arms a timer for the first of them:
\* it sleeps first.Next - t, measured from the present.
Arm(es, t) ==
    /\ sorted' = DOMAIN es
    /\ \/ Waiting(es) = {} /\ timer' = Off
       \/ \E first \in Waiting(es) :
             /\ \A i \in Waiting(es) : es[first].next <= es[i].next
             /\ timer' = IF es[first].next > t
                         THEN clock + (es[first].next - t)
                         ELSE clock

-------------------------------------------------------------------------------
\* The client's side.

Enter(c, rec) == call[c] = Idle /\ call' = [call EXCEPT ![c] = rec]

Start ==
    /\ ~running
    /\ running' = TRUE
    /\ epc' = "boot"
    /\ UNCHANGED <<clock, now, entries, sorted, timer, call, view, launched>>

\* AddJob once the engine is running: block on c.add.
CallAdd(c, j) ==
    /\ "add" \in Ops[c]
    /\ running
    /\ Enter(c, [op |-> "add", job |-> j])
    /\ UNCHANGED <<clock, running, epc, now, entries, sorted, timer, view, launched>>

\* AddJob has read c.running as false and is about to write the map itself.
\* Its job is new, now and when it is written: a reconciliation adds under a
\* fresh uuid what it does not track yet.
CallAddEarly(c, j) ==
    /\ "early" \in Ops[c]
    /\ ~running
    /\ j.id \notin DOMAIN entries
    /\ Enter(c, [op |-> "write", job |-> j])
    /\ UNCHANGED <<clock, running, epc, now, entries, sorted, timer, view, launched>>

\* The write, with no synchronisation with a loop started in between.
WriteEarly(c) ==
    /\ call[c].op = "write"
    /\ call[c].job.id \notin DOMAIN entries
    /\ entries' = Put(entries, call[c].job, Zero)
    /\ call' = [call EXCEPT ![c] = Idle]
    /\ UNCHANGED <<clock, running, epc, now, sorted, timer, view, launched>>

\* RemoveJob blocks on c.remove whether or not the engine is running.
CallRemove(c, id) ==
    /\ "remove" \in Ops[c]
    /\ Enter(c, [op |-> "remove", id |-> id])
    /\ UNCHANGED <<clock, running, epc, now, entries, sorted, timer, view, launched>>

\* Entries of a running engine: first offer a nil list on c.snapshot ...
CallEntries(c) ==
    /\ "entries" \in Ops[c]
    /\ running
    /\ Enter(c, [op |-> "ask"])
    /\ UNCHANGED <<clock, running, epc, now, entries, sorted, timer, view, launched>>

\* ... of an engine that is not running: whatever the last sort left.
EntriesOff(c) ==
    /\ "entries" \in Ops[c]
    /\ ~running
    /\ call[c] = Idle
    /\ view' = [view EXCEPT ![c] = sorted]
    /\ UNCHANGED <<clock, running, epc, now, entries, sorted, timer, call, launched>>

\* Mutant: the flag is lowered before the loop has taken the signal.
CallStopHasty(c) ==
    /\ "stop" \in Ops[c]
    /\ running
    /\ running' = FALSE
    /\ Enter(c, [op |-> "stop"])
    /\ UNCHANGED <<clock, epc, now, entries, sorted, timer, view, launched>>

CallStop(c) ==
    /\ "stop" \in Ops[c]
    /\ running
    /\ Enter(c, [op |-> "stop"])
    /\ UNCHANGED <<clock, running, epc, now, entries, sorted, timer, view, launched>>

\* Stop resets c.running only after the loop has taken its signal.
ReturnStop(c) ==
    /\ call[c].op = "stopped"
    /\ running' = FALSE
    /\ call' = [call EXCEPT ![c] = Idle]
    /\ UNCHANGED <<clock, epc, now, entries, sorted, timer, view, launched>>

-------------------------------------------------------------------------------
\* The loop.

\* The first pass of run: every entry gets its next activation.
Boot ==
    /\ epc = "boot"
    /\ epc' = "select"
    /\ now' = clock
    /\ entries' = Advance(entries, DOMAIN entries, clock)
    /\ Arm(entries', clock)
    /\ UNCHANGED <<clock, running, call, view, launched>>

\* The timer case.  The value received is the time the timer fired, which may
\* be before the loop got round to it.
DueAt(t) == {i \in sorted : entries[i].next # Zero /\ entries[i].next <= t}

Wake ==
    /\ epc = "select"
    /\ timer # Off
    /\ \E t \in timer .. clock :
          /\ now' = t
          /\ launched' = [i \in Ids |-> IF i \in DueAt(t) THEN entries[i].next
                                        ELSE launched[i]]
          /\ entries' = Advance(entries, DueAt(t), t)
          /\ Arm(entries', t)
    /\ UNCHANGED <<clock, running, epc, call, view>>

\* Mutant: the add case without its c.now().
RecvAddStale(c) ==
    /\ epc = "select"
    /\ call[c].op = "add"
    /\ entries' = Put(entries, call[c].job, NextTime[call[c].job.plan][now])
    /\ Arm(entries', now)
    /\ call' = [call EXCEPT ![c] = Idle]
    /\ UNCHANGED <<clock, running, epc, now, view, launched>>

\* Mutant: the add case goes on with the list and the timer it had.
RecvAddContinue(c) ==
    /\ epc = "select"
    /\ call[c].op = "add"
    /\ entries' = Put(entries, call[c].job, NextTime[call[c].job.plan][clock])
    /\ call' = [call EXCEPT ![c] = Idle]
    /\ UNCHANGED <<clock, running, epc, now, sorted, timer, view, launched>>

RecvAdd(c) ==
    /\ epc = "select"
    /\ call[c].op = "add"
    /\ now' = clock
    /\ entries' = Put(entries, call[c].job, NextTime[call[c].job.plan][clock])
    /\ Arm(entries', clock)
    /\ call' = [call EXCEPT ![c] = Idle]
    /\ UNCHANGED <<clock, running, epc, view, launched>>

\* Mutant: the remove case refreshes the list but keeps the old timer.
RecvRemoveKeepTimer(c) ==
    /\ epc = "select"
    /\ call[c].op = "remove"
    /\ entries' = Drop(entries, call[c].id)
    /\ sorted' = DOMAIN entries'
    /\ call' = [call EXCEPT ![c] = Idle]
    /\ UNCHANGED <<clock, running, epc, now, timer, view, launched>>

\* The remove case deletes the entry and re-arms, but leaves now as it was.
RecvRemove(c) ==
    /\ epc = "select"
    /\ call[c].op = "remove"
    /\ entries' = Drop(entries, call[c].id)
    /\ Arm(entries', now)
    /\ call' = [call EXCEPT ![c] = Idle]
    /\ UNCHANGED <<clock, running, epc, now, view, launched>>

\* Mutant: the answer is left to another goroutine and the loop goes on.
RecvAskAsync(c) ==
    /\ epc = "select"
    /\ call[c].op = "ask"
    /\ call' = [call EXCEPT ![c] = [op |-> "await"]]
    /\ UNCHANGED <<clock, running, epc, now, entries, sorted, timer, view, launched>>

\* The snapshot case takes a client's nil list ...
RecvAsk(c) ==
    /\ epc = "select"
    /\ call[c].op = "ask"
    /\ epc' = "reply"
    /\ call' = [call EXCEPT ![c] = [op |-> "await"]]
    /\ UNCHANGED <<clock, running, now, entries, sorted, timer, view, launched>>

\* Mutant: return instead of continue after the answer.
ReplyAndReturn(c) ==
    /\ epc = "reply"
    /\ call[c].op = "await"
    /\ epc' = "off"
    /\ view' = [view EXCEPT ![c] = sorted]
    /\ call' = [call EXCEPT ![c] = Idle]
    /\ UNCHANGED <<clock, running, now, entries, sorted, timer, launched>>

\* ... and offers the sorted entries on the same channel.
Reply(c) ==
    /\ epc = "reply"
    /\ call[c].op = "await"
    /\ epc' = "select"
    /\ view' = [view EXCEPT ![c] = sorted]
    /\ call' = [call EXCEPT ![c] = Idle]
    /\ UNCHANGED <<clock, running, now, entries, sorted, timer, launched>>

\* A client offering its nil list and one waiting for an answer are on the two
\* ends of the same channel: the nil list may be taken for the answer.
Cross(a, b) ==
    /\ call[a].op = "await"
    /\ call[b].op = "ask"
    /\ view' = [view EXCEPT ![a] = {}]
    /\ call' = [call EXCEPT ![a] = Idle, ![b] = [op |-> "await"]]
    /\ UNCHANGED <<clock, running, epc, now, entries, sorted, timer, launched>>

RecvStop(c) ==
    /\ epc = "select"
    /\ call[c].op = "stop"
    /\ epc' = "off"
    /\ timer' = Off
    /\ call' = [call EXCEPT ![c] = [op |-> "stopped"]]
    /\ UNCHANGED <<clock, running, now, entries, sorted, view, launched>>

Tick ==
    /\ clock < MaxTime
    /\ timer # Off => clock < timer + Lag
    /\ clock' = clock + 1
    /\ UNCHANGED <<running, epc, now, entries, sorted, timer, call, view, launched>>

-------------------------------------------------------------------------------
Receive(c) == RecvAdd(c) \/ RecvRemove(c) \/ RecvAsk(c) \/ RecvStop(c)

Client(c) ==
    \/ \E j \in Jobs : CallAdd(c, j) \/ CallAddEarly(c, j)
    \/ \E id \in Ids : CallRemove(c, id)
    \/ CallEntries(c)
    \/ EntriesOff(c)
    \/ CallStop(c)
    \/ WriteEarly(c)
    \/ ReturnStop(c)

Next ==
    \/ Start
    \/ Boot
    \/ Wake
    \/ Tick
    \/ \E c \in Callers : Client(c) \/ Receive(c) \/ Reply(c)
    \/ \E a, b \in Callers : Cross(a, b)

Spec == Init /\ [][Next]_vars

\* The goroutines are scheduled; the senders blocked on a channel, clients or
\* loop, are served first in first out, and a select with several ready cases
\* picks one at random: no client, answer or timer is passed over for ever.
Fairness ==
    /\ WF_vars(Start)
    /\ WF_vars(Boot)
    /\ WF_vars(Tick)
    /\ SF_vars(Wake)
    /\ SF_vars(\E c \in Callers : Reply(c))
    /\ \A c \in Callers :
          /\ WF_vars(WriteEarly(c) \/ ReturnStop(c))
          /\ SF_vars(Receive(c))

FairSpec == Spec /\ Fairness

-------------------------------------------------------------------------------
\* Properties.

\* The loop offers an answer exactly when one client waits for it, however
\* many clients' requests have crossed on c.snapshot: no client is left waiting
\* and the loop is never stuck in its own send (cron.go:150-153, 250-252).
Handoff ==
    /\ \A a, b \in Callers : call[a].op = "await" /\ call[b].op = "await" => a = b
    /\ epc = "reply" <=> \E c \in Callers : call[c].op = "await"

\* There is never more than one loop: the flag that lets Start launch another
\* is down only once the loop has returned, and one Stop at a time has seen it
\* return (cron.go:164-170, 275-281).
OneLoop ==
    /\ ~running => epc = "off" /\ \A c \in Callers : call[c].op # "stopped"
    /\ \A a, b \in Callers :
          call[a].op = "stopped" /\ call[b].op = "stopped" => a = b
    /\ (\E c \in Callers : call[c].op = "stopped") => epc = "off"

\* While the loop is in its select, an armed timer is never earlier than the
\* first activation: each time it fires, some job is launched (cron.go:218-230).
NoIdleWake ==
    timer # Off =>
        \E i \in sorted : entries[i].next # Zero /\ entries[i].next <= timer

\* A timer is armed whenever some listed entry awaits an activation; the loop
\* never sleeps 100000 hours over a job (cron.go:218-224).
NeverOversleeps ==
    epc \in {"select", "reply"} /\ (\E i \in sorted : entries[i].next # Zero)
        => timer # Off

\* What an entry waits for is later than anything launched under its
\* identifier: no activation is launched twice, across late wake-ups, updates
\* of the job and restarts of the loop (cron.go:206-209, 228-244).
NoRelaunch ==
    \A i \in DOMAIN entries :
        entries[i].next = Zero \/ entries[i].next > launched[i]

\* The list the loop hands to a client of Entries is the entries it had at that
\* moment (cron.go:148 "Entries returns a snapshot of the cron entries.").  A
\* client that takes another's request for its answer gets none of this.
SnapshotFaithful ==
    [][\A c \in Callers :
          call[c].op = "await" /\ call'[c].op = "idle" /\ epc # epc'
              => view'[c] = DOMAIN entries]_vars

\* doc.go: "Cron sleeps until the next job is due to be run."  The timer is due
\* by the first activation (late by no more than the loop itself was when it
\* armed it), or at once if that has passed.
SleepsUntilDue ==
    epc \in {"select", "reply"} =>
        \A i \in sorted : entries[i].next # Zero =>
            timer # Off /\ (timer <= entries[i].next + Lag \/ timer <= clock)

\* Every call of AddJob, RemoveJob or Entries returns (no channel operation of
\* a client or of the loop blocks for ever) as long as nobody calls Stop.
CallsReturn == \A c \in Callers : call[c].op # "idle" ~> call[c].op = "idle"

\* An activation the loop computed is not slept through: the entry is launched,
\* or replaced or removed, once its time has come (cron.go:213-244).
ActivationsHappen ==
    \A i \in Ids, n \in {t \in Times : t > 0 /\ t + Lag <= MaxTime} :
        (i \in DOMAIN entries /\ entries[i].next = n)
            ~> ~(i \in DOMAIN entries /\ entries[i].next = n)

\* The engine implements the table of jobs its clients rely on.
Table == INSTANCE JobTable
            WITH table <- [i \in DOMAIN entries |-> entries[i].job]

ImplementsTable == Table!TableSpec
===============================================================================
