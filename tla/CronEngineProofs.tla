--------------------------- MODULE CronEngineProofs ---------------------------
(***************************************************************************)
(* Theorems about CronEngine, for any identifiers, plans, clients, clock   *)
(* bound and schedules that respect the Schedule contract.                 *)
(*                                                                         *)
(* The properties are proved from one inductive invariant, IInv.  Its      *)
(* conjuncts beyond the type: the sorted list names entries of the map,    *)
(* the loop's now is behind the clock and behind the armed timer, and what *)
(* was launched lies in the past of now.  LoopStep collects what the four  *)
(* steps that pass the head of the loop have in common.  Two results hold  *)
(* only of some clients: the loop sleeps until the next job is due while   *)
(* nobody removes one, and its answers list every entry while nobody adds  *)
(* across the start.                                                       *)
(***************************************************************************)
EXTENDS CronEngine, TLAPS

SortedListed == sorted \subseteq DOMAIN entries

NowBehind ==
    /\ now <= clock
    /\ timer # Off => now <= timer

LaunchedPast == \A i \in Ids : launched[i] <= now

IInv ==
    /\ TypeOK
    /\ SortedListed
    /\ NowBehind
    /\ LaunchedPast
    /\ NoRelaunch

-------------------------------------------------------------------------------
\* The operators on entry maps.

LEMMA PutEntry ==
    ASSUME NEW es, DOMAIN es \subseteq Ids, es \in [DOMAIN es -> Entries],
           NEW j \in Jobs, NEW n \in Nat
    PROVE  /\ DOMAIN Put(es, j, n) = DOMAIN es \cup {j.id}
           /\ DOMAIN Put(es, j, n) \subseteq Ids
           /\ Put(es, j, n) \in [DOMAIN Put(es, j, n) -> Entries]
           /\ Put(es, j, n)[j.id] = [job |-> j, next |-> n]
           /\ \A i \in DOMAIN es \ {j.id} : Put(es, j, n)[i] = es[i]
BY DEF Put, Jobs, Entries

LEMMA DropEntry ==
    ASSUME NEW es, DOMAIN es \subseteq Ids, es \in [DOMAIN es -> Entries], NEW id
    PROVE  /\ DOMAIN Drop(es, id) = DOMAIN es \ {id}
           /\ DOMAIN Drop(es, id) \subseteq Ids
           /\ Drop(es, id) \in [DOMAIN Drop(es, id) -> Entries]
           /\ \A i \in DOMAIN es \ {id} : Drop(es, id)[i] = es[i]
BY DEF Drop

\* Advancing keeps the jobs and computes activations after t, or none.
LEMMA AdvanceEntries ==
    ASSUME NEW es, DOMAIN es \subseteq Ids, es \in [DOMAIN es -> Entries],
           NEW S, NEW t \in Times
    PROVE  /\ DOMAIN Advance(es, S, t) = DOMAIN es
           /\ Advance(es, S, t) \in [DOMAIN es -> Entries]
           /\ \A i \in DOMAIN es :
                 /\ Advance(es, S, t)[i].job = es[i].job
                 /\ i \notin S => Advance(es, S, t)[i] = es[i]
                 /\ i \in S => \/ Advance(es, S, t)[i].next = Zero
                               \/ Advance(es, S, t)[i].next > t
<1>1. ASSUME NEW i \in DOMAIN es
      PROVE  /\ es[i] \in Entries
             /\ es[i].job \in Jobs /\ es[i].job.plan \in Plans
             /\ es[i] = [job |-> es[i].job, next |-> es[i].next]
      BY DEF Entries, Jobs
<1>2. ASSUME NEW p \in Plans
      PROVE  NextTime[p][t] \in Nat /\ (NextTime[p][t] = Zero \/ NextTime[p][t] > t)
      BY NextTimeAssumption
<1>3. DOMAIN Advance(es, S, t) = DOMAIN es
      BY DEF Advance
<1>4. ASSUME NEW i \in DOMAIN es
      PROVE  /\ Advance(es, S, t)[i] \in Entries
             /\ Advance(es, S, t)[i].job = es[i].job
             /\ i \notin S => Advance(es, S, t)[i] = es[i]
             /\ i \in S => \/ Advance(es, S, t)[i].next = Zero
                           \/ Advance(es, S, t)[i].next > t
      BY <1>1, <1>2 DEF Advance, Entries
<1>5. Advance(es, S, t) \in [DOMAIN es -> Entries]
      BY <1>4 DEF Advance
<1> QED BY <1>3, <1>4, <1>5

\* What the head of the loop arms: never before now, never over a waiting
\* entry, never for nothing.
LEMMA ArmTimer ==
    ASSUME NEW es, DOMAIN es \subseteq Ids, es \in [DOMAIN es -> Entries],
           NEW t \in Times, clock \in Times, t <= clock, Arm(es, t)
    PROVE  /\ sorted' = DOMAIN es
           /\ timer' \in Nat
           /\ timer' # Off => t <= timer'
           /\ timer' # Off => \E i \in DOMAIN es : es[i].next # Zero /\ es[i].next <= timer'
           /\ (\E i \in DOMAIN es : es[i].next # Zero) => timer' # Off
<1>1. sorted' = DOMAIN es
      BY DEF Arm
<1>2. CASE Waiting(es) = {} /\ timer' = Off
      BY <1>1, <1>2 DEF Waiting, Off
<1>3. ASSUME NEW first \in Waiting(es),
             timer' = IF es[first].next > t THEN clock + (es[first].next - t) ELSE clock
      PROVE  /\ timer' \in Nat
             /\ timer' # Off
             /\ t <= timer'
             /\ es[first].next <= timer'
  <2>1. es[first].next \in Nat /\ es[first].next # 0 /\ first \in DOMAIN es
        BY DEF Waiting, Entries, Zero
  <2>2. clock \in Nat /\ t \in Nat
        BY BoundsAssumption DEF Times
  <2>3. CASE es[first].next > t
        BY <1>3, <2>1, <2>2, <2>3 DEF Off
  <2>4. CASE ~(es[first].next > t)
        BY <1>3, <2>1, <2>2, <2>4 DEF Off
  <2> QED BY <2>3, <2>4
<1> QED BY <1>1, <1>2, <1>3 DEF Arm, Waiting

-------------------------------------------------------------------------------
\* The inductive invariant.

LEMMA CallRecords ==
    /\ \A o \in {"idle", "ask", "await", "stop", "stopped"} : [op |-> o] \in Calls
    /\ \A o \in {"add", "write"}, j \in Jobs : [op |-> o, job |-> j] \in Calls
    /\ \A id \in Ids : [op |-> "remove", id |-> id] \in Calls
BY DEF Calls

LEMMA InitIInv == Init => IInv
<1> SUFFICES ASSUME Init PROVE IInv
    OBVIOUS
<1>1. DOMAIN entries = {} /\ entries \in [DOMAIN entries -> Entries]
      BY DEF Init
<1>2. call \in [Callers -> Calls]
      BY CallRecords DEF Init, Idle
<1>3. TypeOK
  <2>1. 0 \in Times
        BY BoundsAssumption DEF Times
  <2>2. /\ clock \in Times /\ now \in Times /\ timer \in Nat /\ sorted \in SUBSET Ids
        /\ running \in BOOLEAN /\ epc \in {"off", "boot", "select", "reply"}
        BY <2>1 DEF Init, Off
  <2>3. view \in [Callers -> SUBSET Ids] /\ launched \in [Ids -> Nat]
        BY DEF Init
  <2> QED BY <1>1, <1>2, <2>2, <2>3 DEF TypeOK
<1>4. SortedListed /\ NowBehind /\ LaunchedPast /\ NoRelaunch
      BY <1>1 DEF Init, SortedListed, NowBehind, LaunchedPast, NoRelaunch, Off
<1> QED BY <1>3, <1>4 DEF IInv

\* A client's action keeps the loop's variables; at most it enters a call,
\* returns from one, or writes a new entry without an activation.
LEMMA ClientIInv ==
    ASSUME IInv, NEW c \in Callers, Client(c)
    PROVE  IInv'
<1> USE DEF IInv
<1>1. ASSUME NEW j \in Jobs, CallAdd(c, j) \/ CallAddEarly(c, j)
      PROVE  IInv'
      BY <1>1 DEF CallAdd, CallAddEarly, Enter, TypeOK, Calls, SortedListed,
         NowBehind, LaunchedPast, NoRelaunch
<1>2. ASSUME NEW id \in Ids, CallRemove(c, id)
      PROVE  IInv'
      BY <1>2 DEF CallRemove, Enter, TypeOK, Calls, SortedListed,
         NowBehind, LaunchedPast, NoRelaunch
<1>3. ASSUME CallEntries(c) \/ CallStop(c) \/ ReturnStop(c)
      PROVE  IInv'
      BY <1>3, CallRecords DEF CallEntries, CallStop, ReturnStop, Enter, Idle, TypeOK,
         SortedListed, NowBehind, LaunchedPast, NoRelaunch
<1>4. CASE EntriesOff(c)
      BY <1>4 DEF EntriesOff, TypeOK, SortedListed, NowBehind, LaunchedPast, NoRelaunch
<1>5. CASE WriteEarly(c)
  <2> DEFINE j == call[c].job
  <2>1. j \in Jobs
        BY <1>5 DEF WriteEarly, TypeOK, Calls
  <2>2. entries' = Put(entries, j, Zero)
        BY <1>5 DEF WriteEarly
  <2> HIDE DEF j
  <2>3. /\ DOMAIN entries' = DOMAIN entries \cup {j.id}
        /\ DOMAIN entries' \subseteq Ids
        /\ entries' \in [DOMAIN entries' -> Entries]
        /\ entries'[j.id] = [job |-> j, next |-> Zero]
        /\ \A i \in DOMAIN entries \ {j.id} : entries'[i] = entries[i]
    <3>1. DOMAIN entries \subseteq Ids /\ entries \in [DOMAIN entries -> Entries]
          BY DEF TypeOK
    <3>2. Zero \in Nat
          BY DEF Zero
    <3> QED BY ONLY <2>1, <2>2, <3>1, <3>2, PutEntry
  <2>4. TypeOK'
        BY <1>5, <2>3 DEF WriteEarly, TypeOK, Calls, Idle
  <2>5. NoRelaunch'
        BY <1>5, <2>3 DEF WriteEarly, NoRelaunch
  <2>6. SortedListed' /\ NowBehind' /\ LaunchedPast'
        BY <1>5, <2>3 DEF WriteEarly, SortedListed, NowBehind, LaunchedPast
  <2> QED BY <2>4, <2>5, <2>6
<1> QED BY <1>1, <1>2, <1>3, <1>4, <1>5 DEF Client

\* A step through the head of the loop: the entries are well formed, now moves
\* from the past towards the clock, and every waiting entry is new.
LEMMA LoopStep ==
    ASSUME IInv,
           UNCHANGED <<clock, running, view>>,
           epc' \in {"off", "boot", "select", "reply"},
           call' \in [Callers -> Calls],
           DOMAIN entries' \subseteq Ids,
           entries' \in [DOMAIN entries' -> Entries],
           now' \in Times, now' <= clock,
           launched' \in [Ids -> Nat],
           \A i \in Ids : launched'[i] <= now',
           NoRelaunch',
           Arm(entries', now')
    PROVE  IInv'
<1>1. /\ sorted' = DOMAIN entries'
      /\ timer' \in Nat
      /\ timer' # Off => now' <= timer'
      BY ArmTimer DEF IInv, TypeOK
<1>2. TypeOK'
      BY <1>1 DEF IInv, TypeOK
<1>3. SortedListed' /\ NowBehind' /\ LaunchedPast'
      BY <1>1 DEF SortedListed, NowBehind, LaunchedPast
<1> QED BY <1>2, <1>3 DEF IInv

\* What was launched is in the past of any time after now.
LEMMA LaunchedBefore ==
    ASSUME IInv, NEW t \in Nat, now <= t
    PROVE  \A i \in Ids : launched[i] \in Nat /\ launched[i] <= t
<1> SUFFICES ASSUME NEW i \in Ids PROVE launched[i] \in Nat /\ launched[i] <= t
    OBVIOUS
<1>1. launched[i] \in Nat
      BY DEF IInv, TypeOK
<1>2. now \in Nat
      BY BoundsAssumption DEF IInv, TypeOK, Times
<1>3. launched[i] <= now
      BY DEF IInv, LaunchedPast
<1> HIDE DEF IInv
<1> QED BY <1>1, <1>2, <1>3

LEMMA BootIInv == IInv /\ Boot => IInv'
<1> SUFFICES ASSUME IInv, Boot PROVE IInv'
    OBVIOUS
<1> USE DEF IInv
<1>1. /\ clock \in Times /\ DOMAIN entries \subseteq Ids
      /\ entries \in [DOMAIN entries -> Entries]
      /\ entries' = Advance(entries, DOMAIN entries, clock)
      BY DEF TypeOK, Boot
<1>2. /\ DOMAIN entries' = DOMAIN entries
      /\ entries' \in [DOMAIN entries' -> Entries]
      /\ \A i \in DOMAIN entries' :
            entries'[i].next = Zero \/ entries'[i].next > clock
      BY <1>1, AdvanceEntries
<1>3. \A i \in Ids : launched[i] \in Nat /\ launched[i] <= clock
      BY LaunchedBefore, BoundsAssumption DEF TypeOK, NowBehind, Times
<1>4. NoRelaunch'
  <2>1. ASSUME NEW i \in DOMAIN entries', entries'[i].next > clock
        PROVE  entries'[i].next > launched[i]
        BY <1>1, <1>2, <1>3, <2>1, BoundsAssumption DEF Entries, Times
  <2> QED BY <1>2, <2>1 DEF Boot, NoRelaunch
<1>5. clock <= clock
      BY <1>1, BoundsAssumption DEF Times
<1> QED BY <1>1, <1>2, <1>3, <1>4, <1>5, LoopStep DEF Boot, TypeOK

LEMMA WakeIInv == IInv /\ Wake => IInv'
<1> SUFFICES ASSUME IInv, Wake PROVE IInv'
    OBVIOUS
<1> USE DEF IInv
<1>1. PICK t \in timer .. clock :
        /\ now' = t
        /\ launched' = [i \in Ids |-> IF i \in DueAt(t) THEN entries[i].next
                                      ELSE launched[i]]
        /\ entries' = Advance(entries, DueAt(t), t)
        /\ Arm(entries', t)
      BY DEF Wake
<1>2. /\ t \in Times /\ t <= clock /\ now <= t
      /\ DOMAIN entries \subseteq Ids /\ entries \in [DOMAIN entries -> Entries]
      /\ launched \in [Ids -> Nat]
      BY BoundsAssumption DEF TypeOK, Times, NowBehind, Wake
<1>3. \A i \in DueAt(t) : i \in DOMAIN entries /\ entries[i].next \in Nat /\ entries[i].next <= t
      BY <1>2 DEF DueAt, SortedListed, Entries
<1>4. launched' \in [Ids -> Nat]
      BY <1>1, <1>2, <1>3
<1>5. \A i \in Ids : launched'[i] <= now'
  <2>1. \A i \in Ids : launched[i] <= t
        BY <1>2, LaunchedBefore, BoundsAssumption DEF Times
  <2> QED BY <1>1, <1>3, <2>1
<1>6. /\ DOMAIN entries' = DOMAIN entries
      /\ entries' \in [DOMAIN entries' -> Entries]
      /\ \A i \in DOMAIN entries \ DueAt(t) : entries'[i] = entries[i]
      /\ \A i \in DueAt(t) : entries'[i].next = Zero \/ entries'[i].next > t
      BY <1>1, <1>2, <1>3, AdvanceEntries
<1>7. NoRelaunch'
  <2>1. ASSUME NEW i \in DueAt(t), entries'[i].next > t
        PROVE  entries'[i].next > launched'[i]
        BY <1>1, <1>2, <1>3, <1>4, <1>5, <1>6, <2>1, BoundsAssumption DEF Entries, Times
  <2>2. ASSUME NEW i \in DOMAIN entries \ DueAt(t)
        PROVE  entries'[i].next = Zero \/ entries'[i].next > launched'[i]
        BY <1>1, <1>2, <1>6 DEF NoRelaunch
  <2> QED BY <1>6, <2>1, <2>2 DEF NoRelaunch
<1> QED BY <1>1, <1>2, <1>4, <1>5, <1>6, <1>7, LoopStep DEF Wake, TypeOK

LEMMA RecvAddIInv == ASSUME IInv, NEW c \in Callers, RecvAdd(c) PROVE IInv'
<1> USE DEF IInv
<1> DEFINE j == call[c].job
           n == NextTime[j.plan][clock]
<1>1. /\ clock \in Times /\ DOMAIN entries \subseteq Ids
      /\ entries \in [DOMAIN entries -> Entries]
      /\ clock <= clock
      BY BoundsAssumption DEF TypeOK, Times
<1>2. j \in Jobs
      BY DEF RecvAdd, TypeOK, Calls
<1>3. n \in Nat /\ (n = Zero \/ n > clock)
      BY <1>1, <1>2, NextTimeAssumption DEF Jobs
<1>4. entries' = Put(entries, j, n) /\ now' = clock /\ Arm(entries', now')
      BY DEF RecvAdd
<1> HIDE DEF j, n
<1>5. /\ DOMAIN entries' = DOMAIN entries \cup {j.id}
      /\ DOMAIN entries' \subseteq Ids
      /\ entries' \in [DOMAIN entries' -> Entries]
      /\ entries'[j.id] = [job |-> j, next |-> n]
      /\ \A i \in DOMAIN entries \ {j.id} : entries'[i] = entries[i]
      BY ONLY <1>1, <1>2, <1>3, <1>4, PutEntry
<1>6. \A i \in Ids : launched[i] \in Nat /\ launched[i] <= clock
      BY LaunchedBefore, BoundsAssumption DEF TypeOK, NowBehind, Times
<1>7. NoRelaunch'
  <2>1. j.id \in Ids
        BY <1>2 DEF Jobs
  <2>2. entries'[j.id].next = Zero \/ entries'[j.id].next > launched[j.id]
        BY <1>1, <1>3, <1>5, <1>6, <2>1, BoundsAssumption DEF Times
  <2> QED BY <1>5, <2>2 DEF RecvAdd, NoRelaunch
<1>8. call' \in [Callers -> Calls]
      BY CallRecords DEF RecvAdd, Idle, TypeOK
<1> QED BY <1>1, <1>4, <1>5, <1>6, <1>7, <1>8, LoopStep DEF RecvAdd, TypeOK

LEMMA RecvRemoveIInv == ASSUME IInv, NEW c \in Callers, RecvRemove(c) PROVE IInv'
<1> USE DEF IInv
<1>1. /\ DOMAIN entries \subseteq Ids /\ entries \in [DOMAIN entries -> Entries]
      /\ entries' = Drop(entries, call[c].id)
      BY DEF TypeOK, RecvRemove
<1>2. /\ DOMAIN entries' = DOMAIN entries \ {call[c].id}
      /\ DOMAIN entries' \subseteq Ids
      /\ entries' \in [DOMAIN entries' -> Entries]
      /\ \A i \in DOMAIN entries' : entries'[i] = entries[i]
      BY <1>1, DropEntry
<1>3. NoRelaunch'
      BY <1>2 DEF RecvRemove, NoRelaunch
<1>4. call' \in [Callers -> Calls]
      BY CallRecords DEF RecvRemove, Idle, TypeOK
<1> QED BY <1>1, <1>2, <1>3, <1>4, LoopStep DEF RecvRemove, TypeOK, NowBehind, LaunchedPast

\* The steps that hand over a list or a signal, and the clock.
LEMMA OtherIInv ==
    ASSUME IInv,
           \/ Start \/ Tick
           \/ \E c \in Callers : RecvAsk(c) \/ RecvStop(c) \/ Reply(c)
           \/ \E a, b \in Callers : Cross(a, b)
    PROVE  IInv'
<1> USE DEF IInv
<1>1. CASE Start
      BY <1>1 DEF Start, TypeOK, SortedListed, NowBehind, LaunchedPast, NoRelaunch
<1>2. CASE Tick
      BY <1>2, BoundsAssumption
      DEF Tick, Times, TypeOK, SortedListed, NowBehind, LaunchedPast, NoRelaunch
<1>3. ASSUME NEW c \in Callers, RecvAsk(c) \/ RecvStop(c) \/ Reply(c)
      PROVE  IInv'
      BY <1>3, CallRecords
      DEF RecvAsk, RecvStop, Reply, Idle, Off, TypeOK, SortedListed, NowBehind,
          LaunchedPast, NoRelaunch
<1>4. ASSUME NEW a \in Callers, NEW b \in Callers, Cross(a, b)
      PROVE  IInv'
      BY <1>4, CallRecords
      DEF Cross, Idle, TypeOK, SortedListed, NowBehind, LaunchedPast, NoRelaunch
<1> QED BY <1>1, <1>2, <1>3, <1>4

THEOREM Inductive == Spec => []IInv
<1>1. IInv /\ UNCHANGED vars => IInv'
      BY DEF vars, IInv, TypeOK, SortedListed, NowBehind, LaunchedPast, NoRelaunch
<1>2. IInv /\ Next => IInv'
      BY ClientIInv, BootIInv, WakeIInv, RecvAddIInv, RecvRemoveIInv, OtherIInv
      DEF Next, Receive
<1> QED BY InitIInv, <1>1, <1>2, PTL DEF Spec

-------------------------------------------------------------------------------
\* Consequences.

\* The state of the engine and of its clients keeps its type.
THEOREM TypeCorrect == Spec => []TypeOK
BY Inductive, PTL DEF IInv

\* No activation is launched twice, whatever the clients call and however late
\* the loop wakes, re-adds a job or is restarted.
THEOREM LaunchedOnce == Spec => []NoRelaunch
BY Inductive, PTL DEF IInv

\* The timer, for every step that passes the head of the loop.
TimerInv == NoIdleWake /\ NeverOversleeps

LEMMA LoopTimer ==
    ASSUME IInv, IInv', clock' = clock, Arm(entries', now')
    PROVE  TimerInv'
<1>1. /\ DOMAIN entries' \subseteq Ids /\ entries' \in [DOMAIN entries' -> Entries]
      /\ now' \in Times /\ clock \in Times /\ now' <= clock
      BY DEF IInv, TypeOK, NowBehind
<1> QED BY <1>1, ArmTimer DEF TimerInv, NoIdleWake, NeverOversleeps

\* Every wake-up of the loop launches something, and the loop never sleeps its
\* 100000 hours over a listed entry that has an activation to come.
THEOREM TimerCorrect == Spec => [](NoIdleWake /\ NeverOversleeps)
<1>1. Init => TimerInv
      BY DEF Init, TimerInv, NoIdleWake, NeverOversleeps, Off
<1>2. IInv /\ IInv' /\ TimerInv /\ [Next]_vars => TimerInv'
  <2> SUFFICES ASSUME IInv, IInv', TimerInv, [Next]_vars PROVE TimerInv'
      OBVIOUS
  <2>1. CASE Boot
        BY <2>1, LoopTimer DEF Boot
  <2>2. CASE Wake
        BY <2>2, LoopTimer DEF Wake
  <2>3. ASSUME NEW c \in Callers, RecvAdd(c)
        PROVE  TimerInv'
        BY <2>3, LoopTimer DEF RecvAdd
  <2>4. ASSUME NEW c \in Callers, RecvRemove(c)
        PROVE  TimerInv'
        BY <2>4, LoopTimer DEF RecvRemove
  <2>5. ASSUME NEW c \in Callers, WriteEarly(c)
        PROVE  TimerInv'
    <3>1. \A i \in sorted : entries'[i] = entries[i]
          BY <2>5 DEF WriteEarly, Put, IInv, SortedListed
    <3> QED BY <2>5, <3>1 DEF WriteEarly, TimerInv, NoIdleWake, NeverOversleeps
  <2>6. CASE Start \/ Tick
        BY <2>6 DEF Start, Tick, TimerInv, NoIdleWake, NeverOversleeps
  <2>7. ASSUME NEW c \in Callers, RecvAsk(c) \/ RecvStop(c) \/ Reply(c)
        PROVE  TimerInv'
        BY <2>7 DEF RecvAsk, RecvStop, Reply, TimerInv, NoIdleWake, NeverOversleeps, Off
  <2>8. ASSUME NEW a \in Callers, NEW b \in Callers, Cross(a, b)
        PROVE  TimerInv'
        BY <2>8 DEF Cross, TimerInv, NoIdleWake, NeverOversleeps
  <2>9. ASSUME NEW c \in Callers, Client(c), ~WriteEarly(c)
        PROVE  TimerInv'
        BY <2>9 DEF Client, CallAdd, CallAddEarly, CallRemove, CallEntries, EntriesOff,
           CallStop, ReturnStop, TimerInv, NoIdleWake, NeverOversleeps
  <2>10. CASE UNCHANGED vars
        BY <2>10 DEF vars, TimerInv, NoIdleWake, NeverOversleeps
  <2> QED BY <2>1, <2>2, <2>3, <2>4, <2>5, <2>6, <2>7, <2>8, <2>9, <2>10 DEF Next, Receive
<1>3. TimerInv => NoIdleWake /\ NeverOversleeps
      BY DEF TimerInv
<1> QED BY <1>1, <1>2, <1>3, Inductive, PTL DEF Spec

\* The two facts apart: the loop is never woken for nothing (cron.go:214-239).
THEOREM NeverIdle == Spec => []NoIdleWake
BY TimerCorrect, PTL

\* At most one loop runs, across any calls of Start and Stop.
THEOREM OneLoopHolds == Spec => []OneLoop
<1>1. Init => OneLoop
      BY DEF Init, OneLoop, Idle
<1>2. TypeOK /\ OneLoop /\ [Next]_vars => OneLoop'
  <2> SUFFICES ASSUME TypeOK, OneLoop, [Next]_vars PROVE OneLoop'
      OBVIOUS
  <2>1. call \in [Callers -> Calls]
        BY DEF TypeOK
  <2>2. ASSUME NEW c \in Callers, Client(c), ~ReturnStop(c)
        PROVE  OneLoop'
    <3>1. /\ call'[c].op # "stopped" \/ call' = call
          /\ call' = call \/ \A d \in Callers \ {c} : call'[d] = call[d]
          /\ epc' = epc /\ running' = running
          BY <2>1, <2>2 DEF Client, CallAdd, CallAddEarly, CallRemove, CallEntries,
             EntriesOff, CallStop, WriteEarly, Enter, Idle
    <3> QED BY <3>1 DEF OneLoop
  <2>3. ASSUME NEW c \in Callers, ReturnStop(c)
        PROVE  OneLoop'
        BY <2>1, <2>3 DEF ReturnStop, OneLoop, Idle
  <2>4. ASSUME NEW c \in Callers, RecvAdd(c) \/ RecvRemove(c)
        PROVE  OneLoop'
        BY <2>1, <2>4 DEF RecvAdd, RecvRemove, OneLoop, Idle
  <2>5. ASSUME NEW c \in Callers, RecvAsk(c) \/ Reply(c)
        PROVE  OneLoop'
        BY <2>1, <2>5 DEF RecvAsk, Reply, OneLoop, Idle
  <2>6. ASSUME NEW c \in Callers, RecvStop(c)
        PROVE  OneLoop'
        BY <2>1, <2>6 DEF RecvStop, OneLoop
  <2>7. ASSUME NEW a \in Callers, NEW b \in Callers, Cross(a, b)
        PROVE  OneLoop'
        BY <2>1, <2>7 DEF Cross, OneLoop, Idle
  <2>8. CASE Start \/ Boot
        BY <2>8 DEF Start, Boot, OneLoop
  <2>9. CASE Wake \/ Tick \/ UNCHANGED vars
        BY <2>9 DEF Wake, Tick, vars, OneLoop
  <2> QED BY <2>2, <2>3, <2>4, <2>5, <2>6, <2>7, <2>8, <2>9 DEF Next, Receive
<1> QED BY <1>1, <1>2, TypeCorrect, PTL DEF Spec

\* Requests and answers pair up on the shared snapshot channel: the loop offers
\* an answer exactly when one client waits for one.
THEOREM HandoffHolds == Spec => []Handoff
<1>1. Init => Handoff
      BY DEF Init, Handoff, Idle
<1>2. TypeOK /\ OneLoop /\ Handoff /\ [Next]_vars => Handoff'
  <2> SUFFICES ASSUME TypeOK, OneLoop, Handoff, [Next]_vars PROVE Handoff'
      OBVIOUS
  <2>1. call \in [Callers -> Calls]
        BY DEF TypeOK
  <2>2. ASSUME NEW c \in Callers, Client(c) \/ RecvAdd(c) \/ RecvRemove(c) \/ RecvStop(c)
        PROVE  Handoff'
    <3>1. /\ call[c].op # "await"
          /\ call'[c].op # "await"
          /\ \A d \in Callers \ {c} : call'[d] = call[d]
          BY <2>1, <2>2 DEF Client, CallAdd, CallAddEarly, CallRemove, CallEntries,
             EntriesOff, CallStop, WriteEarly, ReturnStop, RecvAdd, RecvRemove, RecvStop,
             Enter, Idle
    <3>2. epc' = epc \/ (epc = "select" /\ epc' = "off")
          BY <2>2 DEF Client, CallAdd, CallAddEarly, CallRemove, CallEntries,
             EntriesOff, CallStop, WriteEarly, ReturnStop, RecvAdd, RecvRemove, RecvStop
    <3> QED BY <3>1, <3>2 DEF Handoff
  <2>3. ASSUME NEW c \in Callers, RecvAsk(c)
        PROVE  Handoff'
        BY <2>1, <2>3 DEF RecvAsk, Handoff
  <2>4. ASSUME NEW c \in Callers, Reply(c)
        PROVE  Handoff'
        BY <2>1, <2>4 DEF Reply, Handoff, Idle
  <2>5. ASSUME NEW a \in Callers, NEW b \in Callers, Cross(a, b)
        PROVE  Handoff'
        BY <2>1, <2>5 DEF Cross, Handoff, Idle
  <2>6. CASE Start \/ Boot
    <3>1. call' = call /\ epc' # "reply" /\ epc # "reply"
          BY <2>6 DEF Start, Boot, OneLoop
    <3> QED BY <3>1 DEF Handoff
  <2>7. CASE Wake \/ Tick \/ UNCHANGED vars
        BY <2>7 DEF Wake, Tick, vars, Handoff
  <2> QED BY <2>2, <2>3, <2>4, <2>5, <2>6, <2>7 DEF Next, Receive
<1> QED BY <1>1, <1>2, TypeCorrect, OneLoopHolds, PTL DEF Spec

-------------------------------------------------------------------------------
\* How long the loop sleeps.  A removal arms the timer from the loop's old now
\* and may so postpone every activation by the time since; without removals the
\* timer is late by no more than the loop was when it armed it.

NoRemoval == \A c \in Callers : call[c].op # "remove"

\* The loop takes a timer at most Lag after it fired.
TakenInTime == timer # Off => clock <= timer + Lag

SleepInv == NoRemoval /\ TakenInTime /\ SleepsUntilDue

\* A timer armed from time t is never before the clock, and late by no more
\* than t is behind it.
LEMMA ArmDistance ==
    ASSUME NEW es, DOMAIN es \subseteq Ids, es \in [DOMAIN es -> Entries],
           NEW t \in Times, clock \in Times, t <= clock, Arm(es, t)
    PROVE  /\ timer' # Off => clock <= timer'
           /\ \A i \in DOMAIN es :
                 es[i].next # Zero =>
                    timer' # Off /\ (timer' <= es[i].next + (clock - t) \/ timer' <= clock)
<1>1. clock \in Nat /\ t \in Nat
      BY BoundsAssumption DEF Times
<1>2. CASE Waiting(es) = {} /\ timer' = Off
      BY <1>2 DEF Waiting
<1>3. ASSUME NEW first \in Waiting(es),
             \A i \in Waiting(es) : es[first].next <= es[i].next,
             timer' = IF es[first].next > t THEN clock + (es[first].next - t) ELSE clock
      PROVE  /\ timer' # Off => clock <= timer'
             /\ \A i \in DOMAIN es :
                   es[i].next # Zero =>
                      timer' # Off /\ (timer' <= es[i].next + (clock - t) \/ timer' <= clock)
  <2>1. es[first].next \in Nat /\ es[first].next # 0 /\ first \in DOMAIN es
        BY DEF Waiting, Entries, Zero
  <2>2. timer' # Off
        BY <1>2, ArmTimer, <2>1 DEF Zero
  <2>3. ASSUME NEW i \in DOMAIN es, es[i].next # Zero
        PROVE  es[i].next \in Nat /\ es[first].next <= es[i].next
        BY <1>3, <2>3 DEF Waiting, Entries
  <2>4. CASE es[first].next > t
        BY <1>1, <1>3, <2>1, <2>2, <2>3, <2>4
  <2>5. CASE ~(es[first].next > t)
        BY <1>1, <1>3, <2>1, <2>2, <2>3, <2>5
  <2> QED BY <2>4, <2>5
<1> QED BY <1>2, <1>3 DEF Arm

\* A step through the head of the loop with a now at most Lag old.
LEMMA LoopSleeps ==
    ASSUME IInv, IInv', clock' = clock, clock <= now' + Lag, Arm(entries', now')
    PROVE  TakenInTime' /\ SleepsUntilDue'
<1>1. /\ DOMAIN entries' \subseteq Ids /\ entries' \in [DOMAIN entries' -> Entries]
      /\ now' \in Times /\ clock \in Times /\ now' <= clock /\ timer' \in Nat
      BY DEF IInv, TypeOK, NowBehind
<1>2. now' \in Nat /\ clock \in Nat /\ Lag \in Nat
      BY <1>1, BoundsAssumption DEF Times
<1>3. TakenInTime'
      BY <1>1, <1>2, ArmDistance DEF TakenInTime
<1>4. ASSUME NEW i \in sorted', entries'[i].next # Zero
      PROVE  timer' # Off /\ (timer' <= entries'[i].next + Lag \/ timer' <= clock')
  <2>1. i \in DOMAIN entries'
        BY <1>1, ArmTimer
  <2>2. /\ timer' # Off
        /\ timer' <= entries'[i].next + (clock - now') \/ timer' <= clock
        BY <1>1, <1>4, <2>1, ArmDistance
  <2>3. entries'[i].next \in Nat
        BY <1>1, <2>1 DEF Entries
  <2> QED BY <1>1, <1>2, <2>2, <2>3
<1> QED BY <1>3, <1>4 DEF SleepsUntilDue

\* While nobody removes a job, the loop sleeps until the next one is due, late by
\* at most the lag with which it took the timer before (cron.go:213-271).
THEOREM Sleeps ==
    ASSUME \A c \in Callers : "remove" \notin Ops[c]
    PROVE  Spec => []SleepsUntilDue
<1>1. Init => SleepInv
      BY DEF Init, SleepInv, NoRemoval, TakenInTime, SleepsUntilDue, Idle
<1>2. IInv /\ IInv' /\ SleepInv /\ [Next]_vars => SleepInv'
  <2> SUFFICES ASSUME IInv, IInv', SleepInv, [Next]_vars PROVE SleepInv'
      OBVIOUS
  <2>1. call \in [Callers -> Calls] /\ clock \in Nat /\ clock \in Times /\ timer \in Nat /\ Lag \in Nat
        BY BoundsAssumption DEF IInv, TypeOK, Times
  <2>2. NoRemoval'
    <3>1. ASSUME NEW c \in Callers, NEW j \in Jobs, CallAdd(c, j) \/ CallAddEarly(c, j)
          PROVE  NoRemoval'
          BY <2>1, <3>1 DEF CallAdd, CallAddEarly, Enter, SleepInv, NoRemoval
    <3>2. ASSUME NEW c \in Callers,
                 \/ CallEntries(c) \/ EntriesOff(c) \/ CallStop(c) \/ WriteEarly(c)
                 \/ ReturnStop(c) \/ Receive(c) \/ Reply(c)
          PROVE  NoRemoval'
          BY <2>1, <3>2 DEF CallEntries, EntriesOff, CallStop, WriteEarly, ReturnStop, Receive,
             RecvAdd, RecvRemove, RecvAsk, RecvStop, Reply, Enter, Idle, SleepInv, NoRemoval
    <3>3. ASSUME NEW c \in Callers, NEW id \in Ids, CallRemove(c, id)
          PROVE  FALSE
          BY <3>3 DEF CallRemove
    <3>4. ASSUME NEW a \in Callers, NEW b \in Callers, Cross(a, b)
          PROVE  NoRemoval'
          BY <2>1, <3>4 DEF Cross, Idle, SleepInv, NoRemoval
    <3>5. ASSUME call' = call
          PROVE  NoRemoval'
          BY <3>5 DEF SleepInv, NoRemoval
    <3> QED BY <3>1, <3>2, <3>3, <3>4, <3>5 DEF Next, Client, Start, Boot, Wake, Tick, vars
  <2>3. CASE Boot
        BY <2>1, <2>2, <2>3, LoopSleeps DEF Boot, SleepInv
  <2>4. CASE Wake
    <3>1. PICK t \in timer .. clock : now' = t /\ Arm(entries', t)
          BY <2>4 DEF Wake
    <3>2. clock <= timer + Lag
          BY <2>4 DEF SleepInv, TakenInTime, Wake
    <3>3. clock <= t + Lag
      <4>1. t \in Nat /\ timer <= t
            BY <2>1
      <4> QED BY <2>1, <3>2, <4>1
    <3>4. TakenInTime' /\ SleepsUntilDue'
          BY <2>4, <3>1, <3>3, LoopSleeps DEF Wake
    <3> QED BY <2>2, <3>4 DEF SleepInv
  <2>5. ASSUME NEW c \in Callers, RecvAdd(c)
        PROVE  SleepInv'
        BY <2>1, <2>2, <2>5, LoopSleeps DEF RecvAdd, SleepInv
  <2>6. ASSUME NEW c \in Callers, RecvRemove(c)
        PROVE  SleepInv'
        BY <2>6 DEF RecvRemove, SleepInv, NoRemoval
  <2>7. ASSUME NEW c \in Callers, WriteEarly(c)
        PROVE  SleepInv'
    <3>1. \A i \in sorted : entries'[i] = entries[i]
          BY <2>7 DEF WriteEarly, Put, IInv, SortedListed
    <3> QED BY <2>2, <2>7, <3>1 DEF WriteEarly, SleepInv, TakenInTime, SleepsUntilDue
  <2>8. CASE Tick
    <3>1. SleepsUntilDue'
          BY <2>1, <2>8 DEF Tick, SleepInv, SleepsUntilDue
    <3>2. TakenInTime'
          BY <2>1, <2>8 DEF Tick, SleepInv, TakenInTime
    <3> QED BY <2>2, <3>1, <3>2 DEF SleepInv
  <2>9. CASE Start
        BY <2>2, <2>9 DEF Start, SleepInv, TakenInTime, SleepsUntilDue
  <2>10. ASSUME NEW c \in Callers, RecvAsk(c) \/ RecvStop(c) \/ Reply(c)
        PROVE  SleepInv'
        BY <2>2, <2>10 DEF RecvAsk, RecvStop, Reply, SleepInv, TakenInTime, SleepsUntilDue, Off
  <2>11. ASSUME NEW a \in Callers, NEW b \in Callers, Cross(a, b)
        PROVE  SleepInv'
        BY <2>2, <2>11 DEF Cross, SleepInv, TakenInTime, SleepsUntilDue
  <2>12. ASSUME NEW c \in Callers, Client(c), ~WriteEarly(c)
        PROVE  SleepInv'
        BY <2>2, <2>12 DEF Client, CallAdd, CallAddEarly, CallRemove, CallEntries, EntriesOff,
           CallStop, ReturnStop, SleepInv, TakenInTime, SleepsUntilDue
  <2>13. CASE UNCHANGED vars
        BY <2>2, <2>13 DEF vars, SleepInv, TakenInTime, SleepsUntilDue
  <2> QED BY <2>3, <2>4, <2>5, <2>6, <2>7, <2>8, <2>9, <2>10, <2>11, <2>12, <2>13
          DEF Next, Receive
<1>3. SleepInv => SleepsUntilDue
      BY DEF SleepInv
<1> QED BY <1>1, <1>2, <1>3, Inductive, PTL DEF Spec

-------------------------------------------------------------------------------
\* What the loop answers.  A client that tested c.running just before the start
\* writes the map behind the loop's back, and its entry is in no list until the
\* next sort; without such clients the sorted entries are the entries.

ListInv ==
    /\ \A c \in Callers : call[c].op # "write"
    /\ epc \in {"select", "reply"} => sorted = DOMAIN entries

\* While nobody adds a job across the start, an answer of the loop lists its
\* entries (cron.go:148-156, 250-252).
THEOREM Faithful ==
    ASSUME \A c \in Callers : "early" \notin Ops[c]
    PROVE  Spec => SnapshotFaithful
<1>1. Init => ListInv
      BY DEF Init, ListInv, Idle
<1>2. TypeOK /\ ListInv /\ [Next]_vars => ListInv'
  <2> SUFFICES ASSUME TypeOK, ListInv, [Next]_vars PROVE ListInv'
      OBVIOUS
  <2>1. call \in [Callers -> Calls]
        BY DEF TypeOK
  <2>2. CASE Start
        BY <2>2 DEF Start, ListInv
  <2>3. CASE Boot \/ Wake
        BY <2>3 DEF Boot, Wake, Arm, ListInv
  <2>4. ASSUME NEW c \in Callers, RecvAdd(c) \/ RecvRemove(c)
        PROVE  ListInv'
        BY <2>1, <2>4 DEF RecvAdd, RecvRemove, Arm, Idle, ListInv
  <2>5. ASSUME NEW c \in Callers, RecvAsk(c) \/ RecvStop(c) \/ Reply(c)
        PROVE  ListInv'
        BY <2>1, <2>5 DEF RecvAsk, RecvStop, Reply, Idle, ListInv
  <2>6. ASSUME NEW a \in Callers, NEW b \in Callers, Cross(a, b)
        PROVE  ListInv'
        BY <2>1, <2>6 DEF Cross, Idle, ListInv
  <2>7. ASSUME NEW c \in Callers, NEW j \in Jobs, CallAdd(c, j) \/ CallAddEarly(c, j)
        PROVE  ListInv'
        BY <2>1, <2>7 DEF CallAdd, CallAddEarly, Enter, ListInv
  <2>8. ASSUME NEW c \in Callers,
               \/ CallEntries(c) \/ EntriesOff(c) \/ CallStop(c) \/ ReturnStop(c)
               \/ \E id \in Ids : CallRemove(c, id)
        PROVE  ListInv'
        BY <2>1, <2>8 DEF CallEntries, EntriesOff, CallStop, ReturnStop, CallRemove, Enter, Idle,
           ListInv
  <2>9. ASSUME NEW c \in Callers, WriteEarly(c)
        PROVE  FALSE
        BY <2>9 DEF WriteEarly, ListInv
  <2>10. CASE Tick \/ UNCHANGED vars
        BY <2>10 DEF Tick, vars, ListInv
  <2> QED BY <2>2, <2>3, <2>4, <2>5, <2>6, <2>7, <2>8, <2>9, <2>10
          DEF Next, Client, Receive
<1>3. TypeOK /\ ListInv /\ [Next]_vars
        => [\A c \in Callers :
              call[c].op = "await" /\ call'[c].op = "idle" /\ epc # epc'
                  => view'[c] = DOMAIN entries]_vars
  <2> SUFFICES ASSUME TypeOK, ListInv, Next,
                      NEW c \in Callers,
                      call[c].op = "await", call'[c].op = "idle", epc # epc'
               PROVE  view'[c] = DOMAIN entries
      OBVIOUS
  <2>1. call \in [Callers -> Calls] /\ view \in [Callers -> SUBSET Ids]
        BY DEF TypeOK
  <2>2. call' # call
        BY <2>1
  <2>3. ASSUME NEW d \in Callers, RecvAsk(d) \/ RecvStop(d)
        PROVE  FALSE
        BY <2>1, <2>3 DEF RecvAsk, RecvStop
  <2>4. PICK d \in Callers : Reply(d)
        BY <2>2, <2>3 DEF Next, Client, Receive, Start, Boot, Wake, Tick, CallAdd, CallAddEarly,
           CallRemove, CallEntries, EntriesOff, CallStop, WriteEarly, ReturnStop, RecvAdd,
           RecvRemove, Cross
  <2>5. c = d
        BY <2>1, <2>4 DEF Reply
  <2> QED BY <2>1, <2>4, <2>5 DEF Reply, ListInv
<1> QED BY <1>1, <1>2, <1>3, TypeCorrect, PTL DEF Spec, SnapshotFaithful

-------------------------------------------------------------------------------
\* Refinement: every step of the engine is a step of the job table, or none.

TableOf(es) == [i \in DOMAIN es |-> es[i].job]

LEMMA SameTable ==
    ASSUME entries' = entries, launched' = launched
    PROVE  UNCHANGED Table!tableVars
BY DEF Table!tableVars

LEMMA SchedulesJob ==
    ASSUME NEW j \in Jobs, NEW n, entries' = Put(entries, j, n), launched' = launched
    PROVE  Table!Schedule(j)
<1>1. DOMAIN entries' = DOMAIN entries \cup {j.id}
      BY DEF Put
<1>2. \A i \in DOMAIN entries' : entries'[i].job = IF i = j.id THEN j ELSE entries[i].job
      BY DEF Put
<1>3. TableOf(entries') = [i \in DOMAIN TableOf(entries) \cup {j.id} |->
                              IF i = j.id THEN j ELSE TableOf(entries)[i]]
      BY <1>1, <1>2 DEF TableOf
<1> QED BY <1>3 DEF TableOf, Table!Schedule, Table!Scheduled

LEMMA UnschedulesJob ==
    ASSUME NEW id, entries' = Drop(entries, id), launched' = launched
    PROVE  Table!Unschedule(id)
<1>1. DOMAIN entries' = DOMAIN entries \ {id}
      BY DEF Drop
<1>2. \A i \in DOMAIN entries' : entries'[i].job = entries[i].job
      BY DEF Drop
<1>3. TableOf(entries') = [i \in DOMAIN TableOf(entries) \ {id} |-> TableOf(entries)[i]]
      BY <1>1, <1>2 DEF TableOf
<1> QED BY <1>3 DEF TableOf, Table!Unschedule, Table!Unscheduled

LEMMA KeepsTable ==
    ASSUME IInv, NEW S, NEW t \in Times, entries' = Advance(entries, S, t)
    PROVE  TableOf(entries') = TableOf(entries)
<1>1. /\ DOMAIN entries' = DOMAIN entries
      /\ \A i \in DOMAIN entries : entries'[i].job = entries[i].job
      BY AdvanceEntries DEF IInv, TypeOK
<1> QED BY <1>1 DEF TableOf

\* A wake-up launches jobs of the table, each for a later activation than before.
LEMMA WakeLaunches == IInv /\ IInv' /\ Wake => Table!Launch
<1> SUFFICES ASSUME IInv, IInv', Wake PROVE Table!Launch
    OBVIOUS
<1>1. PICK t \in timer .. clock :
        /\ launched' = [i \in Ids |-> IF i \in DueAt(t) THEN entries[i].next
                                      ELSE launched[i]]
        /\ entries' = Advance(entries, DueAt(t), t)
      BY DEF Wake
<1>2. t \in Times
      BY BoundsAssumption DEF IInv, TypeOK, Times
<1>3. TableOf(entries') = TableOf(entries)
      BY <1>1, <1>2, KeepsTable
<1>4. launched' \in [Ids -> Nat]
      BY DEF IInv, TypeOK
<1>5. ASSUME NEW i \in Ids, launched'[i] # launched[i]
      PROVE  i \in DOMAIN entries /\ launched'[i] > launched[i]
  <2>1. i \in DueAt(t) /\ launched'[i] = entries[i].next
        BY <1>1, <1>5
  <2>2. i \in DOMAIN entries /\ entries[i].next # Zero
        BY <2>1 DEF DueAt, IInv, SortedListed
  <2> QED BY <2>1, <2>2 DEF IInv, NoRelaunch
<1>6. DOMAIN TableOf(entries) = DOMAIN entries
      BY DEF TableOf
<1> QED BY <1>3, <1>4, <1>5, <1>6 DEF TableOf, Table!Launch

\* The go-cron loop, channels, timer and sorted slice included, implements the
\* job table its clients rely on.
THEOREM Implements == Spec => ImplementsTable
<1>1. Init => Table!TableInit
      BY DEF Init, Table!TableInit
<1>2. IInv /\ IInv' /\ [Next]_vars => [Table!TableNext]_(Table!tableVars)
  <2> SUFFICES ASSUME IInv, IInv', [Next]_vars
               PROVE  Table!TableNext \/ UNCHANGED Table!tableVars
      OBVIOUS
  <2>1. CASE Boot
    <3>1. clock \in Times
          BY DEF IInv, TypeOK
    <3>2. TableOf(entries') = TableOf(entries) /\ launched' = launched
          BY <2>1, <3>1, KeepsTable DEF Boot
    <3> QED BY <3>2 DEF TableOf, Table!tableVars
  <2>2. CASE Wake
        BY <2>2, WakeLaunches DEF Table!TableNext
  <2>3. ASSUME NEW c \in Callers, RecvAdd(c) \/ WriteEarly(c)
        PROVE  \E j \in Jobs : Table!Schedule(j)
    <3>1. call[c].job \in Jobs
          BY <2>3 DEF RecvAdd, WriteEarly, IInv, TypeOK, Calls
    <3>2. \E n : entries' = Put(entries, call[c].job, n)
          BY <2>3 DEF RecvAdd, WriteEarly
    <3>3. launched' = launched
          BY <2>3 DEF RecvAdd, WriteEarly
    <3> QED BY <3>1, <3>2, <3>3, SchedulesJob
  <2>4. ASSUME NEW c \in Callers, RecvRemove(c)
        PROVE  \E id \in Ids : Table!Unschedule(id)
    <3>1. call[c].id \in Ids
          BY <2>4 DEF RecvRemove, IInv, TypeOK, Calls
    <3> QED BY <2>4, <3>1, UnschedulesJob DEF RecvRemove
  <2>5. ASSUME NEW c \in Callers, Client(c), ~WriteEarly(c)
        PROVE  UNCHANGED Table!tableVars
        BY <2>5, SameTable DEF Client, CallAdd, CallAddEarly, CallRemove, CallEntries,
           EntriesOff, CallStop, ReturnStop
  <2>6. ASSUME \/ Start \/ Tick \/ UNCHANGED vars
               \/ \E c \in Callers : RecvAsk(c) \/ RecvStop(c) \/ Reply(c)
               \/ \E a, b \in Callers : Cross(a, b)
        PROVE  UNCHANGED Table!tableVars
        BY <2>6, SameTable DEF Start, Tick, vars, RecvAsk, RecvStop, Reply, Cross
  <2> QED BY <2>1, <2>2, <2>3, <2>4, <2>5, <2>6 DEF Next, Receive, Table!TableNext
<1> QED BY <1>1, <1>2, Inductive, PTL DEF Spec, ImplementsTable, Table!TableSpec
===============================================================================
