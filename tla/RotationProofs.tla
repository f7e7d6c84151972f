--------------------------- MODULE RotationProofs ---------------------------
(***************************************************************************)
(* For any clients, loops, lifetime, interval and delay that satisfy the   *)
(* assumptions of Rotation, a workload's current credentials are valid.    *)
(***************************************************************************)
EXTENDS Rotation, TLAPS

(***************************************************************************)
(* The inductive invariant follows a credential: signed, in the cache,     *)
(* returned, stored. Each part bounds its age by the timers that have run. *)
(***************************************************************************)
Timers ==
  \A l \in Loop : since[l] <= IF Sleeping(l) THEN Interval ELSE Delay

FlightYoung ==
  flight # None =>
    at[flight.loop] = "fetching" /\ flight.age <= since[flight.loop] + suspended

EntryYoung ==
  entry # None /\ entry.elapsed < Half =>
    entry.age <= entry.elapsed + Delay + suspended

HandYoung ==
  \A l \in Loop : at[l] = "storing" =>
    hand[l] # None /\ hand[l].age <= Half - 1 + Delay + since[l] + suspended

\* The most a loop's own history lets its client's credentials have aged.
Budget(l) ==
  Half - 1 + 2 * Delay + suspended + failures[l] * (Interval + Delay)
    + IF Sleeping(l) THEN since[l] ELSE Interval + since[l]

CurrentYoung ==
  \A l \in Loop : current[Owner[l]] # None => current[Owner[l]].age <= Budget(l)

HasLoop == \A c \in Client : current[c] # None => \E l \in Loop : Owner[l] = c

\* What the agent has, or is about to have, is no older than what it handed out.
Youngest(x) ==
  x # None =>
    /\ \A l \in Loop : hand[l] # None => x.age <= hand[l].age
    /\ \A c \in Client : current[c] # None => x.age <= current[c].age

IInv ==
  /\ TypeOK /\ Timers /\ FlightYoung /\ EntryYoung /\ HandYoung /\ CurrentYoung /\ HasLoop
  /\ Youngest(entry) /\ Youngest(flight) /\ NewestWins

-----------------------------------------------------------------------------
(* Arithmetic of the assumptions.                                          *)

\* The constants are naturals, and a lifetime has a half.
LEMMA Constants ==
  /\ Ttl \in Nat /\ Interval \in Nat /\ Delay \in Nat
  /\ MaxFailures \in Nat /\ MaxSuspend \in Nat /\ MaxRegen \in Nat
  /\ Half \in Nat /\ Half >= 1
  /\ Owner \in [Loop -> Client]
  BY RotationAssumption DEF Half

\* One more failure adds one more round to a loop's budget.
LEMMA Rounds ==
  ASSUME NEW f \in Nat, NEW k \in Nat
  PROVE  f * k \in Nat /\ (f + 1) * k = f * k + k /\ 0 * k = 0
  OBVIOUS

\* Fewer failures, fewer rounds.
LEMMA RoundsGrow ==
  ASSUME NEW f \in Nat, NEW g \in Nat, NEW k \in Nat, f <= g
  PROVE  f * k <= g * k
<1>1. (g - f) * k >= 0
  OBVIOUS
<1>2. (g - f) * k = g * k - f * k
  OBVIOUS
<1> QED BY <1>1, <1>2

\* The most a budget can be is the lifetime: IntervalSuits.
LEMMA BudgetIsLifetime ==
  ASSUME TypeOK, Timers, NEW l \in Loop
  PROVE  Budget(l) \in Nat /\ Budget(l) <= Ttl
<1> DEFINE k == Interval + Delay
<1>1. failures[l] \in Nat /\ failures[l] <= MaxFailures /\ suspended \in Nat /\ suspended <= MaxSuspend
      /\ since[l] \in Nat
  BY Constants DEF TypeOK
<1>2. k \in Nat
  BY Constants
<1>3. failures[l] * k \in Nat /\ failures[l] * k <= MaxFailures * k
      /\ (MaxFailures + 1) * k = MaxFailures * k + k /\ MaxFailures * k \in Nat
  BY <1>1, <1>2, Rounds, RoundsGrow, Constants
<1>4. Half - 1 + 2 * Delay + (MaxFailures + 1) * k + MaxSuspend <= Ttl
  BY IntervalSuits
<1>5. since[l] <= IF Sleeping(l) THEN Interval ELSE Delay
  BY DEF Timers
<1>6. Budget(l) = Half - 1 + 2 * Delay + suspended + failures[l] * k
                    + IF Sleeping(l) THEN since[l] ELSE Interval + since[l]
  BY DEF Budget
<1> HIDE DEF k
<1>7. CASE Sleeping(l)
  <2>1. Budget(l) = Half - 1 + 2 * Delay + suspended + failures[l] * k + since[l]
    BY <1>6, <1>7
  <2>2. since[l] <= Interval /\ k = Interval + Delay
    BY <1>5, <1>7 DEF k
  <2> QED BY <1>1, <1>2, <1>3, <1>4, <2>1, <2>2, Constants
<1>8. CASE ~Sleeping(l)
  <2>1. Budget(l) = Half - 1 + 2 * Delay + suspended + failures[l] * k + Interval + since[l]
    BY <1>6, <1>8, <1>1, <1>3, Constants
  <2>2. since[l] <= Delay /\ k = Interval + Delay
    BY <1>5, <1>8 DEF k
  <2> QED BY <1>1, <1>2, <1>3, <1>4, <2>1, <2>2, Constants
<1> QED BY <1>7, <1>8

-----------------------------------------------------------------------------
(* What the wall clock does to a credential.                               *)

\* A credential in a client's or a loop's hands.
LEMMA AgedCred ==
  ASSUME NEW x \in Cred \cup {None}
  PROVE  /\ Aged(x) \in Cred \cup {None}
         /\ (Aged(x) = None) <=> (x = None)
         /\ x # None => x.age \in Nat /\ Aged(x).age \in Nat /\ Aged(x).age <= x.age + 1
  BY NoneAssumption, Constants DEF Aged, Cred, Age, Ca

\* A credential on its way keeps the loop that asked for it.
LEMMA AgedFlight ==
  ASSUME NEW x \in Flight \cup {None}
  PROVE  /\ Aged(x) \in Flight \cup {None}
         /\ (Aged(x) = None) <=> (x = None)
         /\ x # None => /\ x.age \in Nat /\ Aged(x).age \in Nat /\ Aged(x).age <= x.age + 1
                        /\ Aged(x).loop = x.loop
  BY NoneAssumption, Constants DEF Aged, Flight, Age, Ca

\* A cache entry in a suspended guest keeps its elapsed time.
LEMMA AgedEntry ==
  ASSUME NEW x \in Entry \cup {None}
  PROVE  /\ Aged(x) \in Entry \cup {None}
         /\ (Aged(x) = None) <=> (x = None)
         /\ x # None => /\ x.age \in Nat /\ Aged(x).age \in Nat /\ Aged(x).age <= x.age + 1
                        /\ Aged(x).elapsed = x.elapsed
  BY NoneAssumption, Constants DEF Aged, Entry, Age, Ca

\* The monotonic clock counts up to the threshold.
LEMMA ElapsedEntry ==
  ASSUME NEW x \in Entry \cup {None}
  PROVE  /\ Elapsed(x) \in Entry \cup {None}
         /\ (Elapsed(x) = None) <=> (x = None)
         /\ x # None => /\ x.elapsed \in Nat
                        /\ Elapsed(x).age = x.age
                        /\ Elapsed(x).elapsed < Half => Elapsed(x).elapsed = x.elapsed + 1
  BY NoneAssumption, Constants DEF Elapsed, Entry, Age, Ca

\* What a fetch returns is a credential of its own.
LEMMA SignedCred ==
  ASSUME NEW x \in Entry \cup Flight
  PROVE  Signed(x) \in Cred /\ Signed(x).age = x.age /\ Signed(x) # None
  BY NoneAssumption DEF Signed, Cred, Entry, Flight

-----------------------------------------------------------------------------
(* Each step keeps the types.                                              *)

\* Every step stays within the types: a timer that is due stops the clock.
LEMMA TypeStep ==
  ASSUME TypeOK, Timers, [Next]_vars
  PROVE  TypeOK'
<1> USE Constants
<1>1. ASSUME NEW l \in Loop, Hit(l) PROVE TypeOK'
  <2>1. entry \in Entry
    BY <1>1 DEF Hit, Fresh, TypeOK
  <2>2. Signed(entry) \in Cred /\ Signed(entry) # None
    BY <2>1, SignedCred, NoneAssumption
  <2> QED BY <1>1, <2>2 DEF TypeOK, Hit, Returns, agent
<1>2. ASSUME NEW l \in Loop, Sign(l) PROVE TypeOK'
  <2>1. flight' \in Flight
    BY <1>2 DEF Sign, Flight, Age, TypeOK
  <2> QED BY <1>2, <2>1 DEF TypeOK, Sign, loops
<1>3. ASSUME NEW l \in Loop, Insert(l) PROVE TypeOK'
  <2>1. flight \in Flight
    BY <1>3 DEF Insert, TypeOK
  <2>2. Signed(flight) \in Cred /\ Signed(flight) # None
    BY <2>1, SignedCred, NoneAssumption
  <2>3. entry' \in Entry
    BY <1>3, <2>1 DEF Insert, Entry, Flight
  <2> QED BY <1>3, <2>2, <2>3 DEF TypeOK, Insert, Returns
<1>4. ASSUME NEW l \in Loop, Store(l) PROVE TypeOK'
  BY <1>4 DEF TypeOK, Store, Sleeps, agent
<1>5. ASSUME NEW l \in Loop, Fail(l) PROVE TypeOK'
  BY <1>5 DEF TypeOK, Fail, Sleeps
<1>6. ASSUME NEW l \in Loop, Wake(l) PROVE TypeOK'
  BY <1>6 DEF TypeOK, Wake, agent
<1>7. CASE RestartAgent
  BY <1>7 DEF TypeOK, RestartAgent, loops
<1>8. ASSUME WallClock
      PROVE  /\ flight' \in Flight \cup {None}
             /\ hand' \in [Loop -> Cred \cup {None}]
             /\ \A l \in Loop : hand[l] # None => hand'[l] # None
             /\ current' \in [Client -> Cred \cup {None}]
  BY <1>8, AgedCred, AgedFlight DEF WallClock, TypeOK
<1>9. CASE Tick
  <2>1. entry' \in Entry \cup {None}
    BY <1>9, AgedEntry, ElapsedEntry DEF Tick, TypeOK
  <2>2. since' \in [Loop -> 0..(Interval + Delay)]
    BY <1>9 DEF Tick, TypeOK, Timers
  <2> QED BY <1>8, <1>9, <2>1, <2>2 DEF TypeOK, Tick
<1>10. CASE Suspend
  <2>1. entry' \in Entry \cup {None}
    BY <1>10, AgedEntry DEF Suspend, TypeOK
  <2> QED BY <1>8, <1>10, <2>1 DEF TypeOK, Suspend
<1>11. CASE Regenerate
  BY <1>11 DEF TypeOK, Regenerate, Ca, agent, loops
<1>12. CASE UNCHANGED vars
  BY <1>12 DEF TypeOK, vars, agent, loops
<1> QED BY <1>1, <1>2, <1>3, <1>4, <1>5, <1>6, <1>7, <1>9, <1>10, <1>11, <1>12 DEF Next, Runs

-----------------------------------------------------------------------------
(* Each step keeps the bounds on timers and ages.                          *)

\* No timer passes its limit.
LEMMA TimersStep ==
  ASSUME TypeOK, Timers, FlightYoung, [Next]_vars
  PROVE  Timers'
<1> USE Constants DEF Sleeping
<1>1. ASSUME NEW l \in Loop, Insert(l) PROVE at[l] = "fetching"
  BY <1>1 DEF Insert, FlightYoung
<1>2. ASSUME NEW l \in Loop, Hit(l) \/ Insert(l) PROVE Timers'
  BY <1>1, <1>2 DEF TypeOK, Timers, Hit, Insert, Returns
<1>3. ASSUME NEW l \in Loop, Store(l) \/ Wake(l) \/ Fail(l) PROVE Timers'
  BY <1>3 DEF TypeOK, Timers, Store, Wake, Fail, Sleeps
<1>4. CASE Tick
  BY <1>4 DEF Tick, Timers, TypeOK
<1>5. CASE (\E l \in Loop : Sign(l)) \/ RestartAgent \/ Suspend \/ Regenerate \/ UNCHANGED vars
  BY <1>5 DEF Timers, Sign, RestartAgent, Suspend, Regenerate, vars, loops
<1> QED BY <1>2, <1>3, <1>4, <1>5 DEF Next, Runs

\* A credential on its way is as old as the fetch that asked for it.
LEMMA FlightStep ==
  ASSUME TypeOK, FlightYoung, [Next]_vars
  PROVE  FlightYoung'
<1> USE Constants DEF FlightYoung
<1>1. flight # None => flight.loop \in Loop /\ flight.age \in Nat
  BY DEF TypeOK, Flight, Age
<1>2. ASSUME NEW l \in Loop, Hit(l) \/ Insert(l) \/ Wake(l) \/ Store(l) PROVE FlightYoung'
  BY <1>1, <1>2 DEF TypeOK, Hit, Insert, Wake, Store, Sleeping, Returns, Sleeps, agent
<1>3. ASSUME NEW l \in Loop, Sign(l) PROVE FlightYoung'
  BY <1>3 DEF TypeOK, Sign, loops
<1>4. ASSUME NEW l \in Loop, Fail(l) PROVE FlightYoung'
  BY <1>1, <1>4 DEF TypeOK, Fail, Sleeps
<1>5. CASE Tick
  BY <1>1, <1>5, AgedFlight DEF TypeOK, Tick, WallClock
<1>6. CASE Suspend
  BY <1>1, <1>6, AgedFlight DEF TypeOK, Suspend, WallClock
<1>7. CASE RestartAgent \/ Regenerate \/ UNCHANGED vars
  BY <1>7 DEF RestartAgent, Regenerate, vars, agent, loops
<1> QED BY <1>2, <1>3, <1>4, <1>5, <1>6, <1>7 DEF Next, Runs

\* A usable entry is older than its elapsed time by the fetch and the suspends only.
LEMMA EntryStep ==
  ASSUME TypeOK, Timers, FlightYoung, EntryYoung, [Next]_vars
  PROVE  EntryYoung'
<1> USE Constants DEF EntryYoung
<1>1. ASSUME NEW l \in Loop, Insert(l) PROVE EntryYoung'
  <2>1. flight.age <= Delay + suspended
    BY <1>1 DEF Insert, FlightYoung, Timers, Sleeping, TypeOK, Flight, Age
  <2> QED BY <1>1, <2>1 DEF Insert, TypeOK, Flight, Age
<1>2. ASSUME NEW l \in Loop, Hit(l) \/ Sign(l) \/ Store(l) \/ Wake(l) \/ Fail(l) PROVE EntryYoung'
  BY <1>2 DEF Hit, Sign, Store, Wake, Fail, agent
<1>3. CASE Tick
  <2>1. Aged(entry) \in Entry \cup {None}
    BY AgedEntry DEF TypeOK
  <2> QED BY <1>3, <2>1, AgedEntry, ElapsedEntry DEF Tick, TypeOK
<1>4. CASE Suspend
  <2>1. entry # None => entry.elapsed \in Nat
    BY DEF TypeOK, Entry
  <2> QED BY <1>4, <2>1, AgedEntry DEF Suspend, TypeOK
<1>5. CASE RestartAgent \/ Regenerate \/ UNCHANGED vars
  BY <1>5 DEF RestartAgent, Regenerate, vars, agent
<1> QED BY <1>1, <1>2, <1>3, <1>4, <1>5 DEF Next, Runs

\* What a fetch returned had not reached half its life in the cache.
LEMMA HandStep ==
  ASSUME TypeOK, Timers, FlightYoung, EntryYoung, HandYoung, [Next]_vars
  PROVE  HandYoung'
<1> USE Constants DEF HandYoung
<1>1. ASSUME NEW l \in Loop, Hit(l) PROVE HandYoung'
  <2>1. entry \in Entry /\ entry.elapsed < Half
    BY <1>1 DEF Hit, Fresh, TypeOK
  <2>2. entry.age \in Nat /\ entry.elapsed \in Nat /\ entry.age <= Half - 1 + Delay + suspended
    BY <2>1, NoneAssumption DEF EntryYoung, Entry, Age, TypeOK
  <2> QED BY <1>1, <2>1, <2>2, SignedCred DEF Hit, Returns, TypeOK
<1>2. ASSUME NEW l \in Loop, Insert(l) PROVE HandYoung'
  <2>1. flight \in Flight /\ flight.age <= since[l] + suspended
    BY <1>2 DEF Insert, FlightYoung, TypeOK
  <2>2. flight.age \in Nat
    BY <2>1 DEF Flight, Age
  <2> QED BY <1>2, <2>1, <2>2, SignedCred DEF Insert, Returns, TypeOK
<1>3. ASSUME NEW l \in Loop, Sign(l) \/ Store(l) \/ Wake(l) \/ Fail(l) PROVE HandYoung'
  BY <1>3 DEF Sign, Store, Wake, Fail, Sleeps, TypeOK, loops
<1>4. CASE Tick
  BY <1>4, AgedCred DEF Tick, WallClock, TypeOK
<1>5. CASE Suspend
  BY <1>5, AgedCred DEF Suspend, WallClock, TypeOK
<1>6. CASE RestartAgent \/ Regenerate \/ UNCHANGED vars
  BY <1>6 DEF RestartAgent, Regenerate, vars, loops
<1> QED BY <1>1, <1>2, <1>3, <1>4, <1>5, <1>6 DEF Next, Runs

\* A loop's budget grows with the clocks, is kept by every other step but its own
\* store, and is never below what a store may bring.
LEMMA BudgetStep ==
  ASSUME TypeOK, TypeOK', Timers, FlightYoung, [Next]_vars, NEW m \in Loop
  PROVE  /\ Budget(m)' >= Half - 1 + 2 * Delay + suspended'
         /\ Tick \/ Suspend => Budget(m)' = Budget(m) + 1
         /\ ~Store(m) => Budget(m)' >= Budget(m)
<1> USE Constants
<1> DEFINE k == Interval + Delay
           base == Half - 1 + 2 * Delay + suspended
           rest == IF at[m] = "sleeping" THEN since[m] ELSE Interval + since[m]
<1>1. k \in Nat
  OBVIOUS
<1>2. failures[m] \in Nat /\ failures'[m] \in Nat /\ since[m] \in Nat /\ since'[m] \in Nat
      /\ suspended \in Nat /\ suspended' \in Nat /\ base \in Int /\ base' \in Int
      /\ rest \in Nat /\ rest' \in Nat
  BY DEF TypeOK
<1>3. failures[m] * k \in Nat /\ failures'[m] * k \in Nat
      /\ (failures[m] + 1) * k = failures[m] * k + k
  BY <1>1, <1>2, Rounds
<1>4. /\ Budget(m) = base + failures[m] * k + rest
      /\ Budget(m)' = base' + failures'[m] * k + rest'
  BY DEF Budget, Sleeping
<1>5. base' = Half - 1 + 2 * Delay + suspended'
  OBVIOUS
<1> HIDE DEF base
<1>6. Budget(m)' >= base'
  BY <1>2, <1>3, <1>4
<1>7. ASSUME Tick \/ Suspend PROVE Budget(m)' = Budget(m) + 1
  <2>1. base' + rest' = base + rest + 1 /\ failures' = failures
    BY <1>7, <1>2 DEF Tick, Suspend, TypeOK, base
  <2> QED BY <2>1, <1>2, <1>3, <1>4
<1>8. ASSUME NEW l \in Loop, Hit(l) \/ Sign(l) \/ Insert(l) \/ Wake(l)
      PROVE  base' = base /\ rest' = rest /\ failures' = failures
  <2>1. CASE l = m
    BY <1>8, <2>1 DEF Hit, Sign, Insert, Wake, Sleeping, Returns, FlightYoung, TypeOK, agent, loops, base
  <2>2. CASE l # m
    BY <1>8, <2>2 DEF Hit, Sign, Insert, Wake, Returns, TypeOK, agent, loops, base
  <2> QED BY <2>1, <2>2
<1>9. ASSUME NEW l \in Loop, l # m, Fail(l) \/ Store(l)
      PROVE  base' = base /\ rest' = rest /\ failures'[m] = failures[m]
  BY <1>9 DEF Fail, Store, Sleeps, TypeOK, agent, base
<1>10. ASSUME Fail(m)
       PROVE  base' = base /\ rest' = 0 /\ rest <= k /\ failures'[m] = failures[m] + 1
  BY <1>10 DEF Fail, Sleeps, TypeOK, Timers, Sleeping, base
<1>11. ASSUME RestartAgent \/ Regenerate \/ UNCHANGED vars
       PROVE  base' = base /\ rest' = rest /\ failures' = failures
  BY <1>11 DEF RestartAgent, Regenerate, vars, agent, loops, base
<1>12. ~Store(m) => Budget(m)' >= Budget(m)
  <2> SUFFICES ASSUME ~Store(m) PROVE Budget(m)' >= Budget(m)
    OBVIOUS
  <2>1. CASE Tick \/ Suspend
    BY <2>1, <1>7, <1>2, <1>3, <1>4
  <2>2. CASE Fail(m)
    BY <2>2, <1>10, <1>1, <1>2, <1>3, <1>4
  <2>3. CASE ~(Tick \/ Suspend) /\ ~Fail(m)
    <3>1. base' = base /\ rest' = rest /\ failures'[m] = failures[m]
      BY <2>3, <1>8, <1>9, <1>11 DEF Next, Runs
    <3> QED BY <3>1, <1>2, <1>3, <1>4
  <2> QED BY <2>1, <2>2, <2>3
<1> QED BY <1>5, <1>6, <1>7, <1>12

\* What a client has is within the budget of each of its loops.
LEMMA CurrentStep ==
  ASSUME TypeOK, TypeOK', Timers, FlightYoung, HandYoung, CurrentYoung, [Next]_vars
  PROVE  CurrentYoung'
<1> USE Constants
<1> SUFFICES ASSUME NEW m \in Loop, current'[Owner[m]] # None
             PROVE  current'[Owner[m]].age <= Budget(m)'
  BY DEF CurrentYoung
<1> DEFINE c == Owner[m]
<1>1. c \in Client
  OBVIOUS
<1>2. Budget(m) \in Int /\ Budget(m)' \in Int
  <2>1. failures[m] \in Nat /\ failures'[m] \in Nat /\ since[m] \in Nat /\ since'[m] \in Nat
        /\ suspended \in Nat /\ suspended' \in Nat
    BY DEF TypeOK
  <2>2. failures[m] * (Interval + Delay) \in Nat /\ failures'[m] * (Interval + Delay) \in Nat
    BY <2>1, Rounds
  <2> QED BY <2>1, <2>2 DEF Budget
<1>3. /\ current[c] # None => current[c].age \in Nat
      /\ current'[c].age \in Nat
      /\ current[c] # None => current[c].age <= Budget(m)
  BY <1>1 DEF TypeOK, Cred, Age, CurrentYoung
<1>4. ASSUME NEW l \in Loop, Store(l), Owner[l] = c PROVE current'[c].age <= Budget(m)'
  <2>1. current'[c] = hand[l]
    BY <1>1, <1>4 DEF Store, TypeOK
  <2>2. hand[l].age <= Half - 1 + 2 * Delay + suspended
    <3>1. hand[l].age \in Nat /\ since[l] \in Nat /\ suspended \in Nat
      BY <1>3, <2>1 DEF TypeOK
    <3>2. since[l] <= Delay
      BY <1>4 DEF Store, Timers, Sleeping
    <3> QED BY <1>4, <3>1, <3>2 DEF Store, HandYoung
  <2>3. suspended' = suspended /\ suspended \in Nat
    BY <1>4 DEF Store, TypeOK
  <2> QED BY <1>2, <1>3, <2>1, <2>2, <2>3, BudgetStep
<1>5. CASE Tick \/ Suspend
  <2>1. current'[c] = Aged(current[c])
    BY <1>1, <1>5 DEF Tick, Suspend, WallClock
  <2>2. current[c] # None /\ current'[c].age <= current[c].age + 1
    BY <1>1, <2>1, AgedCred DEF TypeOK
  <2> QED BY <1>2, <1>3, <1>5, <2>2, BudgetStep
<1>6. CASE ~(Tick \/ Suspend) /\ \A l \in Loop : Store(l) => Owner[l] # c
  <2>1. current'[c] = current[c]
    BY <1>1, <1>6 DEF Next, Runs, Hit, Sign, Insert, Store, Wake, Fail, RestartAgent, Regenerate, vars, TypeOK
  <2> QED BY <1>2, <1>3, <1>6, <2>1, BudgetStep
<1> QED BY <1>4, <1>5, <1>6

\* A client has credentials only from a loop.
LEMMA HasLoopStep ==
  ASSUME TypeOK, HasLoop, [Next]_vars
  PROVE  HasLoop'
<1> USE Constants DEF HasLoop
<1>1. ASSUME NEW l \in Loop, Store(l) PROVE HasLoop'
  BY <1>1 DEF Store, TypeOK
<1>2. CASE Tick \/ Suspend
  BY <1>2, AgedCred DEF Tick, Suspend, WallClock, TypeOK
<1>3. CASE UNCHANGED current
  BY <1>3
<1> QED BY <1>1, <1>2, <1>3
     DEF Next, Runs, Hit, Sign, Insert, Wake, Fail, RestartAgent, Regenerate, vars

-----------------------------------------------------------------------------
(* Each step keeps the order of ages.                                      *)

\* The wall clock does not change which of two credentials is older.
LEMMA AgedOrder ==
  ASSUME NEW x, NEW y, x # None, y # None, x.age \in Age, y.age \in Age, x.age <= y.age,
         x \in Cred \cup Entry \cup Flight, y \in Cred \cup Entry \cup Flight
  PROVE  Aged(x).age <= Aged(y).age
<1>1. /\ Aged(x).age = IF x.age <= Ttl THEN x.age + 1 ELSE x.age
      /\ Aged(y).age = IF y.age <= Ttl THEN y.age + 1 ELSE y.age
  BY DEF Aged, Cred, Entry, Flight
<1> QED BY <1>1, Constants DEF Age

\* The cache and the wire hold the credential that was signed last.
LEMMA YoungestStep ==
  ASSUME TypeOK, Youngest(entry), Youngest(flight), [Next]_vars
  PROVE  Youngest(entry)' /\ Youngest(flight)'
<1> USE Constants DEF Youngest
<1>1. /\ entry # None => entry \in Entry /\ entry.age \in Age
      /\ flight # None => flight \in Flight /\ flight.age \in Age
      /\ \A l \in Loop : hand[l] # None => hand[l] \in Cred /\ hand[l].age \in Age
      /\ \A c \in Client : current[c] # None => current[c] \in Cred /\ current[c].age \in Age
  BY DEF TypeOK, Entry, Flight, Cred
<1>2. \A n \in Age : n \in Nat
  BY DEF Age
<1>3. ASSUME NEW l \in Loop, Hit(l) PROVE Youngest(entry)' /\ Youngest(flight)'
  BY <1>1, <1>2, <1>3, SignedCred DEF Hit, Fresh, Returns, TypeOK, agent
<1>4. ASSUME NEW l \in Loop, Sign(l) PROVE Youngest(entry)' /\ Youngest(flight)'
  BY <1>1, <1>2, <1>4 DEF Sign, loops
<1>5. ASSUME NEW l \in Loop, Insert(l) PROVE Youngest(entry)' /\ Youngest(flight)'
  BY <1>1, <1>2, <1>5, SignedCred DEF Insert, Returns, TypeOK
<1>6. ASSUME NEW l \in Loop, Store(l) PROVE Youngest(entry)' /\ Youngest(flight)'
  BY <1>6 DEF Store, Sleeps, TypeOK, agent
<1>7. ASSUME NEW l \in Loop, Fail(l) PROVE Youngest(entry)' /\ Youngest(flight)'
  BY <1>7 DEF Fail, Sleeps, TypeOK
<1>8. CASE Tick \/ Suspend
  <2>0. WallClock
    BY <1>8 DEF Tick, Suspend
  <2>1. Youngest(flight)'
    BY <1>1, <2>0, AgedFlight, AgedCred, AgedOrder DEF WallClock, TypeOK
  <2>2. ASSUME entry' = Aged(entry) PROVE Youngest(entry)'
    BY <1>1, <2>0, <2>2, AgedEntry, AgedCred, AgedOrder DEF WallClock, TypeOK
  <2>3. ASSUME entry' = Elapsed(Aged(entry)) PROVE Youngest(entry)'
    <3>1. Aged(entry) \in Entry \cup {None}
      BY AgedEntry DEF TypeOK
    <3>2. entry' # None => Aged(entry) # None /\ entry # None /\ entry'.age = Aged(entry).age
      BY <2>3, <3>1, ElapsedEntry, AgedEntry DEF TypeOK
    <3> QED BY <1>1, <2>0, <3>2, AgedCred, AgedOrder DEF WallClock, TypeOK
  <2> QED BY <1>8, <2>1, <2>2, <2>3 DEF Tick, Suspend
<1>9. CASE RestartAgent \/ Regenerate \/ UNCHANGED vars \/ \E l \in Loop : Wake(l)
  BY <1>9 DEF RestartAgent, Regenerate, Wake, vars, agent, loops
<1> QED BY <1>3, <1>4, <1>5, <1>6, <1>7, <1>8, <1>9 DEF Next, Runs

\* A client's only loop brings nothing older than the client has.
LEMMA NewestStep ==
  ASSUME TypeOK, Youngest(entry), Youngest(flight), NewestWins, [Next]_vars
  PROVE  NewestWins'
<1> USE Constants DEF NewestWins
<1>1. /\ entry # None => entry \in Entry /\ entry.age \in Age
      /\ flight # None => flight \in Flight /\ flight.age \in Age
      /\ \A l \in Loop : hand[l] # None => hand[l] \in Cred /\ hand[l].age \in Age
      /\ \A c \in Client : current[c] # None => current[c] \in Cred /\ current[c].age \in Age
  BY DEF TypeOK, Entry, Flight, Cred
<1>2. ASSUME NEW l \in Loop, Hit(l) \/ Insert(l) PROVE NewestWins'
  BY <1>1, <1>2, SignedCred DEF Hit, Insert, Fresh, Returns, Youngest, TypeOK
<1>3. ASSUME NEW l \in Loop, Store(l) \/ Fail(l) PROVE NewestWins'
  BY <1>3 DEF Store, Fail, Sleeps, TypeOK
<1>4. CASE Tick \/ Suspend
  BY <1>1, <1>4, AgedCred, AgedOrder DEF Tick, Suspend, WallClock, TypeOK
<1>5. CASE UNCHANGED <<hand, current>>
  BY <1>5
<1> QED BY <1>2, <1>3, <1>4, <1>5 DEF Next, Runs, Sign, Wake, RestartAgent, Regenerate, vars, loops

-----------------------------------------------------------------------------
(* The theorems.                                                           *)

\* The inductive invariant holds at the start,
LEMMA InitIInv == Init => IInv
  BY Constants, NoneAssumption
  DEF Init, IInv, TypeOK, Timers, FlightYoung, EntryYoung, HandYoung, CurrentYoung, HasLoop,
      Youngest, NewestWins, Ca, Sleeping

\* is kept by every step,
LEMMA StepIInv == IInv /\ [Next]_vars => IInv'
<1> SUFFICES ASSUME IInv, [Next]_vars PROVE IInv'
  OBVIOUS
<1>1. TypeOK'
  BY TypeStep DEF IInv
<1> QED BY <1>1, TimersStep, FlightStep, EntryStep, HandStep, CurrentStep, HasLoopStep,
           YoungestStep, NewestStep DEF IInv

\* and so holds always.
LEMMA Inductive == Spec => []IInv
  BY InitIInv, StepIInv, PTL DEF Spec

\* The state of the cache and of the loops stays within its types, ages and timers
\* within their bounds, for any clients, loops, lifetime, interval and delay.
THEOREM TypeCorrect == Spec => []TypeOK
<1>1. IInv => TypeOK
  BY DEF IInv
<1> QED BY <1>1, Inductive, PTL

\* get_or_fetch_credentials with start_rotation_loop: no workload's current
\* credentials expire, for any number of loops on any client, whichever of them
\* stores last, given an interval that suits the lifetime (IntervalSuits).
THEOREM ValidCredentials == Spec => []CurrentStaysValid
<1>1. IInv => CurrentStaysValid
  <2> SUFFICES ASSUME IInv, NEW c \in Client, current[c] # None PROVE current[c].age <= Ttl
    BY DEF CurrentStaysValid
  <2>1. PICK l \in Loop : Owner[l] = c
    BY DEF IInv, HasLoop
  <2>2. current[c].age <= Budget(l)
    BY <2>1 DEF IInv, CurrentYoung
  <2>3. Budget(l) \in Nat /\ Budget(l) <= Ttl
    BY BudgetIsLifetime DEF IInv
  <2>4. current[c].age \in Nat
    BY DEF IInv, TypeOK, Cred, Age
  <2> QED BY <2>2, <2>3, <2>4, Constants
<1> QED BY <1>1, Inductive, PTL

\* The cache hands out what was signed last, so a client's only loop never brings
\* an older certificate than the client has.
THEOREM NeverOlder == Spec => []NewestWins
<1>1. IInv => NewestWins
  BY DEF IInv
<1> QED BY <1>1, Inductive, PTL
=============================================================================
