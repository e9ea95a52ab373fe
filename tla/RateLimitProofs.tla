-------------------------- MODULE RateLimitProofs --------------------------
(***************************************************************************)
(* The bounds of the rate limiter, for every number of calls and           *)
(* processes, every limit and window, however late a call gets to its next *)
(* step.  First that the counters in Redis keep the limit for the calls    *)
(* that come before the counter can be gone; then what the deque of a      *)
(* process keeps when threads work on it side by side.                     *)
(***************************************************************************)
EXTENDS RateLimit, FiniteSetTheorems, TLAPS

PCs == {"idle", "incr", "expire", "prune", "pop", "check", "append", "done"}

Counter == [count : Nat, expires : Int]

(* The clock and what the calls have read of it.                           *)
TypesOK ==
    /\ now \in 0..MaxTime
    /\ counters \in [Windows -> Counter]
    /\ pc \in [Calls -> PCs]
    /\ at \in [Calls -> 0..MaxTime]
    /\ \A c \in Calls : pc[c] \notin {"idle", "done"} =>
         at[c] <= now

(* The grant that a call is going to make after EXPIRE.                    *)
Promise(c) == [at |-> at[c], where |-> "redis", call |-> c]

Promised == {Promise(c) : c \in {d \in Calls : pc[d] = "expire"}}

(* The grants of window w, made or promised, of calls that were in time.   *)
Occupied(w) ==
    {g \in granted \cup Promised : /\ g.where = "redis"
                                   /\ WindowOf(g.at) = w
                                   /\ g.call \notin late}

(* No key, or one that lives longer than the calls of its window may take. *)
KeyOK(w) == counters[w] = NoKey \/ counters[w].expires > Grace(w)

CountOK(w) ==
    /\ IsFiniteSet(Occupied(w))
    /\ Cardinality(Occupied(w)) <= Limit
    /\ now <= Grace(w) => Cardinality(Occupied(w)) <= counters[w].count

IInv ==
    /\ TypesOK
    /\ \A w \in Windows : KeyOK(w) /\ CountOK(w)

-----------------------------------------------------------------------------
(* The single facts that the assumption on the constants is cited for.     *)
LEMMA Constants ==
    Limit \in Nat /\ Limit > 0 /\ Window \in Nat /\ Window > 0
    /\ MaxTime \in Nat
  BY RateLimitAssumption

(* Two times in one window are less than the window apart.                 *)
LEMMA SameWindow ==
  ASSUME NEW a \in Nat, NEW b \in Nat, WindowOf(a) = WindowOf(b)
  PROVE  b < a + Window
<1>1. PICK n \in Nat : n = Window /\ n > 0
  BY Constants
<1>2. a \div n = b \div n
  BY <1>1 DEF WindowOf
<1>3. a < n * (a \div n) + n /\ n * (a \div n) <= a
  BY <1>1, SMTT(30)
<1>4. b < n * (b \div n) + n /\ n * (b \div n) <= b
  BY <1>1, SMTT(30)
<1>5. PICK m \in Int : m = n * (a \div n) /\ m = n * (b \div n)
  BY <1>1, <1>2
<1> QED
  BY <1>1, <1>3, <1>4, <1>5

(* The grace of a window is over within a Window of any time in it.        *)
LEMMA GraceSoon ==
  ASSUME NEW a \in Nat
  PROVE  /\ Grace(WindowOf(a)) \in Nat
         /\ Grace(WindowOf(a)) <= a + Window
<1>1. PICK n \in Nat : n = Window /\ n > 0
  BY Constants
<1>2. PICK k \in Nat : k = a \div n
  BY <1>1, SMTT(30)
<1>3. n * k <= a
  BY <1>1, <1>2, SMTT(30)
<1>4. Grace(WindowOf(a)) = (k + 1) * n
  BY <1>1, <1>2 DEF Grace, WindowOf
<1>5. (k + 1) * n = n * k + n /\ n * k \in Nat
  BY <1>1, SMTT(30)
<1> QED
  BY <1>1, <1>3, <1>4, <1>5

(* A time that the clock shows is in one of the windows.                   *)
LEMMA WindowInRange == \A t \in 0..MaxTime : WindowOf(t) \in Windows
<1> SUFFICES ASSUME NEW t \in 0..MaxTime PROVE WindowOf(t) \in Windows
  OBVIOUS
<1>1. PICK n \in Nat, m \in Nat : n = Window /\ n > 0 /\ m = MaxTime
  BY Constants
<1>2. t \in Nat /\ t <= m
  BY <1>1
<1>3. t \div n \in Nat /\ m \div n \in Nat /\ t \div n <= m \div n
  BY <1>1, <1>2, SMTT(30)
<1> QED
  BY <1>1, <1>3 DEF WindowOf, Windows

-----------------------------------------------------------------------------
(* Nothing is in Redis and no call has begun.                              *)
LEMMA Start == Init => IInv
<1> SUFFICES ASSUME Init PROVE IInv
  OBVIOUS
<1>1. TypesOK
  BY Constants DEF Init, TypesOK, PCs, Counter, NoKey
<1>2. ASSUME NEW w \in Windows PROVE KeyOK(w) /\ CountOK(w)
  <2>1. Occupied(w) = {}
    BY DEF Init, Occupied, Promised
  <2>2. IsFiniteSet(Occupied(w)) /\ Cardinality(Occupied(w)) = 0
    BY <2>1, FS_EmptySet
  <2>3. counters[w] = NoKey /\ counters[w].count = 0
    BY <1>2 DEF Init, NoKey
  <2> QED
    BY <2>2, <2>3, Constants DEF KeyOK, CountOK
<1> QED
  BY <1>1, <1>2 DEF IInv

(* A step that grants nothing from Redis and sends no call to EXPIRE takes *)
(* up nothing in a window.                                                 *)
LEMMA Shrinks ==
  ASSUME NEW w \in Windows, CountOK(w),
         \A g \in granted' : g \in granted \/ g.where # "redis",
         \A d \in Calls : pc'[d] = "expire" =>
           pc[d] = "expire" /\ at'[d] = at[d],
         late \subseteq late',
         now' <= Grace(w) => /\ now <= Grace(w)
                            /\ counters'[w].count >= counters[w].count,
         counters[w].count \in Nat, counters'[w].count \in Nat
  PROVE  CountOK(w)'
<1>1. Promised' \subseteq Promised
  BY DEF Promised, Promise
<1>2. Occupied(w)' \subseteq Occupied(w)
  BY <1>1 DEF Occupied
<1>3. IsFiniteSet(Occupied(w)) /\ IsFiniteSet(Occupied(w)')
  BY <1>2, FS_Subset DEF CountOK
<1>4. Cardinality(Occupied(w)') <= Cardinality(Occupied(w))
  BY <1>2, <1>3, FS_Subset
<1>5. Cardinality(Occupied(w)') \in Nat /\ Cardinality(Occupied(w)) \in Nat
  BY <1>3, FS_CardinalityType
<1> QED
  BY <1>3, <1>4, <1>5, Constants DEF CountOK

(* INCR: the key lives on, no other key changes, and until the grace of    *)
(* the window is over the key is as it was and its count goes up by one.   *)
LEMMA CountedDoes ==
  ASSUME IInv, NEW c \in Calls, pc[c] = "incr"
  PROVE  LET w == WindowOf(at[c])
         IN /\ w \in Windows
            /\ Counted(c) \in [Windows -> Counter]
            /\ now <= Grace(w) => /\ Key(w) = counters[w]
                                  /\ Counted(c)[w].count = counters[w].count + 1
            /\ Counted(c)[w].expires > Grace(w)
            /\ \A v \in Windows : v # w => Counted(c)[v] = counters[v]
<1>1. PICK a \in 0..MaxTime : a = at[c]
  BY DEF IInv, TypesOK
<1>2. PICK w : w = WindowOf(at[c])
  OBVIOUS
<1>3. w \in Windows
  BY <1>1, <1>2, WindowInRange
<1>4. counters \in [Windows -> Counter] /\ counters[w] \in Counter
      /\ now \in 0..MaxTime
  BY <1>3 DEF IInv, TypesOK
<1>5. PICK h \in Nat : h = Grace(w) /\ h <= a + Window
  BY <1>1, <1>2, GraceSoon
<1>6. counters[w] = NoKey \/ counters[w].expires > h
  BY <1>3, <1>5 DEF IInv, KeyOK
<1>7. Key(w) \in Counter /\ (Key(w) = NoKey \/ Key(w).expires > h)
  BY <1>4, <1>6 DEF Key, NoKey, Counter
<1>8. now <= h => Key(w) = counters[w]
  BY <1>4, <1>5, <1>6 DEF Key, Counter
<1>9. PICK k : k = [count |-> Key(w).count + 1,
                    expires |-> IF Key(w) = NoKey THEN NoTTL
                                ELSE Key(w).expires]
  OBVIOUS
<1>10. Counted(c) = [counters EXCEPT ![w] = k]
  BY <1>2, <1>9 DEF Counted
<1>11. k \in Counter /\ k.expires > h /\ k.count = Key(w).count + 1
  BY <1>1, <1>5, <1>7, <1>9, Constants DEF Counter, NoTTL
<1> HIDE DEF WindowOf, Key, Counted, Grace
<1>12. Counted(c)[w] = k /\ Counted(c) \in [Windows -> Counter]
       /\ \A v \in Windows : v # w => Counted(c)[v] = counters[v]
  BY <1>3, <1>4, <1>10, <1>11
<1> QED
  BY <1>2, <1>3, <1>5, <1>8, <1>11, <1>12

(* EXPIRE: the counts are as before, no other key changes, and the key     *)
(* outlives the grace of the window.                                       *)
LEMMA LimitedDoes ==
  ASSUME IInv, NEW c \in Calls, pc[c] = "expire"
  PROVE  LET w == WindowOf(at[c])
         IN /\ w \in Windows
            /\ Limited(c) \in [Windows -> Counter]
            /\ Limited(c)[w].expires > Grace(w)
            /\ \A v \in Windows : /\ Limited(c)[v].count = counters[v].count
                                  /\ v # w => Limited(c)[v] = counters[v]
<1>1. PICK a \in 0..MaxTime : a = at[c] /\ a <= now
  BY DEF IInv, TypesOK
<1>2. PICK w : w = WindowOf(at[c])
  OBVIOUS
<1>3. w \in Windows
  BY <1>1, <1>2, WindowInRange
<1>4. counters \in [Windows -> Counter] /\ now \in 0..MaxTime
  BY DEF IInv, TypesOK
<1>5. PICK h \in Nat : h = Grace(w) /\ h <= a + Window
  BY <1>1, <1>2, GraceSoon
<1>6. PICK e : e = now + TimeToLive
  OBVIOUS
<1>7. e \in Int /\ e > h
  BY <1>1, <1>4, <1>5, <1>6, Constants DEF TimeToLive
<1>8. Limited(c) = [counters EXCEPT ![w].expires = e]
  BY <1>2, <1>6 DEF Limited
<1>9. /\ Limited(c) \in [Windows -> Counter]
      /\ Limited(c)[w].expires = e
      /\ \A v \in Windows : /\ Limited(c)[v].count = counters[v].count
                            /\ v # w => Limited(c)[v] = counters[v]
  BY <1>3, <1>4, <1>7, <1>8 DEF Counter
<1> QED
  BY <1>2, <1>3, <1>5, <1>7, <1>9

(* The invariant after a step that leaves the keys and grants nothing from *)
(* Redis.                                                                  *)
LEMMA Elsewhere ==
  ASSUME IInv, TypesOK', counters' = counters, late' = late,
         now' >= now,
         \A g \in granted' : g \in granted \/ g.where # "redis",
         \A d \in Calls : pc'[d] = "expire" =>
           pc[d] = "expire" /\ at'[d] = at[d]
  PROVE  IInv'
<1>1. ASSUME NEW w \in Windows PROVE KeyOK(w)' /\ CountOK(w)'
  <2>1. KeyOK(w) /\ CountOK(w) /\ counters[w].count \in Nat
    BY <1>1 DEF IInv, TypesOK, Counter
  <2>2. KeyOK(w)'
    BY <2>1 DEF KeyOK
  <2>3. w \in Nat /\ Grace(w) \in Int
    BY <1>1, Constants DEF Windows, Grace
  <2>4. now' <= Grace(w) => now <= Grace(w)
    BY <2>3 DEF IInv, TypesOK
  <2>5. CountOK(w)'
    BY <1>1, <2>1, <2>4, Shrinks
  <2> QED
    BY <2>2, <2>5
<1> QED
  BY <1>1 DEF IInv

-----------------------------------------------------------------------------
(* A call begins.                                                          *)
LEMMA ReadClockKeeps ==
  ASSUME IInv, NEW c \in Calls, ReadClock(c) PROVE IInv'
<1>1. pc' = [pc EXCEPT ![c] = "incr"] \/ pc' = [pc EXCEPT ![c] = "prune"]
  BY DEF ReadClock, Goto, GotoDeque
<1>2. TypesOK'
  BY <1>1, Constants DEF ReadClock, IInv, TypesOK, PCs
<1>3. \A d \in Calls : pc'[d] = "expire" =>
        pc[d] = "expire" /\ at'[d] = at[d]
  BY <1>1 DEF ReadClock, IInv, TypesOK
<1>4. now' = now /\ now \in Int /\ late' = late /\ counters' = counters
      /\ granted' = granted
  BY Constants DEF ReadClock, IInv, TypesOK
<1> QED
  BY <1>2, <1>3, <1>4, Elsewhere

(* The steps at the deque.                                                 *)
LEMMA DequeKeeps ==
  ASSUME IInv, NEW c \in Calls,
         SeeHead(c) \/ PopLeft(c) \/ Check(c) \/ AppendNow(c)
  PROVE  IInv'
<1>1. \E q \in PCs \ {"expire", "idle"} : pc' = [pc EXCEPT ![c] = q]
  BY DEF SeeHead, PopLeft, Check, AppendNow, Goto, PCs
<1>2. counters' = counters /\ at' = at /\ now' = now /\ late' = late
      /\ pc[c] \notin {"idle", "done"}
  BY DEF SeeHead, PopLeft, Check, AppendNow
<1>3. TypesOK'
  BY <1>1, <1>2 DEF IInv, TypesOK
<1>4. \A d \in Calls : pc'[d] = "expire" =>
        pc[d] = "expire" /\ at'[d] = at[d]
  BY <1>1, <1>2 DEF IInv, TypesOK
<1>5. \A g \in granted' : g \in granted \/ g.where # "redis"
  BY DEF SeeHead, PopLeft, Check, AppendNow, Grant
<1>6. now' >= now
  BY <1>2, Constants DEF IInv, TypesOK
<1> QED
  BY <1>2, <1>3, <1>4, <1>5, <1>6, Elsewhere

(* A second passes.                                                        *)
LEMMA TickKeeps == ASSUME IInv, Tick PROVE IInv'
<1>1. TypesOK'
  BY Constants DEF Tick, IInv, TypesOK
<1>2. now' >= now
  BY Constants DEF Tick, IInv, TypesOK
<1> QED
  BY <1>1, <1>2, Elsewhere DEF Tick

-----------------------------------------------------------------------------
(* What INCR leaves true of the keys and the counts.                       *)
LEMMA CountedKeepsKeys ==
  ASSUME IInv, NEW c \in Calls, pc[c] = "incr", counters' = Counted(c),
         NEW v \in Windows
  PROVE  /\ KeyOK(v)'
         /\ counters[v].count \in Nat /\ counters'[v].count \in Nat
         /\ now <= Grace(v) => counters'[v].count >= counters[v].count
<1>1. PICK w : w = WindowOf(at[c])
  OBVIOUS
<1>2. /\ w \in Windows
      /\ counters' \in [Windows -> Counter]
      /\ now <= Grace(w) => counters'[w].count = counters[w].count + 1
      /\ counters'[w].expires > Grace(w)
      /\ \A u \in Windows : u # w => counters'[u] = counters[u]
  BY <1>1, CountedDoes
<1>3. counters[v].count \in Nat /\ counters'[v].count \in Nat /\ KeyOK(v)
  BY <1>2 DEF IInv, TypesOK, Counter
<1>4. CASE v = w
  BY <1>2, <1>3, <1>4 DEF KeyOK
<1>5. CASE v # w
  BY <1>2, <1>3, <1>5 DEF KeyOK
<1> QED
  BY <1>4, <1>5

(* A command that takes up no place in window v that it did not have.      *)
LEMMA NoPlaceTaken ==
  ASSUME NEW v \in Windows, CountOK(v), Occupied(v)' \subseteq Occupied(v),
         now' = now,
         counters[v].count \in Nat, counters'[v].count \in Nat,
         now <= Grace(v) => counters'[v].count >= counters[v].count
  PROVE  CountOK(v)'
<1>1. IsFiniteSet(Occupied(v)')
      /\ Cardinality(Occupied(v)') <= Cardinality(Occupied(v))
  BY FS_Subset DEF CountOK
<1>2. Cardinality(Occupied(v)') \in Nat /\ Cardinality(Occupied(v)) \in Nat
  BY <1>1, FS_CardinalityType DEF CountOK
<1> QED
  BY <1>1, <1>2, Constants DEF CountOK

(* INCR, and whether the call is in time.                                  *)
LEMMA CountSteps ==
  ASSUME IInv, NEW c \in Calls, pc[c] = "incr", Count(c)
  PROVE  /\ counters' = Counted(c)
         /\ late \subseteq late'
         /\ now <= Grace(WindowOf(at[c])) \/ c \in late'
<1>1. now \in Nat /\ at[c] \in Nat
  BY Constants DEF IInv, TypesOK
<1>2. Grace(WindowOf(at[c])) \in Nat
  BY <1>1, GraceSoon
<1> QED
  BY <1>1, <1>2 DEF Count

(* INCR of a key that exists: the new grant is counted, and within the     *)
(* limit when it is one; or the call is late.                              *)
LEMMA IncrKeeps ==
  ASSUME IInv, NEW c \in Calls, Incr(c) PROVE IInv'
<1>1. pc[c] = "incr" /\ Count(c) /\ at' = at /\ now' = now
      /\ pc' = [pc EXCEPT ![c] = "done"]
  BY DEF Incr, Goto
<1>2. PICK w : w = WindowOf(at[c])
  OBVIOUS
<1>3. /\ counters' = Counted(c)
      /\ late \subseteq late'
      /\ now <= Grace(w) \/ c \in late'
  BY <1>1, <1>2, CountSteps
<1>4. /\ w \in Windows
      /\ counters' \in [Windows -> Counter]
      /\ now <= Grace(w) => counters'[w].count = counters[w].count + 1
  BY <1>1, <1>2, <1>3, CountedDoes
<1>5. TypesOK'
  BY <1>1, <1>4 DEF IInv, TypesOK, PCs
<1>6. Promised' \subseteq Promised
  BY <1>1 DEF Promised, Promise, IInv, TypesOK
<1>7. PICK g : g = Promise(c)
  OBVIOUS
<1>8. g.where = "redis" /\ WindowOf(g.at) = w /\ g.call = c
  BY <1>2, <1>7 DEF Promise
<1>9. granted' = granted \/ (granted' = granted \cup {g}
                             /\ counters'[w].count <= Limit)
  BY <1>1, <1>2, <1>7 DEF Incr, Grant, Promise
<1>10. ASSUME NEW v \in Windows PROVE KeyOK(v)' /\ CountOK(v)'
  <2>1. CountOK(v)
    BY DEF IInv
  <2>2. /\ KeyOK(v)'
        /\ counters[v].count \in Nat /\ counters'[v].count \in Nat
        /\ now <= Grace(v) => counters'[v].count >= counters[v].count
    BY <1>1, <1>3, CountedKeepsKeys
  <2>3. CASE granted' = granted \/ v # w \/ c \in late'
    <3>1. Occupied(v)' \subseteq Occupied(v)
      BY <1>3, <1>6, <1>8, <1>9, <2>3 DEF Occupied
    <3> QED
      BY <1>1, <2>1, <2>2, <3>1, NoPlaceTaken
  <2>4. CASE granted' # granted /\ v = w /\ c \notin late'
    <3>1. Occupied(w)' \subseteq Occupied(w) \cup {g}
      BY <1>3, <1>6, <1>9 DEF Occupied
    <3>2. now <= Grace(w)
      BY <1>3, <2>4
    <3>3. IsFiniteSet(Occupied(w)) /\ Cardinality(Occupied(w)) \in Nat
          /\ Cardinality(Occupied(w)) <= counters[w].count
      BY <2>1, <2>4, <3>2, FS_CardinalityType DEF CountOK
    <3>4. IsFiniteSet(Occupied(w) \cup {g})
          /\ Cardinality(Occupied(w) \cup {g}) <= Cardinality(Occupied(w)) + 1
      <4>1. IsFiniteSet(Occupied(w) \cup {g})
            /\ Cardinality(Occupied(w) \cup {g})
                 = IF g \in Occupied(w) THEN Cardinality(Occupied(w))
                                        ELSE Cardinality(Occupied(w)) + 1
        BY <3>3, FS_AddElement
      <4> QED
        BY <3>3, <4>1
    <3>5. IsFiniteSet(Occupied(w)')
          /\ Cardinality(Occupied(w)') <= Cardinality(Occupied(w) \cup {g})
      BY <3>1, <3>4, FS_Subset
    <3>6. Cardinality(Occupied(w)') \in Nat
          /\ Cardinality(Occupied(w) \cup {g}) \in Nat
      BY <3>4, <3>5, FS_CardinalityType
    <3>7. counters'[w].count <= Limit /\ counters[w].count \in Nat
          /\ counters'[w].count = counters[w].count + 1
      BY <1>4, <1>9, <2>2, <2>4, <3>2
    <3> QED
      BY <2>2, <2>4, <3>3, <3>4, <3>5, <3>6, <3>7, Constants DEF CountOK
  <2> QED
    BY <2>2, <2>3, <2>4
<1> QED
  BY <1>5, <1>10 DEF IInv

(* INCR that makes the key: no call of the window had been counted, or     *)
(* this one is late.                                                       *)
LEMMA IncrFirstKeeps ==
  ASSUME IInv, NEW c \in Calls, IncrFirst(c) PROVE IInv'
<1>1. pc[c] = "incr" /\ Count(c) /\ at' = at /\ now' = now
      /\ pc' = [pc EXCEPT ![c] = "expire"] /\ granted' = granted
  BY DEF IncrFirst, Goto
<1>2. PICK w : w = WindowOf(at[c])
  OBVIOUS
<1>3. /\ counters' = Counted(c)
      /\ late \subseteq late'
      /\ now <= Grace(w) \/ c \in late'
  BY <1>1, <1>2, CountSteps
<1>4. /\ w \in Windows
      /\ counters' \in [Windows -> Counter]
      /\ now <= Grace(w) => /\ Key(w) = counters[w]
                            /\ counters'[w].count = counters[w].count + 1
  BY <1>1, <1>2, <1>3, CountedDoes
<1>5. TypesOK'
  BY <1>1, <1>4 DEF IInv, TypesOK, PCs
<1>6. PICK g : g = Promise(c)
  OBVIOUS
<1>7. g.where = "redis" /\ WindowOf(g.at) = w /\ g.call = c
  BY <1>2, <1>6 DEF Promise
<1>8. Promised' \subseteq Promised \cup {g}
  BY <1>1, <1>6 DEF Promised, Promise, IInv, TypesOK
<1>9. ASSUME NEW v \in Windows PROVE KeyOK(v)' /\ CountOK(v)'
  <2>1. CountOK(v)
    BY DEF IInv
  <2>2. /\ KeyOK(v)'
        /\ counters[v].count \in Nat /\ counters'[v].count \in Nat
        /\ now <= Grace(v) => counters'[v].count >= counters[v].count
    BY <1>1, <1>3, CountedKeepsKeys
  <2>3. CASE v # w \/ c \in late'
    <3>1. Occupied(v)' \subseteq Occupied(v)
      BY <1>1, <1>3, <1>7, <1>8, <2>3 DEF Occupied
    <3> QED
      BY <1>1, <2>1, <2>2, <3>1, NoPlaceTaken
  <2>4. CASE v = w /\ c \notin late'
    <3>1. counters[w].count = 0 /\ counters'[w].count = 1 /\ now <= Grace(w)
      <4>1. now <= Grace(w) /\ Key(w) = counters[w]
            /\ counters'[w].count = counters[w].count + 1
        BY <1>3, <1>4, <2>4
      <4>2. counters[w] = NoKey
        BY <1>2, <4>1 DEF IncrFirst
      <4> QED
        BY <4>1, <4>2 DEF NoKey
    <3>2. Cardinality(Occupied(w)) = 0 /\ IsFiniteSet(Occupied(w))
      BY <2>1, <2>4, <3>1, FS_CardinalityType DEF CountOK
    <3>3. Occupied(w) = {}
      BY <3>2, FS_EmptySet
    <3>4. Occupied(w)' \subseteq {g}
      BY <1>1, <1>3, <1>8, <3>3 DEF Occupied
    <3>5. IsFiniteSet({g}) /\ Cardinality({g}) = 1
      BY FS_Singleton
    <3>6. IsFiniteSet(Occupied(w)') /\ Cardinality(Occupied(w)') <= 1
      BY <3>4, <3>5, FS_Subset
    <3>7. Cardinality(Occupied(w)') \in Nat
      BY <3>6, FS_CardinalityType
    <3> QED
      BY <2>2, <2>4, <3>1, <3>6, <3>7, Constants DEF CountOK
  <2> QED
    BY <2>2, <2>3, <2>4
<1> QED
  BY <1>5, <1>9 DEF IInv

(* What EXPIRE leaves true of the keys and the counts.                     *)
LEMMA LimitedKeepsKeys ==
  ASSUME IInv, NEW c \in Calls, pc[c] = "expire", counters' = Limited(c),
         NEW v \in Windows
  PROVE  /\ KeyOK(v)'
         /\ counters[v].count \in Nat /\ counters'[v].count \in Nat
         /\ now <= Grace(v) => counters'[v].count >= counters[v].count
<1>1. PICK w : w = WindowOf(at[c])
  OBVIOUS
<1>2. /\ counters'[w].expires > Grace(w)
      /\ counters'[v].count = counters[v].count
      /\ v # w => counters'[v] = counters[v]
  BY <1>1, LimitedDoes
<1>3. counters[v].count \in Nat /\ KeyOK(v)
  BY DEF IInv, TypesOK, Counter
<1> QED
  BY <1>2, <1>3 DEF KeyOK

(* EXPIRE: the promised grant is made, and the key outlives every call of  *)
(* the window that is in time.                                             *)
LEMMA ExpireKeeps ==
  ASSUME IInv, NEW c \in Calls, Expire(c) PROVE IInv'
<1>1. pc[c] = "expire" /\ at' = at /\ now' = now /\ late' = late
      /\ pc' = [pc EXCEPT ![c] = "done"] /\ granted' = granted \cup {Promise(c)}
      /\ counters' = Limited(c)
  BY DEF Expire, Goto, Grant, Promise
<1>2. counters' \in [Windows -> Counter]
  BY <1>1, LimitedDoes
<1>3. TypesOK'
  BY <1>1, <1>2 DEF IInv, TypesOK, PCs
<1>4. Promise(c) \in Promised /\ Promised' \subseteq Promised
  BY <1>1 DEF Promised, Promise, IInv, TypesOK
<1>5. ASSUME NEW v \in Windows PROVE KeyOK(v)' /\ CountOK(v)'
  <2>1. CountOK(v)
    BY DEF IInv
  <2>2. Occupied(v)' \subseteq Occupied(v)
    BY <1>1, <1>4 DEF Occupied
  <2> QED
    BY <1>1, <2>1, <2>2, LimitedKeepsKeys, NoPlaceTaken
<1> QED
  BY <1>3, <1>5 DEF IInv

(* An error of Redis, whether or not the command took effect.              *)
LEMMA RedisFailsKeeps ==
  ASSUME IInv, NEW c \in Calls, RedisFails(c) PROVE IInv'
<1>1. PICK q \in {"done", "prune"} : pc' = [pc EXCEPT ![c] = q]
  BY DEF RedisFails, Goto, GotoDeque
<1>2. at' = at \/ at' = [at EXCEPT ![c] = now]
  BY DEF RedisFails
<1>3. \/ counters' = counters
      \/ pc[c] = "incr" /\ counters' = Counted(c)
      \/ pc[c] = "expire" /\ counters' = Limited(c)
  BY DEF RedisFails
<1>4. now' = now /\ granted' = granted /\ late' = late
      /\ pc[c] \in {"incr", "expire"}
  BY DEF RedisFails
<1>5. counters' \in [Windows -> Counter]
  BY <1>3, CountedDoes, LimitedDoes DEF IInv, TypesOK
<1>6. TypesOK'
  BY <1>1, <1>2, <1>4, <1>5, Constants DEF IInv, TypesOK, PCs
<1>7. Promised' \subseteq Promised
  BY <1>1, <1>2 DEF Promised, Promise, IInv, TypesOK
<1>8. ASSUME NEW v \in Windows PROVE KeyOK(v)' /\ CountOK(v)'
  <2>1. CountOK(v)
    BY DEF IInv
  <2>2. /\ KeyOK(v)'
        /\ counters[v].count \in Nat /\ counters'[v].count \in Nat
        /\ now <= Grace(v) => counters'[v].count >= counters[v].count
    <3>1. CASE counters' = counters
      BY <3>1, Constants DEF IInv, KeyOK, TypesOK, Counter
    <3>2. CASE pc[c] = "incr" /\ counters' = Counted(c)
      BY <3>2, CountedKeepsKeys
    <3>3. CASE pc[c] = "expire" /\ counters' = Limited(c)
      BY <3>3, LimitedKeepsKeys
    <3> QED
      BY <1>3, <3>1, <3>2, <3>3
  <2>3. Occupied(v)' \subseteq Occupied(v)
    BY <1>4, <1>7 DEF Occupied
  <2> QED
    BY <1>4, <2>1, <2>2, <2>3, NoPlaceTaken
<1> QED
  BY <1>6, <1>8 DEF IInv

-----------------------------------------------------------------------------
(* Every step keeps the invariant.                                         *)
LEMMA Step == ASSUME IInv, [Next]_vars PROVE IInv'
<1>1. CASE UNCHANGED vars
  <2>1. TypesOK' /\ counters' = counters /\ late' = late /\ now' >= now
        /\ (\A g \in granted' : g \in granted)
        /\ (\A d \in Calls : pc'[d] = pc[d] /\ at'[d] = at[d])
    BY <1>1, Constants DEF vars, IInv, TypesOK
  <2> QED
    BY <2>1, Elsewhere
<1>2. ASSUME NEW c \in Calls, ReadClock(c) PROVE IInv'
  BY <1>2, ReadClockKeeps
<1>3. ASSUME NEW c \in Calls, Incr(c) PROVE IInv'
  BY <1>3, IncrKeeps
<1>4. ASSUME NEW c \in Calls, IncrFirst(c) PROVE IInv'
  BY <1>4, IncrFirstKeeps
<1>5. ASSUME NEW c \in Calls, Expire(c) PROVE IInv'
  BY <1>5, ExpireKeeps
<1>6. ASSUME NEW c \in Calls, RedisFails(c) PROVE IInv'
  BY <1>6, RedisFailsKeeps
<1>7. ASSUME NEW c \in Calls,
             SeeHead(c) \/ PopLeft(c) \/ Check(c) \/ AppendNow(c)
      PROVE  IInv'
  BY <1>7, DequeKeeps
<1>8. CASE Tick
  BY <1>8, TickKeeps
<1> QED
  BY <1>1, <1>2, <1>3, <1>4, <1>5, <1>6, <1>7, <1>8 DEF Next

(* The invariant says what RedisLimit does, and more: also the grants that *)
(* are still to come are within the limit.                                 *)
LEMMA Limits == IInv => RedisLimit
<1> SUFFICES ASSUME IInv, NEW w \in Windows
             PROVE  Cardinality({g \in granted : /\ g.where = "redis"
                                                 /\ WindowOf(g.at) = w
                                                 /\ g.call \notin late})
                      <= Limit
  BY DEF RedisLimit
<1> DEFINE G == {g \in granted : /\ g.where = "redis"
                                 /\ WindowOf(g.at) = w
                                 /\ g.call \notin late}
<1>1. CountOK(w)
  BY DEF IInv
<1>2. G \subseteq Occupied(w)
  BY DEF Occupied
<1>3. IsFiniteSet(G) /\ Cardinality(G) <= Cardinality(Occupied(w))
  BY <1>1, <1>2, FS_Subset DEF CountOK
<1>4. Cardinality(G) \in Nat /\ Cardinality(Occupied(w)) \in Nat
  BY <1>1, <1>3, FS_CardinalityType DEF CountOK
<1> QED
  BY <1>1, <1>3, <1>4, Constants DEF CountOK

(* HybridRateLimiter with Redis, in any number of processes: in no window  *)
(* of the clock are more than the limit let in of the calls whose INCR     *)
(* comes within the second that EXPIRE adds to the window, whatever the    *)
(* later ones find, and however late EXPIRE is or whether it fails.        *)
THEOREM RedisBound == Spec => []RedisLimit
<1>1. Init => IInv
  BY Start
<1>2. IInv /\ [Next]_vars => IInv'
  BY Step
<1>3. IInv => RedisLimit
  BY Limits
<1> QED
  BY <1>1, <1>2, <1>3, PTL DEF Spec
-----------------------------------------------------------------------------
(* The grant that a call makes from the deque, and the calls of a process  *)
(* that have made theirs.                                                  *)
GrantOf(c) == [at |-> at[c], where |-> "memory", call |-> c]

Served(s) == {c \in Calls : Home[c] = s /\ GrantOf(c) \in granted}

(* Of these the ones after a time; those among them that were at the deque *)
(* alone; and the ones of the Window that begins after a time.             *)
After(s, t) == {c \in Served(s) : at[c] > t}

Alone(s, t) == After(s, t) \ beside

Recently(s, t) == {c \in After(s, t) : at[c] <= t + Window}

(* The calls at the deque of a process, and those that were not alone.     *)
Here(s) == {c \in Calls : Home[c] = s /\ AtDeque(c)}

Beside(s) == {c \in beside : Home[c] = s}

Finished(s) == {c \in Beside(s) : pc[c] = "done"}

NotPopping(s) == {c \in Beside(s) : pc[c] # "pop"}

(* What the calls, their grants and the deques are, whatever Redis does.   *)
MemoryTypes ==
    /\ now \in Nat
    /\ pc \in [Calls -> PCs]
    /\ at \in [Calls -> Nat]
    /\ \A c \in Calls : at[c] <= now
    /\ buckets \in [Servers -> Seq(Nat)]
    /\ \A g \in granted : g.where = "memory" =>
         g.call \in Calls /\ g = GrantOf(g.call) /\ pc[g.call] = "done"
    /\ beside \subseteq {c \in Calls : AtDeque(c) \/ pc[c] = "done"}

(* A call that is at the deque alone finds there what it saw before.       *)
AloneOK(s) ==
    \A c \in Here(s) \ beside :
      /\ Here(s) = {c}
      /\ pc[c] = "pop" => /\ buckets[s] # <<>>
                          /\ buckets[s][1] <= at[c] - Window
      /\ pc[c] = "append" => Len(buckets[s]) < Limit

(* The Window that begins after t may still get a grant of a call that is  *)
(* alone.                                                                  *)
Open(s, t) ==
    \/ t >= now - Window
    \/ \E c \in Here(s) \ beside : t >= at[c] - Window

(* The deque has an entry for each call alone after t, behind the entries  *)
(* of t and before; no such call is there while one of t or before is      *)
(* still to append.                                                        *)
Kept(s, t) ==
    /\ Cardinality(Alone(s, t)) <= Len(buckets[s])
    /\ \A i \in 1..Len(buckets[s]) : buckets[s][i] <= t =>
         Cardinality(Alone(s, t)) <= Len(buckets[s]) - i
    /\ \A c \in Here(s) : at[c] <= t => Alone(s, t) = {}

(* Calls beside each other may have dropped entries after t, but each only *)
(* one between two looks at the head, and then no call pops another.       *)
Lost(s, t) ==
    /\ \A i \in 1..Len(buckets[s]) : buckets[s][i] > t
    /\ \A c \in Here(s) : at[c] > t
    /\ Cardinality(After(s, t))
         <= Len(buckets[s]) + Cardinality(NotPopping(s))

DequeOK(s, t) == Open(s, t) => Kept(s, t) \/ Lost(s, t)

WindowOK(s, t) ==
    Cardinality(Recently(s, t)) <= Limit + Cardinality(Finished(s))

ProcessOK(s) ==
    /\ AloneOK(s)
    /\ \A t \in Int : DequeOK(s, t) /\ WindowOK(s, t)

MInv ==
    /\ MemoryTypes
    /\ \A s \in Servers : ProcessOK(s)

-----------------------------------------------------------------------------
(* Every call runs in a process.                                           *)
LEMMA Homes == Home \in [Calls -> Servers]
  BY RateLimitAssumption

(* Sets of calls are finite, and counted as sets are.                      *)
LEMMA Fewer ==
  ASSUME NEW T \in SUBSET Calls, NEW S \in SUBSET T
  PROVE  /\ Cardinality(S) \in Nat
         /\ Cardinality(T) \in Nat
         /\ Cardinality(S) <= Cardinality(T)
<1>1. IsFiniteSet(Calls)
  BY RateLimitAssumption
<1>2. IsFiniteSet(T)
  BY <1>1, FS_Subset
<1>3. IsFiniteSet(S) /\ Cardinality(S) <= Cardinality(T)
  BY <1>2, FS_Subset
<1> QED
  BY <1>2, <1>3, FS_CardinalityType

(* One call more makes one more, or none if it was among them.             *)
LEMMA OneMore ==
  ASSUME NEW S \in SUBSET Calls, NEW c
  PROVE  /\ Cardinality(S \cup {c}) <= Cardinality(S) + 1
         /\ c \notin S => Cardinality(S \cup {c}) = Cardinality(S) + 1
<1>1. IsFiniteSet(S) /\ Cardinality(S) \in Nat
  BY RateLimitAssumption, FS_Subset, FS_CardinalityType
<1>2. Cardinality(S \cup {c})
        = IF c \in S THEN Cardinality(S) ELSE Cardinality(S) + 1
  BY <1>1, FS_AddElement
<1> QED
  BY <1>1, <1>2

(* Calls that are among those of two sets.                                 *)
LEMMA Split ==
  ASSUME NEW S \in SUBSET Calls, NEW T \in SUBSET Calls, NEW U,
         U \subseteq S \cup T
  PROVE  Cardinality(U) <= Cardinality(S) + Cardinality(T)
<1>1. IsFiniteSet(S) /\ IsFiniteSet(T)
  BY RateLimitAssumption, FS_Subset
<1>2. PICK m : m = Cardinality(S \cup T)
  OBVIOUS
<1>3. IsFiniteSet(S \cup T)
      /\ m = Cardinality(S) + Cardinality(T) - Cardinality(S \cap T)
  BY <1>1, <1>2, FS_Union
<1>4. IsFiniteSet(S \cap T) /\ IsFiniteSet(U) /\ Cardinality(U) <= m
  BY <1>1, <1>2, <1>3, FS_Subset
<1>5. Cardinality(S \cap T) \in Nat /\ Cardinality(S) \in Nat
      /\ Cardinality(T) \in Nat /\ Cardinality(U) \in Nat
  BY <1>1, <1>4, FS_CardinalityType
<1> QED
  BY <1>3, <1>4, <1>5

(* What the sets of the invariant are.                                     *)
LEMMA Sets ==
  ASSUME MemoryTypes, NEW s \in Servers, NEW t \in Int
  PROVE  /\ Served(s) \subseteq Calls /\ After(s, t) \subseteq Calls
         /\ Alone(s, t) \subseteq After(s, t)
         /\ Recently(s, t) \subseteq After(s, t)
         /\ Beside(s) \subseteq Calls
         /\ NotPopping(s) \subseteq Beside(s)
         /\ Finished(s) \subseteq NotPopping(s)
         /\ After(s, t) \subseteq Alone(s, t) \cup Finished(s)
         /\ buckets[s] \in Seq(Nat) /\ Len(buckets[s]) \in Nat
         /\ \A i \in 1..Len(buckets[s]) : buckets[s][i] \in Nat
<1>1. \A c \in Served(s) : pc[c] = "done" /\ Home[c] = s
  BY DEF Served, GrantOf, MemoryTypes
<1>2. buckets[s] \in Seq(Nat)
  BY DEF MemoryTypes
<1>3. Beside(s) \subseteq Calls
  BY DEF Beside, MemoryTypes
<1>4. After(s, t) \subseteq Alone(s, t) \cup Finished(s)
  BY <1>1 DEF After, Alone, Finished, Beside
<1>5. Finished(s) \subseteq NotPopping(s)
  BY DEF Finished, NotPopping
<1> QED
  BY <1>2, <1>3, <1>4, <1>5 DEF Served, After, Alone, Recently, NotPopping

(* The numbers of their elements are numbers.                              *)
LEMMA Numbers ==
  ASSUME MemoryTypes, NEW s \in Servers, NEW t \in Int
  PROVE  /\ Cardinality(After(s, t)) \in Nat
         /\ Cardinality(Alone(s, t)) \in Nat
         /\ Cardinality(Recently(s, t)) \in Nat
         /\ Cardinality(Finished(s)) \in Nat
         /\ Cardinality(NotPopping(s)) \in Nat
         /\ Cardinality(Finished(s)) <= Cardinality(NotPopping(s))
         /\ Cardinality(Recently(s, t)) <= Cardinality(After(s, t))
         /\ Cardinality(After(s, t))
              <= Cardinality(Alone(s, t)) + Cardinality(Finished(s))
         /\ Len(buckets[s]) \in Nat
<1>1. /\ After(s, t) \subseteq Calls /\ Alone(s, t) \subseteq After(s, t)
      /\ Recently(s, t) \subseteq After(s, t)
      /\ NotPopping(s) \subseteq Calls
      /\ Finished(s) \subseteq NotPopping(s)
      /\ After(s, t) \subseteq Alone(s, t) \cup Finished(s)
      /\ Len(buckets[s]) \in Nat
  BY Sets
<1>2. Cardinality(Alone(s, t)) \in Nat /\ Cardinality(After(s, t)) \in Nat
  BY <1>1, Fewer
<1>3. Cardinality(Recently(s, t)) \in Nat
      /\ Cardinality(Recently(s, t)) <= Cardinality(After(s, t))
  BY <1>1, Fewer
<1>4. Cardinality(Finished(s)) \in Nat /\ Cardinality(NotPopping(s)) \in Nat
      /\ Cardinality(Finished(s)) <= Cardinality(NotPopping(s))
  BY <1>1, Fewer
<1>5. Alone(s, t) \subseteq Calls /\ Finished(s) \subseteq Calls
  BY <1>1
<1>6. Cardinality(After(s, t))
        <= Cardinality(Alone(s, t)) + Cardinality(Finished(s))
  BY <1>1, <1>5, Split
<1> QED
  BY <1>1, <1>2, <1>3, <1>4, <1>6

(* While a Window is open, a call at the deque prunes only before it.      *)
LEMMA OpenHere ==
  ASSUME MemoryTypes, NEW s \in Servers, AloneOK(s), NEW t \in Int,
         Open(s, t), NEW c \in Here(s)
  PROVE  at[c] - Window <= t
<1>1. at[c] \in Nat /\ at[c] <= now /\ now \in Nat /\ Window \in Nat
  BY Constants DEF MemoryTypes, Here
<1>2. CASE t >= now - Window
  BY <1>1, <1>2
<1>3. ASSUME NEW d \in Here(s) \ beside, t >= at[d] - Window
      PROVE  at[c] - Window <= t
  <2>1. Here(s) = {d}
    BY <1>3 DEF AloneOK
  <2> QED
    BY <1>1, <1>3, <2>1
<1> QED
  BY <1>2, <1>3 DEF Open

-----------------------------------------------------------------------------
(* A process whose deque, calls at it and grants from it stay the same, as *)
(* time passes or not.                                                     *)
LEMMA Untouched ==
  ASSUME MemoryTypes, NEW s \in Servers, ProcessOK(s),
         now' \in Nat, now' >= now,
         buckets'[s] = buckets[s], Served(s)' = Served(s),
         Here(s)' = Here(s), Beside(s)' = Beside(s),
         \A d \in Here(s) \cup Beside(s) : pc'[d] = pc[d],
         \A d \in Here(s) \cup Served(s) : at'[d] = at[d]
  PROVE  ProcessOK(s)'
<1>1. \A d \in Here(s) : d \in beside' <=> d \in beside
  BY DEF Here, Beside
<1>2. AloneOK(s)'
  <2>1. ASSUME NEW d \in Here(s)', d \notin beside'
        PROVE  /\ Here(s)' = {d}
               /\ pc'[d] = "pop" => /\ buckets'[s] # <<>>
                                    /\ buckets'[s][1] <= at'[d] - Window
               /\ pc'[d] = "append" => Len(buckets'[s]) < Limit
    <3>1. d \in Here(s) \ beside /\ pc'[d] = pc[d] /\ at'[d] = at[d]
      BY <1>1, <2>1
    <3> QED
      BY <3>1 DEF ProcessOK, AloneOK
  <2> QED
    BY <2>1 DEF AloneOK
<1>3. ASSUME NEW t \in Int PROVE DequeOK(s, t)' /\ WindowOK(s, t)'
  <2>1. After(s, t)' = After(s, t)
    BY DEF After
  <2>2. Alone(s, t)' = Alone(s, t)
    <3>1. \A d \in After(s, t) : d \in beside' <=> d \in beside
      BY DEF After, Served, Beside
    <3> QED
      BY <2>1, <3>1 DEF Alone
  <2>3. Recently(s, t)' = Recently(s, t)
    BY <2>1 DEF Recently, After
  <2>4. Finished(s)' = Finished(s) /\ NotPopping(s)' = NotPopping(s)
    BY DEF Finished, NotPopping
  <2>5. WindowOK(s, t)'
    BY <2>3, <2>4 DEF ProcessOK, WindowOK
  <2>6. ASSUME Open(s, t)' PROVE Open(s, t)
    <3>1. CASE t >= now' - Window
      <4>1. PICK n \in Nat, m \in Nat, w \in Nat :
              n = now /\ m = now' /\ w = Window
        BY Constants DEF MemoryTypes
      <4>2. t >= m - w /\ m >= n
        BY <3>1, <4>1
      <4>3. t >= n - w
        BY <4>2
      <4> QED
        BY <4>1, <4>3 DEF Open
    <3>2. CASE \E d \in Here(s)' \ beside' : t >= at'[d] - Window
      BY <1>1, <3>2 DEF Open
    <3> QED
      BY <2>6, <3>1, <3>2 DEF Open
  <2>7. Kept(s, t) => Kept(s, t)'
    BY <2>2 DEF Kept
  <2>8. Lost(s, t) => Lost(s, t)'
    BY <2>1, <2>4 DEF Lost
  <2> QED
    BY <2>5, <2>6, <2>7, <2>8 DEF DequeOK, ProcessOK
<1> QED
  BY <1>2, <1>3 DEF ProcessOK

(* A second passes, or nothing happens.                                    *)
LEMMA WaitKeeps ==
  ASSUME MInv, now' \in Nat, now' >= now,
         UNCHANGED <<buckets, pc, at, granted, beside>>
  PROVE  MInv'
<1>1. MemoryTypes'
  BY DEF MInv, MemoryTypes, GrantOf, AtDeque
<1>2. ASSUME NEW s \in Servers PROVE ProcessOK(s)'
  <2>1. Served(s)' = Served(s) /\ Here(s)' = Here(s) /\ Beside(s)' = Beside(s)
    BY DEF Served, GrantOf, Here, AtDeque, Beside
  <2>2. MemoryTypes /\ ProcessOK(s)
    BY DEF MInv
  <2> QED
    BY <2>1, <2>2, Untouched
<1> QED
  BY <1>1, <1>2 DEF MInv

(* A call that has not come to the deque yet: whatever it does next, the   *)
(* grants from the deque remain those of the others.                       *)
LEMMA Comes ==
  ASSUME MemoryTypes, NEW c \in Calls, pc[c] \in {"idle", "incr", "expire"},
         NEW q \in PCs, pc' = [pc EXCEPT ![c] = q],
         at' = at \/ at' = [at EXCEPT ![c] = now],
         \A g \in granted' : g \in granted \/ g.where # "memory",
         granted \subseteq granted', now' = now
  PROVE  /\ pc' \in [Calls -> PCs] /\ at' \in [Calls -> Nat]
         /\ \A d \in Calls : at'[d] <= now'
         /\ \A d \in Calls : d # c => pc'[d] = pc[d] /\ at'[d] = at[d]
         /\ pc'[c] = q
         /\ \A g \in granted' : g.where = "memory" =>
              g.call \in Calls /\ g = GrantOf(g.call)' /\ pc'[g.call] = "done"
         /\ c \notin beside /\ ~AtDeque(c)
         /\ \A s \in Servers : Served(s)' = Served(s) /\ c \notin Served(s)
<1>1. now \in Nat
  BY DEF MemoryTypes
<1>2. \A d \in Calls : d # c => pc'[d] = pc[d] /\ at'[d] = at[d]
  BY DEF MemoryTypes
<1>3. pc' \in [Calls -> PCs] /\ pc'[c] = q
  BY DEF MemoryTypes
<1>4. at' \in [Calls -> Nat] /\ \A d \in Calls : at'[d] <= now'
  <2>1. CASE at' = at
    BY <2>1 DEF MemoryTypes
  <2>2. CASE at' = [at EXCEPT ![c] = now]
    BY <1>1, <2>2 DEF MemoryTypes
  <2> QED
    BY <2>1, <2>2
<1>5. ASSUME NEW g \in granted', g.where = "memory"
      PROVE  g.call \in Calls /\ g = GrantOf(g.call)' /\ pc'[g.call] = "done"
  <2>1. g \in granted /\ g.call \in Calls /\ g = GrantOf(g.call)
        /\ pc[g.call] = "done"
    BY <1>5 DEF MemoryTypes
  <2>2. g.call # c
    BY <2>1
  <2> QED
    BY <1>2, <2>1, <2>2 DEF GrantOf
<1>6. c \notin beside /\ ~AtDeque(c)
  BY DEF MemoryTypes, AtDeque
<1>7. ASSUME NEW s \in Servers
      PROVE  Served(s)' = Served(s) /\ c \notin Served(s)
  <2>1. c \notin Served(s) /\ c \notin Served(s)'
    <3>1. GrantOf(c).where = "memory" /\ GrantOf(c).call = c
          /\ GrantOf(c)'.where = "memory" /\ GrantOf(c)'.call = c
      BY DEF GrantOf
    <3>2. GrantOf(c) \notin granted
      BY <3>1 DEF MemoryTypes
    <3>3. GrantOf(c)' \notin granted
      BY <3>1 DEF MemoryTypes
    <3>4. GrantOf(c)' \notin granted'
      BY <3>1, <3>3
    <3> QED
      BY <3>2, <3>4 DEF Served
  <2>2. ASSUME NEW d \in Calls, d # c
        PROVE  GrantOf(d)' \in granted' <=> GrantOf(d) \in granted
    <3>1. GrantOf(d)' = GrantOf(d) /\ GrantOf(d).where = "memory"
      BY <1>2, <2>2 DEF GrantOf
    <3> QED
      BY <3>1
  <2> QED
    BY <2>1, <2>2 DEF Served
<1> QED
  BY <1>2, <1>3, <1>4, <1>5, <1>6, <1>7

(* It stays away from the deque.                                           *)
LEMMA AwayKeeps ==
  ASSUME MInv, NEW c \in Calls, pc[c] \in {"idle", "incr", "expire"},
         NEW q \in {"incr", "expire", "done"}, pc' = [pc EXCEPT ![c] = q],
         at' = at \/ at' = [at EXCEPT ![c] = now],
         \A g \in granted' : g \in granted \/ g.where # "memory",
         granted \subseteq granted',
         UNCHANGED <<now, buckets, beside>>
  PROVE  MInv'
<1>1. MemoryTypes /\ q \in PCs
  BY DEF MInv, PCs
<1>2. /\ pc' \in [Calls -> PCs] /\ at' \in [Calls -> Nat]
      /\ \A d \in Calls : at'[d] <= now'
      /\ \A d \in Calls : d # c => pc'[d] = pc[d] /\ at'[d] = at[d]
      /\ pc'[c] = q
      /\ \A g \in granted' : g.where = "memory" =>
           g.call \in Calls /\ g = GrantOf(g.call)' /\ pc'[g.call] = "done"
      /\ c \notin beside /\ ~AtDeque(c)
      /\ \A s \in Servers : Served(s)' = Served(s) /\ c \notin Served(s)
  BY <1>1, Comes
<1>3. \A d \in Calls : AtDeque(d)' <=> AtDeque(d)
  BY <1>2 DEF AtDeque
<1>4. MemoryTypes'
  <2>1. beside' \subseteq {d \in Calls : AtDeque(d)' \/ pc'[d] = "done"}
    BY <1>1, <1>2, <1>3 DEF MemoryTypes
  <2> QED
    BY <1>1, <1>2, <2>1 DEF MemoryTypes
<1>5. ASSUME NEW s \in Servers PROVE ProcessOK(s)'
  <2>1. Here(s)' = Here(s) /\ Beside(s)' = Beside(s)
        /\ c \notin Here(s) \cup Beside(s)
    BY <1>2, <1>3 DEF Here, Beside
  <2>2. \A d \in Here(s) \cup Beside(s) : pc'[d] = pc[d]
    BY <1>1, <1>2, <2>1 DEF Here, Beside, MemoryTypes
  <2>3. \A d \in Here(s) \cup Served(s) : at'[d] = at[d]
    BY <1>2, <2>1 DEF Here, Served
  <2>4. now' \in Nat /\ now' >= now /\ ProcessOK(s) /\ buckets'[s] = buckets[s]
    BY <1>1 DEF MInv, MemoryTypes
  <2> QED
    BY <1>1, <1>2, <2>1, <2>2, <2>3, <2>4, Untouched
<1> QED
  BY <1>4, <1>5 DEF MInv

(* It comes to the deque.                                                  *)
LEMMA ArriveKeeps ==
  ASSUME MInv, NEW c \in Calls, pc[c] \in {"idle", "incr", "expire"},
         at' = [at EXCEPT ![c] = now], GotoDeque(c),
         UNCHANGED <<now, buckets, granted>>
  PROVE  MInv'
<1>1. MemoryTypes /\ "prune" \in PCs /\ pc' = [pc EXCEPT ![c] = "prune"]
  BY DEF MInv, PCs, GotoDeque, Goto
<1>2. /\ pc' \in [Calls -> PCs] /\ at' \in [Calls -> Nat]
      /\ \A d \in Calls : at'[d] <= now'
      /\ \A d \in Calls : d # c => pc'[d] = pc[d] /\ at'[d] = at[d]
      /\ pc'[c] = "prune"
      /\ \A g \in granted' : g.where = "memory" =>
           g.call \in Calls /\ g = GrantOf(g.call)' /\ pc'[g.call] = "done"
      /\ c \notin beside /\ ~AtDeque(c)
      /\ \A s \in Servers : Served(s)' = Served(s) /\ c \notin Served(s)
  BY <1>1, Comes
<1>3. PICK h \in Servers : h = Home[c]
  BY Homes
<1>4. \A s \in Servers : Here(s)' = IF s = h THEN Here(s) \cup {c} ELSE Here(s)
  <2>1. \A d \in Calls : AtDeque(d)' <=> AtDeque(d) \/ d = c
    BY <1>2 DEF AtDeque
  <2> QED
    BY <1>3, <2>1 DEF Here
<1>5. c \notin Here(h)
  BY <1>2 DEF Here
<1>6. beside' = IF Here(h) = {} THEN beside ELSE beside \cup Here(h) \cup {c}
  <2>1. Here(h) = {d \in Calls \ {c} : Home[d] = Home[c] /\ AtDeque(d)}
    BY <1>2, <1>3 DEF Here
  <2> QED
    BY <2>1 DEF GotoDeque
<1>7. MemoryTypes'
  <2>1. beside' \subseteq {d \in Calls : AtDeque(d)' \/ pc'[d] = "done"}
    <3>1. \A d \in beside : d \in Calls /\ d # c
                            /\ (AtDeque(d)' \/ pc'[d] = "done")
      BY <1>1, <1>2 DEF MemoryTypes, AtDeque
    <3>2. \A d \in Here(h) \cup {c} : d \in Calls /\ AtDeque(d)'
      BY <1>2 DEF Here, AtDeque
    <3> QED
      BY <1>6, <3>1, <3>2
  <2> QED
    BY <1>1, <1>2, <2>1 DEF MemoryTypes
<1>8. ASSUME NEW s \in Servers, s # h PROVE ProcessOK(s)'
  <2>1. Here(s)' = Here(s) /\ c \notin Here(s) \cup Beside(s)
    BY <1>2, <1>4, <1>8 DEF Here, Beside
  <2>2. Beside(s)' = Beside(s)
    BY <1>3, <1>6, <1>8 DEF Here, Beside
  <2>3. \A d \in Here(s) \cup Beside(s) : pc'[d] = pc[d]
    BY <1>1, <1>2, <2>1 DEF Here, Beside, MemoryTypes
  <2>4. \A d \in Here(s) \cup Served(s) : at'[d] = at[d]
    BY <1>2, <2>1 DEF Here, Served
  <2>5. now' \in Nat /\ now' >= now /\ ProcessOK(s) /\ buckets'[s] = buckets[s]
    BY <1>1 DEF MInv, MemoryTypes
  <2> QED
    BY <1>1, <1>2, <2>1, <2>2, <2>3, <2>4, <2>5, Untouched
<1>9. ProcessOK(h)'
  <2>1. AloneOK(h)'
    BY <1>2, <1>4, <1>6 DEF AloneOK
  <2>2. ASSUME NEW t \in Int PROVE DequeOK(h, t)' /\ WindowOK(h, t)'
    <3>1. After(h, t)' = After(h, t) /\ Recently(h, t)' = Recently(h, t)
          /\ Alone(h, t)' \subseteq Alone(h, t)
      BY <1>2, <1>6 DEF After, Recently, Alone, Served
    <3>2. Finished(h) \subseteq Finished(h)'
          /\ NotPopping(h) \subseteq NotPopping(h)'
      BY <1>1, <1>2, <1>6 DEF Finished, NotPopping, Beside, MemoryTypes
    <3>3. NotPopping(h)' \subseteq Calls /\ Finished(h)' \subseteq Calls
      BY <1>7 DEF Finished, NotPopping, Beside, MemoryTypes
    <3>4. Cardinality(Finished(h)) <= Cardinality(Finished(h)')
          /\ Cardinality(NotPopping(h)) <= Cardinality(NotPopping(h)')
          /\ Cardinality(Finished(h)') \in Nat
          /\ Cardinality(NotPopping(h)') \in Nat
      BY <3>2, <3>3, Fewer
    <3>5. After(h, t) \subseteq Calls /\ Alone(h, t) \subseteq Calls
      BY DEF After, Alone, Served
    <3>6. Cardinality(Alone(h, t)') <= Cardinality(Alone(h, t))
          /\ Cardinality(Alone(h, t)') \in Nat
      BY <3>1, <3>5, Fewer
    <3>7. /\ Cardinality(After(h, t)) \in Nat
          /\ Cardinality(Alone(h, t)) \in Nat
          /\ Cardinality(Recently(h, t)) \in Nat
          /\ Cardinality(Finished(h)) \in Nat
          /\ Cardinality(NotPopping(h)) \in Nat
          /\ Len(buckets[h]) \in Nat
      BY <1>1, Numbers
    <3>8. WindowOK(h, t) /\ DequeOK(h, t)
      BY DEF MInv, ProcessOK
    <3>9. WindowOK(h, t)'
      BY <3>1, <3>4, <3>7, <3>8, Constants DEF WindowOK
    <3>10. Open(h, t)' => Open(h, t)
      BY <1>1, <1>2, <1>4, <1>5, <1>6 DEF Open, Here, MemoryTypes
    <3>11. ASSUME Kept(h, t), now > t PROVE Kept(h, t)'
      <4>1. \A d \in Here(h)' : at'[d] <= t => d \in Here(h) /\ at[d] <= t
        BY <1>1, <1>2, <1>4, <3>11 DEF MemoryTypes, Here
      <4>2. \A i \in 1..Len(buckets[h]) : buckets[h][i] <= t =>
              Cardinality(Alone(h, t)') <= Len(buckets[h]) - i
        BY <3>6, <3>7, <3>11 DEF Kept
      <4>3. Cardinality(Alone(h, t)') <= Len(buckets[h])
        BY <3>6, <3>7, <3>11 DEF Kept
      <4>4. \A d \in Here(h)' : at'[d] <= t => Alone(h, t)' = {}
        BY <3>1, <3>11, <4>1 DEF Kept
      <4> QED
        BY <4>2, <4>3, <4>4 DEF Kept
    <3>12. ASSUME Lost(h, t), now > t PROVE Lost(h, t)'
      <4>1. \A d \in Here(h)' : at'[d] > t
        BY <1>1, <1>2, <1>4, <3>12 DEF Lost, MemoryTypes, Here
      <4>2. Cardinality(After(h, t)')
              <= Len(buckets[h]) + Cardinality(NotPopping(h)')
        BY <3>1, <3>4, <3>7, <3>12 DEF Lost
      <4> QED
        BY <3>12, <4>1, <4>2 DEF Lost
    <3>13. ASSUME ~(now > t) PROVE Kept(h, t)'
      <4>1. After(h, t) = {}
        BY <1>1, <3>13 DEF After, Served, MemoryTypes
      <4>2. Alone(h, t)' = {} /\ Cardinality(Alone(h, t)') = 0
        BY <3>1, <4>1, FS_EmptySet DEF Alone
      <4> QED
        BY <3>7, <4>2 DEF Kept
    <3> QED
      BY <3>8, <3>9, <3>10, <3>11, <3>12, <3>13 DEF DequeOK
  <2> QED
    BY <2>1, <2>2 DEF ProcessOK
<1> QED
  BY <1>7, <1>8, <1>9 DEF MInv

-----------------------------------------------------------------------------
Stages == {"prune", "pop", "check", "append", "done"}

(* What a step of c to q does to the sets of the invariant in its process. *)
Effect(c, q, s) ==
    /\ c \in Here(s)
    /\ \A d \in Here(s)' : d \in Here(s)
    /\ q # "done" => Here(s)' = Here(s)
    /\ q = "done" => Here(s)' = Here(s) \ {c}
    /\ Beside(s)' = Beside(s)
    /\ c \notin Served(s)
    /\ granted' = granted => Served(s)' = Served(s)
    /\ granted' # granted => Served(s)' = Served(s) \cup {c}
    /\ Finished(s)' = IF q = "done" /\ c \in beside
                      THEN Finished(s) \cup {c} ELSE Finished(s)
    /\ c \notin Finished(s)
    /\ NotPopping(s)' = IF c \notin beside THEN NotPopping(s)
                        ELSE IF q = "pop" THEN NotPopping(s) \ {c}
                        ELSE NotPopping(s) \cup {c}
    /\ pc[c] = "pop" => c \notin NotPopping(s)
    /\ pc[c] # "pop" /\ c \in beside => c \in NotPopping(s)

(* A step at the deque has this effect, and none on other processes.       *)
LEMMA AtHome ==
  ASSUME MInv, NEW c \in Calls, AtDeque(c),
         NEW q \in Stages, pc' = [pc EXCEPT ![c] = q],
         UNCHANGED <<now, at, beside>>,
         buckets' \in [Servers -> Seq(Nat)],
         \A s \in Servers : s # Home[c] => buckets'[s] = buckets[s],
         \/ granted' = granted
         \/ granted' = granted \cup {GrantOf(c)} /\ q = "done"
  PROVE  /\ MemoryTypes'
         /\ \A s \in Servers : s # Home[c] => ProcessOK(s)'
         /\ Home[c] \in Servers
         /\ \A s \in Servers : s = Home[c] => Effect(c, q, s)
<1>1. MemoryTypes /\ q \in PCs /\ Home[c] \in Servers
  BY Homes DEF MInv, PCs, Stages
<1>2. \A d \in Calls : d # c => pc'[d] = pc[d]
  BY <1>1 DEF MemoryTypes
<1>3. pc' \in [Calls -> PCs] /\ pc'[c] = q /\ pc[c] # "done"
  BY <1>1 DEF MemoryTypes, AtDeque
<1>4. \A d \in Calls : GrantOf(d)' = GrantOf(d)
  BY DEF GrantOf
<1>5. GrantOf(c) \notin granted
  BY <1>1, <1>3 DEF MemoryTypes, GrantOf
<1>6. \A d \in Calls : AtDeque(d)' <=> AtDeque(d) /\ (d = c => q # "done")
  BY <1>2, <1>3 DEF AtDeque, Stages
<1>7. MemoryTypes'
  <2>1. ASSUME NEW g \in granted', g.where = "memory"
        PROVE  g.call \in Calls /\ g = GrantOf(g.call)' /\ pc'[g.call] = "done"
    <3>1. CASE g \in granted
      <4>1. g.call \in Calls /\ g = GrantOf(g.call) /\ pc[g.call] = "done"
        BY <1>1, <2>1, <3>1 DEF MemoryTypes
      <4> QED
        BY <1>2, <1>3, <1>4, <4>1
    <3>2. CASE g \notin granted
      <4>1. g = GrantOf(c) /\ q = "done"
        BY <2>1, <3>2
      <4>2. g.call = c
        BY <4>1 DEF GrantOf
      <4> QED
        BY <1>3, <1>4, <4>1, <4>2
    <3> QED
      BY <3>1, <3>2
  <2>2. beside' \subseteq {d \in Calls : AtDeque(d)' \/ pc'[d] = "done"}
    BY <1>1, <1>2, <1>3, <1>6 DEF MemoryTypes
  <2> QED
    BY <1>1, <1>3, <2>1, <2>2 DEF MemoryTypes
<1>8. \A d \in Calls : d # c =>
        (GrantOf(d)' \in granted' <=> GrantOf(d) \in granted)
  <2>1. \A d \in Calls : d # c => GrantOf(d) # GrantOf(c)
    BY DEF GrantOf
  <2> QED
    BY <1>4, <2>1
<1>9. ASSUME NEW s \in Servers, s # Home[c] PROVE ProcessOK(s)'
  <2>1. Here(s)' = Here(s) /\ Beside(s)' = Beside(s) /\ Served(s)' = Served(s)
    BY <1>6, <1>8, <1>9 DEF Here, Beside, Served
  <2>2. \A d \in Here(s) \cup Beside(s) : pc'[d] = pc[d]
    BY <1>1, <1>2, <1>9 DEF Here, Beside, MemoryTypes
  <2>3. now' \in Nat /\ now' >= now /\ ProcessOK(s) /\ buckets'[s] = buckets[s]
    BY <1>1, <1>9 DEF MInv, MemoryTypes
  <2> QED
    BY <1>1, <2>1, <2>2, <2>3, Untouched
<1>10. ASSUME NEW s \in Servers, s = Home[c]
       PROVE  /\ c \in Here(s)
              /\ q # "done" => Here(s)' = Here(s)
              /\ q = "done" => Here(s)' = Here(s) \ {c}
              /\ Beside(s)' = Beside(s)
  BY <1>6, <1>10 DEF Here, Beside
<1>11. ASSUME NEW s \in Servers, s = Home[c]
       PROVE  /\ c \notin Served(s)
              /\ granted' = granted => Served(s)' = Served(s)
              /\ granted' # granted => Served(s)' = Served(s) \cup {c}
  BY <1>4, <1>5, <1>8, <1>11 DEF Served
<1>12. ASSUME NEW s \in Servers, s = Home[c]
       PROVE  /\ Finished(s)' = IF q = "done" /\ c \in beside
                                THEN Finished(s) \cup {c} ELSE Finished(s)
              /\ c \notin Finished(s)
              /\ NotPopping(s)' = IF c \notin beside THEN NotPopping(s)
                                  ELSE IF q = "pop" THEN NotPopping(s) \ {c}
                                  ELSE NotPopping(s) \cup {c}
              /\ pc[c] = "pop" => c \notin NotPopping(s)
              /\ pc[c] # "pop" /\ c \in beside => c \in NotPopping(s)
  <2>1. Beside(s)' = Beside(s) /\ (c \in Beside(s) <=> c \in beside)
        /\ \A d \in Beside(s) : d \in Calls
    BY <1>1, <1>10, <1>12 DEF Beside, MemoryTypes
  <2>2. Finished(s)' = {d \in Beside(s) : pc'[d] = "done"}
        /\ NotPopping(s)' = {d \in Beside(s) : pc'[d] # "pop"}
    BY <2>1 DEF Finished, NotPopping
  <2> QED
    BY <1>2, <1>3, <2>1, <2>2 DEF Finished, NotPopping
<1> QED
  BY <1>1, <1>7, <1>9, <1>10, <1>11, <1>12 DEF Effect

(* A step at the deque that leaves the deque as it is.                     *)
LEMMA LookKeeps ==
  ASSUME MInv, NEW c \in Calls, AtDeque(c),
         NEW q \in Stages, pc' = [pc EXCEPT ![c] = q],
         UNCHANGED <<now, at, beside, buckets, granted>>,
         q = "pop" => /\ buckets[Home[c]] # <<>>
                      /\ buckets[Home[c]][1] <= at[c] - Window,
         q = "append" => Len(buckets[Home[c]]) < Limit
  PROVE  MInv'
<1>1. PICK h \in Servers : h = Home[c]
  BY Homes
<1>2. MemoryTypes /\ ProcessOK(h) /\ buckets' \in [Servers -> Seq(Nat)]
  BY DEF MInv, MemoryTypes
<1>3. /\ MemoryTypes'
      /\ \A s \in Servers : s # h => ProcessOK(s)'
      /\ Effect(c, q, h)
  BY <1>1, <1>2, AtHome
<1>4. /\ c \in Here(h)
      /\ \A d \in Here(h)' : d \in Here(h)
      /\ q # "done" => Here(h)' = Here(h)
      /\ q = "done" => Here(h)' = Here(h) \ {c}
      /\ Beside(h)' = Beside(h)
      /\ Served(h)' = Served(h)
      /\ Finished(h)' = IF q = "done" /\ c \in beside
                        THEN Finished(h) \cup {c} ELSE Finished(h)
      /\ NotPopping(h)' = IF c \notin beside THEN NotPopping(h)
                          ELSE IF q = "pop" THEN NotPopping(h) \ {c}
                          ELSE NotPopping(h) \cup {c}
  BY <1>3 DEF Effect
<1>5. /\ \A d \in Calls : d # c => pc'[d] = pc[d]
      /\ pc'[c] = q
  BY <1>2 DEF MemoryTypes
<1>6. AloneOK(h)'
  <2>1. ASSUME NEW d \in Here(h)', d \notin beside
        PROVE  /\ Here(h)' = {d}
               /\ pc'[d] = "pop" => /\ buckets[h] # <<>>
                                    /\ buckets[h][1] <= at[d] - Window
               /\ pc'[d] = "append" => Len(buckets[h]) < Limit
    <3>1. Here(h) = {d}
      BY <1>2, <1>4, <2>1 DEF ProcessOK, AloneOK
    <3>2. d = c /\ Here(h)' = {d}
      BY <1>4, <2>1, <3>1
    <3> QED
      BY <1>1, <1>5, <3>2
  <2> QED
    BY <2>1 DEF AloneOK
<1>7. ASSUME NEW t \in Int PROVE DequeOK(h, t)' /\ WindowOK(h, t)'
  <2>1. After(h, t)' = After(h, t) /\ Recently(h, t)' = Recently(h, t)
        /\ Alone(h, t)' = Alone(h, t)
    BY <1>4 DEF After, Recently, Alone
  <2>2. /\ Cardinality(After(h, t)) \in Nat
        /\ Cardinality(Recently(h, t)) \in Nat
        /\ Cardinality(Finished(h)) \in Nat
        /\ Cardinality(NotPopping(h)) \in Nat
        /\ Len(buckets[h]) \in Nat
    BY <1>2, Numbers
  <2>3. /\ Finished(h) \subseteq Finished(h)' /\ Finished(h)' \subseteq Calls
        /\ NotPopping(h)' \subseteq Calls
        /\ q # "pop" => NotPopping(h) \subseteq NotPopping(h)'
    BY <1>4, <1>3 DEF MemoryTypes, Finished, NotPopping, Beside
  <2>4. Cardinality(Finished(h)) <= Cardinality(Finished(h)')
        /\ Cardinality(Finished(h)') \in Nat
    BY <2>3, Fewer
  <2>5. WindowOK(h, t)'
    BY <1>2, <2>1, <2>2, <2>4, Constants DEF ProcessOK, WindowOK
  <2>6. ASSUME Open(h, t)' PROVE Open(h, t)
    BY <1>4, <2>6 DEF Open
  <2>7. Kept(h, t) => Kept(h, t)'
    BY <1>4, <2>1 DEF Kept
  <2>8. ASSUME Open(h, t), Lost(h, t) PROVE Lost(h, t)'
    <3>1. q # "pop"
      <4>1. at[c] - Window <= t /\ at[c] \in Nat
        BY <1>2, <1>4, <2>8, OpenHere DEF ProcessOK, MemoryTypes
      <4>2. SUFFICES ASSUME q = "pop" PROVE FALSE
        OBVIOUS
      <4>3. buckets[h] # <<>> /\ buckets[h] \in Seq(Nat)
            /\ buckets[h][1] <= at[c] - Window
        BY <1>1, <1>2, <4>2 DEF MemoryTypes
      <4>4. 1 \in 1..Len(buckets[h]) /\ buckets[h][1] \in Nat
        BY <4>3
      <4>5. buckets[h][1] > t
        BY <2>8, <4>4 DEF Lost
      <4> QED
        BY <4>1, <4>3, <4>4, <4>5, Constants
    <3>2. Cardinality(NotPopping(h)) <= Cardinality(NotPopping(h)')
          /\ Cardinality(NotPopping(h)') \in Nat
      BY <2>3, <3>1, Fewer
    <3>3. Cardinality(After(h, t))
            <= Len(buckets[h]) + Cardinality(NotPopping(h)')
      BY <2>2, <2>8, <3>2 DEF Lost
    <3> QED
      BY <1>4, <2>1, <2>8, <3>3 DEF Lost
  <2> QED
    BY <1>2, <2>5, <2>6, <2>7, <2>8 DEF DequeOK, ProcessOK
<1> QED
  BY <1>6, <1>7, <1>3 DEF MInv, ProcessOK

(* The first entry of a deque is gone, the others move up.                 *)
LEMMA Shorter ==
  ASSUME NEW b \in Seq(Nat), b # <<>>
  PROVE  /\ Tail(b) \in Seq(Nat) /\ Len(b) \in Nat /\ Len(b) >= 1
         /\ Len(Tail(b)) = Len(b) - 1
         /\ \A i \in 1..Len(Tail(b)) : Tail(b)[i] = b[i + 1]
         /\ \A i \in 1..Len(b) : b[i] \in Nat
  OBVIOUS

(* popleft of an entry.                                                    *)
LEMMA PopKeeps ==
  ASSUME MInv, NEW c \in Calls, pc[c] = "pop", buckets[Home[c]] # <<>>,
         pc' = [pc EXCEPT ![c] = "prune"],
         NEW e \in Seq(Nat), e = Tail(buckets[Home[c]]),
         buckets' = [buckets EXCEPT ![Home[c]] = e],
         UNCHANGED <<now, at, beside, granted>>
  PROVE  MInv'
<1>1. PICK h \in Servers : h = Home[c]
  BY Homes
<1>2. PICK b \in Seq(Nat) : b = buckets[h]
  BY DEF MInv, MemoryTypes
<1>3. MemoryTypes /\ ProcessOK(h) /\ AtDeque(c) /\ "prune" \in Stages
  BY <1>1, <1>2 DEF MInv, AtDeque, Stages
<1>4. b # <<>> /\ e = Tail(b)
  BY <1>1, <1>2
<1>5. /\ Len(b) \in Nat /\ Len(b) >= 1 /\ Len(e) = Len(b) - 1
      /\ \A i \in 1..Len(e) : e[i] = b[i + 1]
      /\ \A i \in 1..Len(b) : b[i] \in Nat
  BY <1>4, Shorter
<1>6. buckets' \in [Servers -> Seq(Nat)] /\ buckets'[h] = e
      /\ \A s \in Servers : s # h => buckets'[s] = buckets[s]
  BY <1>1, <1>2, <1>3 DEF MemoryTypes
<1>7. /\ MemoryTypes'
      /\ \A s \in Servers : s # h => ProcessOK(s)'
      /\ c \in Here(h)
      /\ Here(h)' = Here(h)
      /\ Served(h)' = Served(h)
      /\ Finished(h)' = Finished(h)
      /\ c \notin Finished(h)
      /\ NotPopping(h)' = IF c \notin beside THEN NotPopping(h)
                          ELSE NotPopping(h) \cup {c}
      /\ c \notin NotPopping(h)
  <2>1. PICK q \in Stages : q = "prune"
    BY <1>3
  <2>2. q # "done" /\ q # "pop" /\ pc' = [pc EXCEPT ![c] = q]
    BY <2>1
  <2>3. /\ MemoryTypes'
        /\ \A s \in Servers : s # h => ProcessOK(s)'
        /\ Effect(c, q, h)
    BY <1>1, <1>3, <1>6, <2>2, AtHome
  <2> QED
    BY <2>2, <2>3 DEF Effect
<1>8. /\ \A d \in Calls : d # c => pc'[d] = pc[d]
      /\ pc'[c] = "prune"
  BY <1>3 DEF MemoryTypes
<1>9. AloneOK(h)'
  <2>1. ASSUME NEW d \in Here(h), d \notin beside
        PROVE  Here(h) = {d} /\ pc'[d] = "prune"
    <3>1. Here(h) = {d}
      BY <1>3, <2>1 DEF ProcessOK, AloneOK
    <3> QED
      BY <1>7, <1>8, <3>1
  <2> QED
    BY <1>7, <2>1 DEF AloneOK
<1>10. ASSUME NEW t \in Int PROVE DequeOK(h, t)' /\ WindowOK(h, t)'
  <2>1. After(h, t)' = After(h, t) /\ Recently(h, t)' = Recently(h, t)
        /\ Alone(h, t)' = Alone(h, t)
    BY <1>7 DEF After, Recently, Alone
  <2>2. /\ Cardinality(After(h, t)) \in Nat
        /\ Cardinality(Alone(h, t)) \in Nat
        /\ Cardinality(Finished(h)) \in Nat
        /\ Cardinality(NotPopping(h)) \in Nat
        /\ Cardinality(Finished(h)) <= Cardinality(NotPopping(h))
        /\ Cardinality(After(h, t))
             <= Cardinality(Alone(h, t)) + Cardinality(Finished(h))
    BY <1>3, Numbers
  <2>3. WindowOK(h, t)'
    BY <1>3, <1>7, <2>1 DEF ProcessOK, WindowOK
  <2>4. ASSUME Open(h, t)' PROVE Open(h, t)
    BY <1>7, <2>4 DEF Open
  <2>5. c \in beside => Cardinality(NotPopping(h)')
                          = Cardinality(NotPopping(h)) + 1
    <3>1. NotPopping(h) \subseteq Calls
      BY <1>3 DEF NotPopping, Beside, MemoryTypes
    <3> QED
      BY <1>7, <3>1, OneMore
  <2>6. ASSUME Open(h, t), b[1] > t PROVE c \in beside
    <3>1. at[c] - Window <= t /\ at[c] \in Nat
      BY <1>3, <1>7, <2>6, OpenHere DEF ProcessOK, MemoryTypes
    <3>2. c \notin beside => b[1] <= at[c] - Window
      BY <1>2, <1>3, <1>7 DEF ProcessOK, AloneOK
    <3>3. b[1] \in Nat
      BY <1>5
    <3> QED
      BY <2>6, <3>1, <3>2, <3>3, Constants
  <2>7. ASSUME Open(h, t), Lost(h, t) PROVE Lost(h, t)'
    <3>1. \A i \in 1..Len(b) : b[i] > t
      BY <1>2, <2>7 DEF Lost
    <3>2. c \in beside
      BY <1>5, <2>6, <2>7, <3>1
    <3>3. \A i \in 1..Len(e) : e[i] > t
      <4>1. \A i \in 1..Len(e) : i + 1 \in 1..Len(b)
        BY <1>5
      <4> QED
        BY <1>5, <3>1, <4>1
    <3>4. Cardinality(After(h, t)) <= Len(e) + Cardinality(NotPopping(h)')
      BY <1>2, <1>5, <2>2, <2>5, <2>7, <3>2 DEF Lost
    <3> QED
      BY <1>6, <1>7, <2>1, <2>7, <3>3, <3>4 DEF Lost
  <2>8. ASSUME Open(h, t), Kept(h, t) PROVE Kept(h, t)' \/ Lost(h, t)'
    <3>1. PICK n \in Nat : n = Cardinality(Alone(h, t))
      BY <2>2
    <3>2. /\ n <= Len(b)
          /\ \A i \in 1..Len(b) : b[i] <= t => n <= Len(b) - i
          /\ \A d \in Here(h) : at[d] <= t => Alone(h, t) = {}
      BY <1>2, <2>8, <3>1 DEF Kept
    <3>3. \A i \in 1..Len(e) : e[i] <= t => n <= Len(e) - i
      <4> SUFFICES ASSUME NEW i \in 1..Len(e), e[i] <= t
                   PROVE  n <= Len(e) - i
        OBVIOUS
      <4>1. i + 1 \in 1..Len(b) /\ e[i] = b[i + 1]
        BY <1>5
      <4>2. n <= Len(b) - (i + 1)
        BY <3>2, <4>1
      <4> QED
        BY <1>5, <4>2
    <3>4. CASE n <= Len(e)
      <4>1. /\ Cardinality(Alone(h, t)') <= Len(buckets'[h])
            /\ \A i \in 1..Len(buckets'[h]) : buckets'[h][i] <= t =>
                 Cardinality(Alone(h, t)') <= Len(buckets'[h]) - i
            /\ \A d \in Here(h)' : at'[d] <= t => Alone(h, t)' = {}
        BY <1>6, <1>7, <2>1, <3>1, <3>2, <3>3, <3>4
      <4> QED
        BY <4>1 DEF Kept
    <3>5. CASE ~(n <= Len(e))
      <4>1. n = Len(b)
        BY <1>5, <3>2, <3>5
      <4>2. \A i \in 1..Len(b) : b[i] > t
        <5> SUFFICES ASSUME NEW i \in 1..Len(b) PROVE b[i] > t
          OBVIOUS
        <5>1. b[i] \in Nat
          BY <1>5
        <5>2. b[i] <= t => n <= Len(b) - i
          BY <3>2
        <5> QED
          BY <1>5, <4>1, <5>1, <5>2
      <4>3. \A i \in 1..Len(e) : e[i] > t
        <5>1. \A i \in 1..Len(e) : i + 1 \in 1..Len(b)
          BY <1>5
        <5> QED
          BY <1>5, <4>2, <5>1
      <4>4. Alone(h, t) # {}
        <5>1. Cardinality({}) = 0
          BY FS_EmptySet
        <5>2. Alone(h, t) = {} => n = 0
          BY <3>1, <5>1, Zenon
        <5> QED
          BY <1>5, <4>1, <5>2
      <4>5. \A d \in Here(h) : at[d] > t
        <5>1. \A d \in Here(h) : ~(at[d] <= t) /\ at[d] \in Nat
          BY <1>3, <3>2, <4>4 DEF MemoryTypes, Here
        <5> QED
          BY <5>1
      <4>6. c \in beside
        BY <1>5, <2>6, <2>8, <4>2
      <4>7. Cardinality(After(h, t)) <= Len(e) + Cardinality(NotPopping(h)')
        BY <1>5, <2>2, <2>5, <3>1, <4>1, <4>6
      <4> QED
        BY <1>6, <1>7, <2>1, <4>3, <4>5, <4>7 DEF Lost
    <3> QED
      BY <3>4, <3>5
  <2> QED
    BY <1>3, <2>3, <2>4, <2>7, <2>8 DEF DequeOK, ProcessOK
<1> QED
  BY <1>7, <1>9, <1>10 DEF MInv, ProcessOK

(* An entry more.                                                          *)
LEMMA Longer ==
  ASSUME NEW b \in Seq(Nat), NEW x \in Nat
  PROVE  /\ Append(b, x) \in Seq(Nat) /\ Len(b) \in Nat
         /\ Len(Append(b, x)) = Len(b) + 1
         /\ \A i \in 1..Len(b) : Append(b, x)[i] = b[i] /\ b[i] \in Nat
         /\ Append(b, x)[Len(b) + 1] = x
  OBVIOUS

(* append, and the grant.                                                  *)
LEMMA AppendKeeps ==
  ASSUME MInv, NEW c \in Calls, pc[c] = "append",
         pc' = [pc EXCEPT ![c] = "done"],
         buckets' = [buckets EXCEPT ![Home[c]] = Append(buckets[Home[c]], at[c])],
         granted' = granted \cup {GrantOf(c)},
         UNCHANGED <<now, at, beside>>
  PROVE  MInv'
<1>1. PICK h \in Servers : h = Home[c]
  BY Homes
<1>2. PICK b \in Seq(Nat) : b = buckets[h]
  BY DEF MInv, MemoryTypes
<1>3. PICK x \in Nat : x = at[c]
  BY DEF MInv, MemoryTypes
<1>4. MemoryTypes /\ ProcessOK(h) /\ AtDeque(c) /\ "done" \in Stages
  BY DEF MInv, AtDeque, Stages
<1>5. PICK e \in Seq(Nat) : e = Append(b, x)
  BY Longer
<1>6. /\ Len(b) \in Nat /\ Len(e) = Len(b) + 1
      /\ \A i \in 1..Len(b) : e[i] = b[i] /\ b[i] \in Nat
      /\ e[Len(b) + 1] = x
  BY <1>5, Longer
<1>7. buckets' \in [Servers -> Seq(Nat)] /\ buckets'[h] = e
      /\ \A s \in Servers : s # h => buckets'[s] = buckets[s]
  BY <1>1, <1>2, <1>3, <1>4, <1>5 DEF MemoryTypes
<1>8. granted' # granted
  <2>1. GrantOf(c).where = "memory" /\ GrantOf(c).call = c
    BY DEF GrantOf
  <2>2. GrantOf(c) \notin granted
    BY <1>4, <2>1 DEF MemoryTypes
  <2> QED
    BY <2>2
<1>9. /\ MemoryTypes'
      /\ \A s \in Servers : s # h => ProcessOK(s)'
      /\ c \in Here(h)
      /\ Here(h)' = Here(h) \ {c}
      /\ c \notin Served(h)
      /\ Served(h)' = Served(h) \cup {c}
      /\ c \notin Finished(h)
      /\ Finished(h)' = IF c \in beside THEN Finished(h) \cup {c}
                        ELSE Finished(h)
      /\ NotPopping(h)' = NotPopping(h)
  <2>1. PICK q \in Stages : q = "done"
    BY <1>4
  <2>2. q # "pop" /\ pc[c] # "pop" /\ pc' = [pc EXCEPT ![c] = q]
    BY <2>1
  <2>3. /\ MemoryTypes'
        /\ \A s \in Servers : s # h => ProcessOK(s)'
        /\ Effect(c, q, h)
    BY <1>1, <1>4, <1>7, <1>8, <2>1, <2>2, AtHome
  <2>4. c \in beside => NotPopping(h) \cup {c} = NotPopping(h)
    BY <2>2, <2>3 DEF Effect
  <2> QED
    BY <1>8, <2>1, <2>2, <2>3, <2>4 DEF Effect
<1>10. AloneOK(h)'
  <2>1. \A d \in Here(h) \ beside : Here(h) = {d}
    BY <1>4 DEF ProcessOK, AloneOK
  <2> QED
    BY <1>9, <2>1 DEF AloneOK
<1>11. c \notin beside => Here(h) = {c} /\ Len(b) < Limit
  BY <1>2, <1>4, <1>9 DEF ProcessOK, AloneOK
<1>12. ASSUME NEW t \in Int PROVE DequeOK(h, t)' /\ WindowOK(h, t)'
  <2>1. After(h, t)' = IF x > t THEN After(h, t) \cup {c} ELSE After(h, t)
    BY <1>3, <1>9 DEF After
  <2>2. c \notin After(h, t)
    BY <1>9 DEF After
  <2>3. After(h, t) \subseteq Calls /\ Alone(h, t) \subseteq Calls
        /\ Recently(h, t) \subseteq Calls
        /\ Finished(h) \subseteq Calls /\ NotPopping(h) \subseteq Calls
    BY <1>4 DEF After, Alone, Recently, Served, Finished, NotPopping, Beside,
                MemoryTypes
  <2>4. /\ Cardinality(After(h, t)) \in Nat
        /\ Cardinality(Alone(h, t)) \in Nat
        /\ Cardinality(Recently(h, t)) \in Nat
        /\ Cardinality(Finished(h)) \in Nat
        /\ Cardinality(NotPopping(h)) \in Nat
        /\ Cardinality(Recently(h, t)) <= Cardinality(After(h, t))
        /\ Cardinality(After(h, t))
             <= Cardinality(Alone(h, t)) + Cardinality(Finished(h))
    BY <1>4, Numbers
  <2>5. Cardinality(After(h, t)')
          = IF x > t THEN Cardinality(After(h, t)) + 1
            ELSE Cardinality(After(h, t))
    BY <2>1, <2>2, <2>3, OneMore
  <2>6. Open(h, t)' => Open(h, t)
    BY <1>9 DEF Open
  <2>7. WindowOK(h, t)'
    <3>1. Recently(h, t)' = IF x > t /\ x <= t + Window
                            THEN Recently(h, t) \cup {c} ELSE Recently(h, t)
      BY <1>3, <2>1 DEF Recently
    <3>2. Cardinality(Recently(h, t)') <= Cardinality(Recently(h, t)) + 1
          /\ Cardinality(Recently(h, t)') \in Nat
      <4>1. Recently(h, t)' \subseteq Calls
        BY <2>3, <3>1
      <4>2. Cardinality(Recently(h, t)') \in Nat
        BY <4>1, Fewer
      <4>3. Cardinality(Recently(h, t) \cup {c})
              <= Cardinality(Recently(h, t)) + 1
        BY <2>3, OneMore
      <4> QED
        BY <2>4, <3>1, <4>2, <4>3
    <3>3. WindowOK(h, t)
      BY <1>4 DEF ProcessOK
    <3>4. CASE c \in beside
      <4>1. Cardinality(Finished(h)') = Cardinality(Finished(h)) + 1
        BY <1>9, <2>3, <3>4, OneMore
      <4> QED
        BY <2>4, <3>2, <3>3, <4>1, Constants DEF WindowOK
    <3>5. CASE c \notin beside /\ x > t /\ x <= t + Window
      <4>1. Open(h, t)
        BY <1>3, <1>9, <3>5, Constants DEF Open
      <4>2. Kept(h, t) \/ Lost(h, t)
        BY <1>4, <4>1 DEF ProcessOK, DequeOK
      <4>3. Finished(h)' = Finished(h)
        BY <1>9, <3>5
      <4>4. CASE Kept(h, t)
        <5>1. Cardinality(Alone(h, t)) <= Len(b)
          BY <1>2, <4>4 DEF Kept
        <5> QED
          BY <1>6, <1>11, <2>4, <3>2, <3>5, <4>3, <5>1, Constants DEF WindowOK
      <4>5. CASE Lost(h, t)
        <5>1. NotPopping(h) \subseteq Finished(h)
          <6>1. ASSUME NEW d \in Beside(h) PROVE pc[d] = "done"
            <7>1. d # c /\ d \in Calls /\ Home[d] = h
                  /\ (AtDeque(d) \/ pc[d] = "done")
              BY <1>4, <3>5 DEF Beside, MemoryTypes
            <7>2. d \notin Here(h)
              BY <1>11, <3>5, <7>1
            <7> QED
              BY <7>1, <7>2 DEF Here
          <6> QED
            BY <6>1 DEF NotPopping, Finished
        <5>2. Cardinality(NotPopping(h)) <= Cardinality(Finished(h))
          BY <2>3, <5>1, Fewer
        <5>3. Cardinality(After(h, t)) <= Len(b) + Cardinality(NotPopping(h))
          BY <1>2, <4>5 DEF Lost
        <5> QED
          BY <1>6, <1>11, <2>4, <3>2, <3>5, <4>3, <5>2, <5>3, Constants
             DEF WindowOK
      <4> QED
        BY <4>2, <4>4, <4>5
    <3>6. CASE c \notin beside /\ ~(x > t /\ x <= t + Window)
      <4>1. Recently(h, t)' = Recently(h, t) /\ Finished(h)' = Finished(h)
        BY <1>9, <3>1, <3>6
      <4> QED
        BY <3>3, <4>1 DEF WindowOK
    <3> QED
      BY <3>4, <3>5, <3>6
  <2>8. ASSUME Lost(h, t) PROVE Lost(h, t)'
    <3>1. x > t
      BY <1>3, <1>9, <2>8 DEF Lost
    <3>2. \A i \in 1..Len(e) : e[i] > t
      <4> SUFFICES ASSUME NEW i \in 1..Len(e) PROVE e[i] > t
        OBVIOUS
      <4>1. CASE i \in 1..Len(b)
        BY <1>2, <1>6, <2>8, <4>1 DEF Lost
      <4>2. CASE i = Len(b) + 1
        BY <1>6, <3>1, <4>2
      <4> QED
        BY <1>6, <4>1, <4>2
    <3>3. Cardinality(After(h, t)') <= Len(e) + Cardinality(NotPopping(h)')
      BY <1>2, <1>6, <1>9, <2>4, <2>5, <2>8, <3>1 DEF Lost
    <3>4. \A d \in Here(h)' : at'[d] > t
      BY <1>9, <2>8 DEF Lost
    <3> QED
      BY <1>7, <3>2, <3>3, <3>4 DEF Lost
  <2>9. ASSUME Kept(h, t) PROVE Kept(h, t)'
    <3>1. PICK n \in Nat : n = Cardinality(Alone(h, t))
      BY <2>4
    <3>2. /\ n <= Len(b)
          /\ \A i \in 1..Len(b) : b[i] <= t => n <= Len(b) - i
          /\ \A d \in Here(h) : at[d] <= t => Alone(h, t) = {}
      BY <1>2, <2>9, <3>1 DEF Kept
    <3>3. Alone(h, t)' = IF x > t /\ c \notin beside
                         THEN Alone(h, t) \cup {c} ELSE Alone(h, t)
      BY <2>1 DEF Alone
    <3>4. PICK m \in Nat : m = Cardinality(Alone(h, t)')
      <4>1. Alone(h, t)' \subseteq Calls
        BY <2>3, <3>3
      <4> QED
        BY <4>1, Fewer
    <3>5. m <= n + 1
      <4>1. Cardinality(Alone(h, t) \cup {c}) <= n + 1
        BY <2>3, <3>1, OneMore
      <4> QED
        BY <3>1, <3>3, <3>4, <4>1
    <3>6. ASSUME NEW d \in Here(h)', at[d] <= t PROVE Alone(h, t)' = {}
      <4>1. d \in Here(h) /\ d # c
        BY <1>9, <3>6
      <4>2. c \in beside
        BY <1>11, <4>1
      <4> QED
        BY <3>2, <3>3, <3>6, <4>1, <4>2
    <3>7. ASSUME x <= t PROVE m = 0
      <4>1. Alone(h, t)' = {}
        BY <1>3, <1>9, <3>2, <3>3, <3>7
      <4> QED
        BY <3>4, <4>1, FS_EmptySet
    <3>8. ASSUME NEW i \in 1..Len(e), e[i] <= t PROVE m <= Len(e) - i
      <4>1. CASE i \in 1..Len(b)
        <5>1. n <= Len(b) - i
          BY <1>6, <3>2, <3>8, <4>1
        <5> QED
          BY <1>6, <3>5, <4>1, <5>1
      <4>2. CASE i = Len(b) + 1
        BY <1>6, <3>7, <3>8, <4>2
      <4> QED
        BY <1>6, <4>1, <4>2
    <3>9. m <= Len(e)
      BY <1>6, <3>2, <3>5
    <3> QED
      BY <1>7, <3>4, <3>6, <3>8, <3>9 DEF Kept
  <2> QED
    BY <1>4, <2>6, <2>7, <2>8, <2>9 DEF DequeOK, ProcessOK
<1> QED
  BY <1>9, <1>10, <1>12 DEF MInv, ProcessOK

-----------------------------------------------------------------------------
(* No call has begun.                                                      *)
LEMMA MemoryStart == Init => MInv
<1> SUFFICES ASSUME Init PROVE MInv
  OBVIOUS
<1>1. MemoryTypes
  BY DEF Init, MemoryTypes, PCs
<1>2. ASSUME NEW s \in Servers PROVE ProcessOK(s)
  <2>1. Here(s) = {} /\ Served(s) = {} /\ Beside(s) = {}
    BY DEF Init, Here, AtDeque, Served, Beside
  <2>2. AloneOK(s)
    BY <2>1 DEF AloneOK
  <2>3. ASSUME NEW t \in Int PROVE DequeOK(s, t) /\ WindowOK(s, t)
    <3>1. Alone(s, t) = {} /\ Recently(s, t) = {} /\ Finished(s) = {}
      BY <2>1 DEF Alone, Recently, After, Finished
    <3>2. Cardinality({}) = 0
      BY FS_EmptySet
    <3>3. Cardinality(Alone(s, t)) = 0
      BY <3>1, <3>2, Zenon
    <3>4. Cardinality(Recently(s, t)) = 0 /\ Cardinality(Finished(s)) = 0
      BY <3>1, <3>2, Zenon
    <3>5. Len(buckets[s]) \in Nat
      BY <1>1, Numbers
    <3>6. Kept(s, t)
      BY <3>1, <3>3, <3>5 DEF Kept
    <3> QED
      BY <3>4, <3>6, Constants DEF DequeOK, WindowOK
  <2> QED
    BY <2>2, <2>3 DEF ProcessOK
<1> QED
  BY <1>1, <1>2 DEF MInv

(* Every step keeps the invariant.                                         *)
LEMMA MemoryStep == ASSUME MInv, [Next]_vars PROVE MInv'
<1>1. CASE UNCHANGED vars
  BY <1>1, WaitKeeps DEF vars, MInv, MemoryTypes
<1>2. ASSUME NEW c \in Calls, ReadClock(c) PROVE MInv'
  <2>1. CASE Goto(c, "incr") /\ UNCHANGED beside
    BY <1>2, <2>1, AwayKeeps DEF ReadClock, Goto
  <2>2. CASE GotoDeque(c)
    BY <1>2, <2>2, ArriveKeeps DEF ReadClock
  <2> QED
    BY <1>2, <2>1, <2>2 DEF ReadClock
<1>3. ASSUME NEW c \in Calls, Incr(c) PROVE MInv'
  <2>1. \A g \in granted' : g \in granted \/ g.where # "memory"
    BY <1>3 DEF Incr, Grant
  <2>2. granted \subseteq granted' /\ UNCHANGED <<now, buckets, beside, at>>
        /\ pc[c] = "incr" /\ pc' = [pc EXCEPT ![c] = "done"]
    BY <1>3 DEF Incr, Grant, Goto
  <2> QED
    BY <2>1, <2>2, AwayKeeps
<1>4. ASSUME NEW c \in Calls, IncrFirst(c) PROVE MInv'
  BY <1>4, AwayKeeps DEF IncrFirst, Goto
<1>5. ASSUME NEW c \in Calls, Expire(c) PROVE MInv'
  <2>1. \A g \in granted' : g \in granted \/ g.where # "memory"
    BY <1>5 DEF Expire, Grant
  <2>2. granted \subseteq granted' /\ UNCHANGED <<now, buckets, beside, at>>
        /\ pc[c] = "expire" /\ pc' = [pc EXCEPT ![c] = "done"]
    BY <1>5 DEF Expire, Grant, Goto
  <2> QED
    BY <2>1, <2>2, AwayKeeps
<1>6. ASSUME NEW c \in Calls, RedisFails(c) PROVE MInv'
  <2>1. CASE Goto(c, "done") /\ UNCHANGED <<at, beside>>
    BY <1>6, <2>1, AwayKeeps DEF RedisFails, Goto
  <2>2. CASE at' = [at EXCEPT ![c] = now] /\ GotoDeque(c)
    BY <1>6, <2>2, ArriveKeeps DEF RedisFails
  <2> QED
    BY <1>6, <2>1, <2>2 DEF RedisFails
<1>7. ASSUME NEW c \in Calls, SeeHead(c) PROVE MInv'
  <2>1. PICK q \in Stages :
          /\ pc' = [pc EXCEPT ![c] = q] /\ q # "append"
          /\ q = "pop" => /\ buckets[Home[c]] # <<>>
                         /\ Head(buckets[Home[c]]) <= at[c] - Window
    BY <1>7 DEF SeeHead, Goto, Bucket, Stages
  <2>2. UNCHANGED <<now, at, beside, buckets, granted>> /\ AtDeque(c)
    BY <1>7 DEF SeeHead, AtDeque
  <2>3. buckets[Home[c]] \in Seq(Nat)
    BY Homes DEF MInv, MemoryTypes
  <2>4. q = "pop" => buckets[Home[c]][1] <= at[c] - Window
    BY <2>1, <2>3
  <2> QED
    BY <2>1, <2>2, <2>4, LookKeeps
<1>8. ASSUME NEW c \in Calls, PopLeft(c) PROVE MInv'
  <2>1. pc[c] = "pop" /\ UNCHANGED <<now, at, beside, granted>> /\ AtDeque(c)
    BY <1>8 DEF PopLeft, AtDeque
  <2>2. CASE buckets[Home[c]] = <<>>
    <3>1. PICK q \in Stages : q = "done"
      BY DEF Stages
    <3>2. pc' = [pc EXCEPT ![c] = q] /\ UNCHANGED buckets
      BY <1>8, <2>2, <3>1 DEF PopLeft, Goto, Bucket
    <3>3. q # "pop" /\ q # "append"
      BY <3>1
    <3> QED
      BY <2>1, <3>2, <3>3, LookKeeps
  <2>3. CASE buckets[Home[c]] # <<>>
    <3>1. buckets[Home[c]] \in Seq(Nat)
      BY Homes DEF MInv, MemoryTypes
    <3>2. PICK e \in Seq(Nat) : e = Tail(buckets[Home[c]])
      BY <2>3, <3>1, Shorter
    <3>3. buckets' = [buckets EXCEPT ![Home[c]] = e]
          /\ pc' = [pc EXCEPT ![c] = "prune"]
      BY <1>8, <2>3, <3>2 DEF PopLeft, Goto, Bucket
    <3> QED
      BY <2>1, <2>3, <3>2, <3>3, PopKeeps
  <2> QED
    BY <2>2, <2>3
<1>9. ASSUME NEW c \in Calls, Check(c) PROVE MInv'
  <2>1. PICK q \in Stages :
          /\ pc' = [pc EXCEPT ![c] = q] /\ q # "pop"
          /\ q = "append" => ~(Len(buckets[Home[c]]) >= Limit)
    BY <1>9 DEF Check, Goto, Full, Bucket, Stages
  <2>2. UNCHANGED <<now, at, beside, buckets, granted>> /\ AtDeque(c)
    BY <1>9 DEF Check, AtDeque
  <2>3. buckets[Home[c]] \in Seq(Nat)
    BY Homes DEF MInv, MemoryTypes
  <2>4. q = "append" => Len(buckets[Home[c]]) < Limit
    BY <2>1, <2>3, Constants
  <2> QED
    BY <2>1, <2>2, <2>4, LookKeeps
<1>10. ASSUME NEW c \in Calls, AppendNow(c) PROVE MInv'
  <2>1. granted' = granted \cup {GrantOf(c)}
    BY <1>10 DEF AppendNow, Grant, GrantOf
  <2> QED
    BY <1>10, <2>1, AppendKeeps DEF AppendNow, Goto, Bucket
<1>11. CASE Tick
  <2>1. now' = now + 1 /\ now \in Nat
    BY <1>11 DEF Tick, MInv, MemoryTypes
  <2> QED
    BY <1>11, <2>1, WaitKeeps DEF Tick
<1> QED
  BY <1>1, <1>2, <1>3, <1>4, <1>5, <1>6, <1>7, <1>8, <1>9, <1>10, <1>11
     DEF Next

(* The grants up to a grant are no more than the calls that were served in *)
(* the Window before it.                                                   *)
LEMMA RecentCalls ==
  ASSUME MInv, NEW g \in granted, g.where = "memory"
  PROVE  /\ Home[g.call] \in Servers /\ g.at \in Nat
         /\ Cardinality(Recent(g)) \in Nat
         /\ Cardinality(Recent(g))
              <= Cardinality(Recently(Home[g.call], g.at - Window))
<1>1. g.call \in Calls /\ g = GrantOf(g.call) /\ MemoryTypes
  BY DEF MInv, MemoryTypes
<1>2. PICK s \in Servers : s = Home[g.call]
  BY <1>1, Homes
<1>3. g.at = at[g.call] /\ g.at \in Nat
  BY <1>1 DEF GrantOf, MemoryTypes
<1>4. PICK t \in Int : t = g.at - Window /\ t + Window = g.at
  BY <1>3, Constants
<1> DEFINE C == {d \in Calls : GrantOf(d) \in Recent(g)}
           f == [d \in C |-> GrantOf(d)]
<1>5. C \subseteq Recently(s, t)
  <2>1. ASSUME NEW d \in C PROVE d \in Recently(s, t)
    <3>1. GrantOf(d) \in granted /\ Home[GrantOf(d).call] = s
          /\ GrantOf(d).at <= g.at /\ GrantOf(d).at > g.at - Window
      BY <1>2, <2>1 DEF Recent
    <3>2. GrantOf(d).call = d /\ GrantOf(d).at = at[d]
      BY DEF GrantOf
    <3> QED
      BY <1>4, <3>1, <3>2 DEF Recently, After, Served
  <2> QED
    BY <2>1
<1>6. f \in Surjection(C, Recent(g))
  <2>1. ASSUME NEW h \in Recent(g) PROVE h.call \in C /\ f[h.call] = h
    <3>1. h \in granted /\ h.where = "memory"
      BY <2>1 DEF Recent
    <3>2. h.call \in Calls /\ h = GrantOf(h.call)
      BY <1>1, <3>1 DEF MemoryTypes
    <3> QED
      BY <2>1, <3>2
  <2>2. f \in [C -> Recent(g)]
    OBVIOUS
  <2>3. \A h \in Recent(g) : \E d \in C : f[d] = h
    BY <2>1
  <2> QED
    BY <2>2, <2>3 DEF Surjection
<1>7. Recently(s, t) \subseteq Calls
  BY DEF Recently, After, Served
<1>8. Cardinality(C) \in Nat /\ Cardinality(Recently(s, t)) \in Nat
      /\ Cardinality(C) <= Cardinality(Recently(s, t))
  BY <1>5, <1>7, Fewer
<1>9. IsFiniteSet(C)
  BY RateLimitAssumption, FS_Subset
<1>10. IsFiniteSet(Recent(g)) /\ Cardinality(Recent(g)) <= Cardinality(C)
  BY <1>6, <1>9, FS_Surjection
<1>11. Cardinality(Recent(g)) \in Nat
  BY <1>10, FS_CardinalityType
<1> QED
  BY <1>2, <1>3, <1>4, <1>8, <1>10, <1>11

(* With the calls of a Window in bounds, so are the grants in it.          *)
LEMMA MemoryLimits == MInv => MemoryLimit
<1> SUFFICES ASSUME MInv, NEW g \in granted, g.where = "memory"
             PROVE  Cardinality(Recent(g))
                      <= Limit + Cardinality({c \in beside :
                                               Home[c] = Home[g.call]})
  BY DEF MemoryLimit
<1>1. PICK s \in Servers, t \in Int :
        s = Home[g.call] /\ t = g.at - Window
  BY RecentCalls, Constants
<1>2. Cardinality(Recent(g)) <= Cardinality(Recently(s, t))
      /\ Cardinality(Recent(g)) \in Nat
  BY <1>1, RecentCalls
<1>3. WindowOK(s, t) /\ MemoryTypes
  BY DEF MInv, ProcessOK
<1>4. Beside(s) \subseteq Calls /\ Finished(s) \subseteq Beside(s)
  BY <1>3 DEF Beside, Finished, MemoryTypes
<1>5. Cardinality(Finished(s)) <= Cardinality(Beside(s))
      /\ Cardinality(Finished(s)) \in Nat /\ Cardinality(Beside(s)) \in Nat
  BY <1>4, Fewer
<1>6. Cardinality(Recently(s, t)) \in Nat
  BY <1>3, Numbers
<1>7. Cardinality(Recent(g)) <= Limit + Cardinality(Beside(s))
  BY <1>2, <1>3, <1>5, <1>6, Constants DEF WindowOK
<1> QED
  BY <1>1, <1>7 DEF Beside

(* InMemoryRateLimiter, whatever Redis does and however late a call is: in *)
(* no Window does a process grant more than the limit and one for each     *)
(* call that met another at the deque.                                     *)
THEOREM MemoryBound == Spec => []MemoryLimit
<1>1. Init => MInv
  BY MemoryStart
<1>2. MInv /\ [Next]_vars => MInv'
  BY MemoryStep
<1>3. MInv => MemoryLimit
  BY MemoryLimits
<1> QED
  BY <1>1, <1>2, <1>3, PTL DEF Spec

(* `bucket.popleft()` of an empty deque, which raises IndexError, needs    *)
(* two calls that met there: a call alone finds the entry that it saw.     *)
PopsEntry ==
    \A c \in Calls \ beside : pc[c] = "pop" =>
      Bucket(c) # <<>> /\ Head(Bucket(c)) <= at[c] - Window

THEOREM AloneAtPop == Spec => []PopsEntry
<1>1. Init => MInv
  BY MemoryStart
<1>2. MInv /\ [Next]_vars => MInv'
  BY MemoryStep
<1>3. ASSUME MInv PROVE PopsEntry
  <2> SUFFICES ASSUME NEW c \in Calls \ beside, pc[c] = "pop"
               PROVE  Bucket(c) # <<>> /\ Head(Bucket(c)) <= at[c] - Window
    BY DEF PopsEntry
  <2>1. Home[c] \in Servers /\ c \in Here(Home[c])
    BY Homes DEF Here, AtDeque
  <2>2. buckets[Home[c]] \in Seq(Nat) /\ buckets[Home[c]] # <<>>
        /\ buckets[Home[c]][1] <= at[c] - Window
    BY <1>3, <2>1 DEF MInv, MemoryTypes, ProcessOK, AloneOK
  <2> QED
    BY <2>2 DEF Bucket
<1> QED
  BY <1>1, <1>2, <1>3, PTL DEF Spec
=============================================================================
