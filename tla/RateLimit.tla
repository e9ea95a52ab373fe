----------------------------- MODULE RateLimit -----------------------------
(***************************************************************************)
(* The rate limit of one key, a client or an address: app/rate_limit.py as *)
(* request_access uses it.                                                 *)
(*                                                                         *)
(* With Redis the calls of all processes count in one counter per window   *)
(* of the clock, by INCR and, for the first of them, EXPIRE.  Without, or  *)
(* when Redis fails and settings.fail_closed is off, each process keeps a  *)
(* deque of its grants of the last window.  The handlers of a process are  *)
(* threads, and nothing guards the deque: its operations are single steps, *)
(* and what lies between them is not.                                      *)
(***************************************************************************)
EXTENDS Integers, Sequences, FiniteSets

CONSTANTS
    Calls,          \* calls of allow, one each
    Servers,        \* processes
    Home,           \* call |-> the process it runs in
    Limit,          \* limit
    Window,         \* window_seconds
    MaxFaults,      \* bound: commands that fail
    MaxTime         \* bound: the clock

ASSUME RateLimitAssumption ==
    /\ IsFiniteSet(Calls)
    /\ Home \in [Calls -> Servers]
    /\ Limit \in Nat \ {0}
    /\ Window \in Nat \ {0}
    /\ MaxFaults \in Nat
    /\ MaxTime \in Nat

VARIABLES
    now,            \* time.time()
    redis,          \* whether Redis answered when the processes started
    fail_closed,    \* the setting
    counters,       \* of Redis: for a window its count and its end of life
    buckets,        \* of each process: the deque
    pc,             \* where each call is
    at,             \* the time a call has read
    granted,        \* grants: the time read, where, by which call
    beside,         \* calls that shared the deque with another in time
    late,           \* calls whose INCR came after the window's Grace
    faults          \* how much of MaxFaults is used

settings == <<redis, fail_closed>>
vars == <<now, settings, counters, buckets, pc, at, granted, beside, late,
          faults>>

-----------------------------------------------------------------------------
Windows == 0..(MaxTime \div Window)
WindowOf(time) == time \div Window

(* The second after window w, which EXPIRE adds to the life of its counter. *)
Grace(w) == (w + 1) * Window

NoKey == [count |-> 0, expires |-> -1]
NoTTL == MaxTime + Window + 2       \* later than the clock ever is

Init ==
    /\ now = 0
    /\ redis \in BOOLEAN
    /\ fail_closed \in BOOLEAN
    /\ counters = [w \in Windows |-> NoKey]
    /\ buckets = [s \in Servers |-> <<>>]
    /\ pc = [c \in Calls |-> "idle"]
    /\ at = [c \in Calls |-> 0]
    /\ granted = {}
    /\ beside = {}
    /\ late = {}
    /\ faults = 0

Goto(c, step) == pc' = [pc EXCEPT ![c] = step]

AtDeque(c) == pc[c] \in {"prune", "pop", "check", "append"}

(* The call goes to the deque; others of its process may be there.         *)
GotoDeque(c) ==
    LET others == {d \in Calls \ {c} : Home[d] = Home[c] /\ AtDeque(d)}
    IN /\ Goto(c, "prune")
       /\ beside' = IF others = {} THEN beside ELSE beside \cup others \cup {c}

Grant(c, where) ==
    granted' = granted \cup {[at |-> at[c], where |-> where, call |-> c]}

(* The key as Redis sees it: gone once its time to live is over.           *)
Key(w) == IF counters[w].expires <= now THEN NoKey ELSE counters[w]

-----------------------------------------------------------------------------
(* HybridRateLimiter.allow, and the time that is read by either limiter.   *)
ReadClock(c) ==
    /\ pc[c] = "idle"
    /\ at' = [at EXCEPT ![c] = now]
    /\ \/ redis /\ Goto(c, "incr") /\ UNCHANGED beside
       \/ ~redis /\ GotoDeque(c)
    /\ UNCHANGED <<now, settings, counters, buckets, granted, late, faults>>

Counted(c) ==
    LET w == WindowOf(at[c])
    IN [counters EXCEPT ![w] =
          [count |-> Key(w).count + 1,
           expires |-> IF Key(w) = NoKey THEN NoTTL ELSE Key(w).expires]]

Count(c) ==
    /\ counters' = Counted(c)
    /\ late' = IF now > Grace(WindowOf(at[c])) THEN late \cup {c} ELSE late

(* INCR of a key that exists; the answer decides.                          *)
Incr(c) ==
    /\ pc[c] = "incr"
    /\ Key(WindowOf(at[c])) # NoKey
    /\ Count(c)
    /\ IF counters'[WindowOf(at[c])].count <= Limit
       THEN Grant(c, "redis") ELSE UNCHANGED granted
    /\ Goto(c, "done")
    /\ UNCHANGED <<now, settings, buckets, at, beside, faults>>

(* INCR that makes the key, which lives until EXPIRE says otherwise.       *)
IncrFirst(c) ==
    /\ pc[c] = "incr"
    /\ Key(WindowOf(at[c])) = NoKey
    /\ Count(c)
    /\ Goto(c, "expire")
    /\ UNCHANGED <<now, settings, buckets, at, granted, beside, faults>>

(* Defect: the key lives for the window only.                              *)
TimeToLiveExact == Window

TimeToLive == Window + 1

Limited(c) ==
    [counters EXCEPT ![WindowOf(at[c])].expires = now + TimeToLive]

Expire(c) ==
    /\ pc[c] = "expire"
    /\ counters' = Limited(c)
    /\ Grant(c, "redis")
    /\ Goto(c, "done")
    /\ UNCHANGED <<now, settings, buckets, at, beside, late, faults>>

(* RedisError: the command was lost, or only its reply.                    *)
RedisFails(c) ==
    /\ faults < MaxFaults
    /\ pc[c] \in {"incr", "expire"}
    /\ counters' \in {counters,
                      IF pc[c] = "incr" THEN Counted(c) ELSE Limited(c)}
    /\ \/ fail_closed /\ Goto(c, "done") /\ UNCHANGED <<at, beside>>
       \/ ~fail_closed /\ at' = [at EXCEPT ![c] = now] /\ GotoDeque(c)
    /\ faults' = faults + 1
    /\ UNCHANGED <<now, settings, buckets, granted, late>>

-----------------------------------------------------------------------------
Bucket(c) == buckets[Home[c]]

(* InMemoryRateLimiter.allow: `while bucket and bucket[0] <= ...`.         *)
SeeHead(c) ==
    /\ pc[c] = "prune"
    /\ Goto(c, IF Bucket(c) # <<>> /\ Head(Bucket(c)) <= at[c] - Window
               THEN "pop" ELSE "check")
    /\ UNCHANGED <<now, settings, counters, buckets, at, granted, beside,
                   late, faults>>

(* popleft, of what is now the head; IndexError when nothing is left.      *)
PopLeft(c) ==
    /\ pc[c] = "pop"
    /\ IF Bucket(c) = <<>>
       THEN Goto(c, "done") /\ UNCHANGED buckets
       ELSE /\ buckets' = [buckets EXCEPT ![Home[c]] = Tail(@)]
            /\ Goto(c, "prune")
    /\ UNCHANGED <<now, settings, counters, at, granted, beside, late, faults>>

(* Defect: one call more is let in.                                        *)
FullAbove(c) == Len(Bucket(c)) > Limit

Full(c) == Len(Bucket(c)) >= Limit

Check(c) ==
    /\ pc[c] = "check"
    /\ Goto(c, IF Full(c) THEN "done" ELSE "append")
    /\ UNCHANGED <<now, settings, counters, buckets, at, granted, beside,
                   late, faults>>

AppendNow(c) ==
    /\ pc[c] = "append"
    /\ buckets' = [buckets EXCEPT ![Home[c]] = Append(@, at[c])]
    /\ Grant(c, "memory")
    /\ Goto(c, "done")
    /\ UNCHANGED <<now, settings, counters, at, beside, late, faults>>

(* A call may take any time between two of its steps.                      *)
Tick ==
    /\ now < MaxTime
    /\ now' = now + 1
    /\ UNCHANGED <<settings, counters, buckets, pc, at, granted, beside, late,
                   faults>>

Next ==
    \/ \E c \in Calls :
         \/ ReadClock(c) \/ Incr(c) \/ IncrFirst(c) \/ Expire(c)
         \/ RedisFails(c)
         \/ SeeHead(c) \/ PopLeft(c) \/ Check(c) \/ AppendNow(c)
    \/ Tick

Spec == Init /\ [][Next]_vars

-----------------------------------------------------------------------------
(* Redis grants no more than the limit in a window of the clock, in all    *)
(* processes together, to the calls whose INCR comes in the window or in   *)
(* the second that EXPIRE adds to it.  What comes later may find the       *)
(* counter gone and begin another.                                         *)
RedisLimit ==
    \A w \in Windows :
      Cardinality({g \in granted : /\ g.where = "redis"
                                   /\ WindowOf(g.at) = w
                                   /\ g.call \notin late}) <= Limit

(* The grants of a process from its deque in the Window up to a grant.     *)
Recent(g) ==
    {h \in granted : /\ h.where = "memory" /\ Home[h.call] = Home[g.call]
                     /\ h.at <= g.at /\ h.at > g.at - Window}

(* A process grants from its deque no more than the limit in any Window,   *)
(* and one more for each call that was at the deque while another was.     *)
MemoryLimit ==
    \A g \in granted : g.where = "memory" =>
      Cardinality(Recent(g))
        <= Limit + Cardinality({c \in beside : Home[c] = Home[g.call]})
=============================================================================
