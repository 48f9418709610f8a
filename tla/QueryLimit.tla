----------------------------- MODULE QueryLimit -----------------------------
(***************************************************************************)
(* The limit on connectionless packets, per address and for all of them:   *)
(* CIPRateLimit.  Time is counted in seconds and does not go back.         *)
(*                                                                         *)
(* The tree is a function from addresses, which are numbers; how far a     *)
(* walk over it that trims it gets depends on where its nodes happen to    *)
(* lie in memory and is left open.                                         *)
(***************************************************************************)
EXTENDS Integers, FiniteSets, Functions

CONSTANTS
    IPs,
    Window,         \* max_queries_window
    PerIP,          \* max_queries_sec times the window
    Global,         \* max_queries_sec_global times the window
    MAX_TREE_SIZE, FLUSH_TIMEOUT,
    MaxTime,        \* seconds
    MaxQueries

QueryAssumption ==
    /\ IPs \subseteq Nat /\ IsFiniteSet(IPs)
    /\ Window \in Nat /\ PerIP \in Nat \ {0} /\ Global \in Nat \ {0}
    /\ MAX_TREE_SIZE \in Nat /\ FLUSH_TIMEOUT \in Nat /\ FLUSH_TIMEOUT >= Window
    /\ MaxTime \in Nat /\ MaxQueries \in Nat

VARIABLES
    tree,           \* m_IPTree: [lastTime, count] of the addresses in it
    globalCount,    \* m_iGlobalCount
    globalTime,     \* m_lLastTime
    curTime,
    \* history, of the last window of time
    asked,          \* the queries: [ip, time, no]
    passed,         \* those that were let through
    counted,        \* those that went on to the global limit
    last,           \* the last query: [ip, ok]
    queries         \* how many there were

vars == <<tree, globalCount, globalTime, curTime, asked, passed, counted, last, queries>>

-----------------------------------------------------------------------------
(* CheckIP                                                                 *)

\* (mutant) a window ends a second early
NewWindowEarly(start) == curTime - start >= Window

NewWindow(start) == curTime - start > Window

\* (mutant) whatever is in the tree may go
IdleOrNot(ip) == DOMAIN tree \ {ip}

\* What may be taken out when it is the turn of ip.
Idle(ip) == {i \in DOMAIN tree \ {ip} : curTime - tree[i].lastTime > FLUSH_TIMEOUT}

\* From the greatest address down, until a third is gone, the idle addresses
\* are taken out; the walk may end early.
Trimmed(ip) ==
    LET above(p) == {i \in Idle(ip) : i >= p}
        enough(gone) == Cardinality(DOMAIN tree \ gone) <= (2 * MAX_TREE_SIZE) \div 3
    IN  IF Cardinality(DOMAIN tree) <= MAX_TREE_SIZE THEN {tree}
        ELSE {tree} \cup
             {Restrict(tree, DOMAIN tree \ above(p)) :
                p \in {q \in Idle(ip) : ~enough(above(q) \ {q})}}

\* The entry of ip after a query: one more in its window, or a new window.
Entry(t, ip) ==
    IF ip \in DOMAIN t /\ ~NewWindow(t[ip].lastTime)
    THEN [lastTime |-> t[ip].lastTime, count |-> t[ip].count + 1]
    ELSE [lastTime |-> curTime, count |-> 1]

\* (mutant) what its address may not make is counted for all as well
CountedAnyway(under) == TRUE

Counted(under) == under

\* The query ip makes now, told from those it made in the same second.
Query(ip) ==
    [ip |-> ip, time |-> curTime,
     no |-> 1 + Cardinality({q \in asked : q.ip = ip /\ q.time = curTime})]

\* CIPRateLimit::CheckIP, called by SV_CheckConnectionLessRateLimits
CheckIP(ip) ==
    /\ queries < MaxQueries
    /\ \E t \in Trimmed(ip) :
        LET entry == Entry(t, ip)
            under == entry.count <= PerIP
            total == IF NewWindow(globalTime) THEN 1 ELSE globalCount + 1
            ok == under /\ total <= Global
        IN  /\ tree' = [i \in DOMAIN t \cup {ip} |-> IF i = ip THEN entry ELSE t[i]]
            /\ IF Counted(under)
               THEN /\ globalCount' = total
                    /\ globalTime' = IF NewWindow(globalTime) THEN curTime ELSE globalTime
               ELSE UNCHANGED <<globalCount, globalTime>>
            /\ passed' = IF ok THEN passed \cup {Query(ip)} ELSE passed
            /\ last' = [ip |-> ip, ok |-> ok]
            /\ counted' = IF under THEN counted \cup {Query(ip)} ELSE counted
    /\ asked' = asked \cup {Query(ip)}
    /\ queries' = queries + 1
    /\ UNCHANGED curTime

\* A second passes.
Tick ==
    LET lately(h) == {q \in h : curTime + 1 - q.time <= Window}
    IN  /\ curTime < Window + 1 + MaxTime
        /\ curTime' = curTime + 1
        /\ asked' = lately(asked) /\ passed' = lately(passed) /\ counted' = lately(counted)
        /\ last' = [last EXCEPT !.ok = TRUE]
        /\ UNCHANGED <<tree, globalCount, globalTime, queries>>

Init ==
    /\ tree = <<>>
    /\ globalCount = 0 /\ globalTime = -1
    /\ curTime = Window + 1
    /\ asked = {} /\ passed = {} /\ counted = {}
    /\ last = [ip |-> 0, ok |-> TRUE]
    /\ queries = 0

Next == Tick \/ \E ip \in IPs : CheckIP(ip)

Spec == Init /\ [][Next]_vars

-----------------------------------------------------------------------------
(* Properties                                                              *)

Of(ip, h) == {q \in h : q.ip = ip}

TypeOK ==
    /\ DOMAIN tree \subseteq IPs
    /\ \A ip \in DOMAIN tree : tree[ip] \in [lastTime : Nat, count : Nat \ {0}]
    /\ globalCount \in Nat /\ globalTime \in Int /\ curTime \in Nat
    /\ asked \subseteq [ip : IPs, time : Nat, no : Nat] /\ IsFiniteSet(asked)
    /\ passed \subseteq asked /\ counted \subseteq asked
    /\ last \in [ip : IPs \cup {0}, ok : BOOLEAN] /\ queries \in 0 .. MaxQueries

\* In no window of time, wherever it begins, does an address get through
\* more than the last of one window of the limit and all of the next;
\* the tree does not forget an address while that matters.
PerIPBound == \A ip \in IPs : Cardinality(Of(ip, passed)) <= 2 * PerIP - 1

\* Nor do all of them together.
GlobalBound == Cardinality(passed) <= 2 * Global - 1

\* "do this first, so one person dosing doesn't add to the global max rate"
\* (ipratelimit.cpp:68): a query is refused only when its own address made
\* too many, or too many queries passed the limits of their addresses.
RefusedForCause ==
    ~last.ok => Cardinality(Of(last.ip, asked)) > PerIP \/ Cardinality(counted) > Global
=============================================================================
