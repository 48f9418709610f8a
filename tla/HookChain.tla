------------------------------ MODULE HookChain ------------------------------
(***************************************************************************)
(* A hook chain: AbstractHookChainRegistry and a call through it           *)
(* (IHookChainImpl), in which hooks may register and unregister hooks,     *)
(* themselves included, before and after they call the next one.           *)
(*                                                                         *)
(* A running call holds pointers into the live array, here places in it.   *)
(* One call of the chain at a time is followed; in it every hook calls     *)
(* the next one at most once, or the original function, or neither.        *)
(***************************************************************************)
EXTENDS Integers, SequencesExt

CONSTANTS
    Hooks,
    NoHook,                     \* a null pointer
    Priorities,
    MAX_HOOKS_IN_CHAIN,
    MaxAdded, MaxRemoved        \* bounds on the changes made while a call runs

ASSUME HookAssumption ==
    /\ NoHook \notin Hooks /\ IsFiniteSet(Hooks) /\ Priorities \subseteq Int
    /\ MAX_HOOKS_IN_CHAIN \in Nat \ {0}
    /\ MaxAdded \in Nat /\ MaxRemoved \in Nat

VARIABLES
    m_Hooks, m_Priorities, m_NumHooks,
    stack,          \* the hooks running: [hook, chain, called], chain the place of the next
    \* history
    registered,     \* the hooks in the registry, in the order they came
    atStart,        \* the hooks in the array when the call began
    ran,            \* the hooks the call has run
    stayed,         \* those of atStart that have been registered ever since
    added, removed, \* how many were in the call
    outcome         \* how the call got to the original function, if it did

registry == <<m_Hooks, m_Priorities, m_NumHooks>>
call == <<atStart, ran, outcome>>
vars == <<registry, stack, registered, call, stayed, added, removed>>

Place == 0 .. MAX_HOOKS_IN_CHAIN        \* the last one is always null

-----------------------------------------------------------------------------
(* The registry                                                            *)

findHook(hookFunc) == \E i \in 0 .. m_NumHooks - 1 : m_Hooks[i] = hookFunc

\* Does a hook go behind the one in a place?
GoesBehind(hook, theirs, priority) == hook # NoHook /\ priority <= theirs

\* One place of the array: the hook carried along takes it and the hook that
\* was there is carried on, unless that one stays before it.
Swap(s, i) ==
    IF GoesBehind(s.hooks[i], s.priorities[i], s.priority) THEN s
    ELSE [hooks |-> [s.hooks EXCEPT ![i] = s.hook],
          priorities |-> [s.priorities EXCEPT ![i] = s.priority],
          hook |-> s.hooks[i], priority |-> s.priorities[i]]

\* What the loop of addHook has made of the array when it comes to each place.
Swaps(hookFunc, priority) ==
    LET s[k \in Place] ==
            IF k = 0 THEN [hooks |-> m_Hooks, priorities |-> m_Priorities,
                           hook |-> hookFunc, priority |-> priority]
            ELSE Swap(s[k - 1], k - 1)
    IN  s

HasRoom == m_NumHooks < MAX_HOOKS_IN_CHAIN

\* addHook; a hook that is in the registry and a full registry end the server.
addHook(hookFunc, priority) ==
    LET s == Swaps(hookFunc, priority)[MAX_HOOKS_IN_CHAIN]
    IN  /\ ~findHook(hookFunc)
        /\ HasRoom
        /\ m_Hooks' = s.hooks /\ m_Priorities' = s.priorities
        /\ m_NumHooks' = m_NumHooks + 1
        /\ registered' = Append(registered, hookFunc)

\* (mutant) the place of the last hook is not cleared
WithoutLeavingLast(array, i, last) ==
    [j \in Place |-> IF i <= j /\ j < last THEN array[j + 1] ELSE array[j]]

\* What is behind place i is moved up; nothing is left in the last place.
Without(array, i, last) ==
    [j \in Place |-> IF i <= j /\ j < last THEN array[j + 1]
                     ELSE IF j = last THEN NoHook ELSE array[j]]

\* removeHook; the priorities are moved up too, and the last one is left.
removeHook(hookFunc) ==
    \E i \in 0 .. m_NumHooks - 1 :
        /\ m_Hooks[i] = hookFunc
        /\ m_NumHooks' = m_NumHooks - 1
        /\ m_Hooks' = Without(m_Hooks, i, m_NumHooks - 1)
        /\ m_Priorities' = [j \in Place |-> IF i <= j /\ j < m_NumHooks - 1
                                            THEN m_Priorities[j + 1] ELSE m_Priorities[j]]
        /\ registered' = RemoveFirst(registered, hookFunc)

\* By whatever code runs now: a hook, or the engine outside a call.
registerHook(hook, priority) ==
    /\ addHook(hook, priority)
    /\ IF stack = <<>> THEN UNCHANGED added
       ELSE added < MaxAdded /\ added' = added + 1
    /\ UNCHANGED <<stack, call, stayed, removed>>

unregisterHook(hook) ==
    /\ removeHook(hook)
    /\ IF stack = <<>> THEN UNCHANGED removed
       ELSE removed < MaxRemoved /\ removed' = removed + 1
    /\ stayed' = stayed \ {hook}
    /\ UNCHANGED <<stack, call, added>>

-----------------------------------------------------------------------------
(* A call through the chain                                                *)

\* (mutant) the chain goes on from the hook itself
PushSame(place) == [hook |-> m_Hooks[place], chain |-> place, called |-> FALSE]

\* nextChain, for the hook in a place.
Push(place) == [hook |-> m_Hooks[place], chain |-> place + 1, called |-> FALSE]

\* callChain: a chain of its own, and callNext on it.
callChain ==
    /\ stack = <<>>
    /\ atStart' = [k \in 1 .. m_NumHooks |-> m_Hooks[k - 1]]
    /\ stayed' = {m_Hooks[i] : i \in 0 .. m_NumHooks - 1}
    /\ added' = 0 /\ removed' = 0
    /\ IF m_Hooks[0] # NoHook
       THEN stack' = <<Push(0)>> /\ ran' = <<m_Hooks[0]>> /\ outcome' = "none"
       ELSE stack' = <<>> /\ ran' = <<>> /\ outcome' = "next"
    /\ UNCHANGED <<registry, registered>>

Top == Last(stack)
Called == [stack EXCEPT ![Len(stack)].called = TRUE]

\* callNext of the hook that runs: what is at its place by now.
callNext ==
    /\ stack # <<>> /\ ~Top.called
    /\ LET nexthook == m_Hooks[Top.chain]
       IN  IF nexthook # NoHook
           THEN /\ stack' = Append(Called, Push(Top.chain))
                /\ ran' = Append(ran, nexthook)
                /\ UNCHANGED outcome
           ELSE stack' = Called /\ outcome' = "next" /\ UNCHANGED ran
    /\ UNCHANGED <<registry, registered, atStart, stayed, added, removed>>

callOriginal ==
    /\ stack # <<>> /\ ~Top.called
    /\ stack' = Called /\ outcome' = "asked"
    /\ UNCHANGED <<registry, registered, atStart, ran, stayed, added, removed>>

\* The hook that runs returns; with the first one the call is over.
Return ==
    /\ stack # <<>>
    /\ stack' = Front(stack)
    /\ IF Len(stack) > 1 THEN UNCHANGED <<call, stayed, added, removed>>
       ELSE /\ atStart' = <<>> /\ ran' = <<>> /\ outcome' = "none"
            /\ stayed' = {} /\ added' = 0 /\ removed' = 0
    /\ UNCHANGED <<registry, registered>>

Init ==
    /\ m_Hooks = [i \in Place |-> NoHook]
    /\ m_Priorities = [i \in Place |-> 0]
    /\ m_NumHooks = 0
    /\ stack = <<>> /\ registered = <<>>
    /\ atStart = <<>> /\ ran = <<>> /\ stayed = {} /\ added = 0 /\ removed = 0
    /\ outcome = "none"

Next ==
    \/ \E hook \in Hooks, priority \in Priorities : registerHook(hook, priority)
    \/ \E hook \in Hooks : unregisterHook(hook)
    \/ callChain
    \/ callNext
    \/ callOriginal
    \/ Return

Spec == Init /\ [][Next]_vars

-----------------------------------------------------------------------------
(* Properties                                                              *)

TypeOK ==
    /\ m_Hooks \in [Place -> Hooks \cup {NoHook}]
    /\ m_Priorities \in [Place -> Priorities \cup {0}]
    /\ m_NumHooks \in 0 .. MAX_HOOKS_IN_CHAIN
    /\ stack \in Seq([hook : Hooks, chain : Place, called : BOOLEAN])
    /\ registered \in Seq(Hooks) /\ atStart \in Seq(Hooks) /\ ran \in Seq(Hooks)
    /\ stayed \subseteq Hooks /\ added \in Nat /\ removed \in Nat
    /\ outcome \in {"none", "next", "asked"}

\* Registering carries hooks along the array and unregistering moves them
\* up: what is left is each registered hook once, without a hole and with a
\* null behind the last one, where a call ends, in the order of their
\* priorities.
ArrayIsTheRegistry ==
    /\ m_NumHooks = Len(registered)
    /\ {m_Hooks[i] : i \in 0 .. m_NumHooks - 1} = ToSet(registered)
    /\ \A i \in m_NumHooks .. MAX_HOOKS_IN_CHAIN : m_Hooks[i] = NoHook
    /\ \A i, j \in 0 .. m_NumHooks - 1 : i < j => m_Priorities[i] >= m_Priorities[j]

\* Hooks registered for the length of a call are run in it, all but as many
\* as were unregistered in it, and each once, but for as many repetitions as
\* hooks were registered in it; with no change the call runs all of them in
\* their order and then the original function.
CallRunsTheChain ==
    /\ outcome = "next" =>
          Cardinality(stayed \ ToSet(ran)) <= removed
    /\ Len(ran) - Cardinality(ToSet(ran)) <= added
    /\ added = 0 /\ removed = 0 =>
          /\ IsPrefix(ran, atStart)
          /\ outcome = "next" => ran = atStart

\* The array is the registry, in order, and a call keeps to it.
ChainInv == TypeOK /\ ArrayIsTheRegistry /\ CallRunsTheChain

\* Not so in the code:
\* "For equal priorities first registered hook will be called first."
\* (hookchains.h:52)
FirstRegisteredFirst ==
    LET order(h) == CHOOSE k \in DOMAIN registered : registered[k] = h
    IN  \A i, j \in 0 .. m_NumHooks - 1 :
            i < j /\ m_Priorities[i] = m_Priorities[j] => order(m_Hooks[i]) < order(m_Hooks[j])
=============================================================================
