-------------------------- MODULE HookChainProofs --------------------------
(***************************************************************************)
(* A hook chain, for every set of hooks, every priorities and every size   *)
(* of the registry.                                                        *)
(*                                                                         *)
(* The array is the registry (RegistryInv): addHook carries hooks along    *)
(* the array, and at every place what was left behind and what is carried  *)
(* are the hooks there were up to it and the new one (Halfway).  A call    *)
(* goes on from one place only, that of the hook that runs and has not     *)
(* called on; what a registration brings from before that place to behind  *)
(* it will be run again, what an unregistration brings from behind it to   *)
(* before it is passed over, and each is one hook at the most (CallInv).   *)
(***************************************************************************)
EXTENDS HookChain, SequenceTheorems, FiniteSetTheorems, WellFoundedInduction, TLAPS

N == MAX_HOOKS_IN_CHAIN

(* The first n places hold a hook each, in the order of their priorities,   *)
(* and the others none.                                                     *)
IsArray(hooks, priorities, n) ==
    /\ n \in 0 .. N
    /\ hooks \in [Place -> Hooks \cup {NoHook}]
    /\ priorities \in [Place -> Priorities \cup {0}]
    /\ \A i \in 0 .. n - 1 : hooks[i] \in Hooks
    /\ \A i, j \in 0 .. n - 1 : hooks[i] = hooks[j] => i = j
    /\ \A i \in n .. N : hooks[i] = NoHook
    /\ \A i, j \in 0 .. n - 1 : i < j => priorities[i] >= priorities[j]

(* A hook is in one of some places.                                         *)
Among(hook, hooks, from, to) == \E i \in from .. to : hooks[i] = hook

RegistryInv ==
    /\ IsArray(m_Hooks, m_Priorities, m_NumHooks)
    /\ registered \in Seq(Hooks) /\ Len(registered) = m_NumHooks
    /\ \A i, j \in 1 .. Len(registered) : registered[i] = registered[j] => i = j
    /\ \A h : Among(h, m_Hooks, 0, m_NumHooks - 1) <=> Among(h, registered, 1, Len(registered))

-----------------------------------------------------------------------------
(* The loop of addHook                                                     *)

LEMMA ChainConstants ==
    /\ N \in Nat /\ N >= 1 /\ NoHook \notin Hooks /\ IsFiniteSet(Hooks)
    /\ \A p \in Priorities \cup {0} : p \in Int
    /\ Place = 0 .. N
  BY HookAssumption DEF N, Place

(* What holds at the first place and one further each time holds up to n.   *)
LEMMA UpTo ==
    ASSUME NEW n \in Nat, NEW S, 0 \in S, \A k \in 0 .. n - 1 : k \in S => k + 1 \in S
    PROVE  \A k \in 0 .. n : k \in S
<1> DEFINE T == {k \in 0 .. n : k \notin S}
<1> SUFFICES ASSUME T # {} PROVE FALSE
  OBVIOUS
<1>1. T \subseteq Nat
  OBVIOUS
<1>2. PICK d \in T : \A e \in T : ~(<<e, d>> \in OpToRel(<, Nat))
  BY <1>1, NatLessThanWellFounded, WFMin
<1>3. d \in 0 .. n /\ d \notin S /\ d # 0
  OBVIOUS
<1>4. d - 1 \in 0 .. n - 1 /\ d - 1 < d /\ d - 1 + 1 = d
  BY <1>3
<1>5. d - 1 \in T
  BY <1>3, <1>4
<1> QED
  BY <1>1, <1>2, <1>4, <1>5 DEF OpToRel

Base(hook, priority) ==
    [hooks |-> m_Hooks, priorities |-> m_Priorities, hook |-> hook, priority |-> priority]

SwapsIs(s, hook, priority) ==
    s = [k \in Place |-> IF k = 0 THEN Base(hook, priority) ELSE Swap(s[k - 1], k - 1)]

LEMMA SwapsAre ==
    ASSUME NEW hook, NEW priority, NEW s, s = Swaps(hook, priority)
    PROVE  /\ s[0] = Base(hook, priority)
           /\ \A k \in 1 .. N : s[k] = Swap(s[k - 1], k - 1)
<1> USE ChainConstants
<1> DEFINE Upto(g, n) ==
               g = [k \in 0 .. n |-> IF k = 0 THEN Base(hook, priority) ELSE Swap(g[k - 1], k - 1)]
           K == {n \in Nat : \E g : Upto(g, n)}
<1>1. 0 \in K
  <2> DEFINE g == [k \in 0 .. 0 |-> Base(hook, priority)]
  <2>1. Upto(g, 0)
    OBVIOUS
  <2> QED
    BY <2>1
<1>2. ASSUME NEW n \in Nat, n \in K PROVE n + 1 \in K
  <2>1. PICK g : Upto(g, n)
    BY <1>2
  <2> DEFINE last_one == Swap(g[n], n)
             h == [k \in 0 .. n + 1 |-> IF k <= n THEN g[k] ELSE last_one]
  <2>2. g[0] = Base(hook, priority) /\ \A k \in 1 .. n : g[k] = Swap(g[k - 1], k - 1)
    BY <2>1
  <2>3. \A k \in 0 .. n : h[k] = g[k]
    OBVIOUS
  <2>4. h[n + 1] = Swap(h[n], n)
    OBVIOUS
  <2>5. ASSUME NEW k \in 0 .. n + 1
        PROVE  h[k] = IF k = 0 THEN Base(hook, priority) ELSE Swap(h[k - 1], k - 1)
    <3>1. CASE k = 0
      BY <2>2, <2>3, <3>1
    <3>2. CASE k \in 1 .. n
      <4>1. k - 1 \in 0 .. n /\ k \in 0 .. n /\ k # 0
        BY <3>2
      <4> HIDE DEF h
      <4> QED
        BY <2>2, <2>3, <3>2, <4>1
    <3>3. CASE k = n + 1
      <4>1. k # 0 /\ k - 1 = n
        BY <3>3
      <4> HIDE DEF h
      <4> QED
        BY <2>4, <3>3, <4>1
    <3> QED
      BY <3>1, <3>2, <3>3
  <2>6. DOMAIN h = 0 .. n + 1 /\ h = [k \in 0 .. n + 1 |-> h[k]]
    OBVIOUS
  <2> HIDE DEF h
  <2>7. Upto(h, n + 1)
    BY <2>5, <2>6
  <2> QED
    BY <2>7
<1> HIDE DEF K
<1>3. N \in K
  <2>1. \A n \in 0 .. N : n \in K
    BY <1>1, <1>2, UpTo, SMTT(30)
  <2> QED
    BY <2>1
<1>4. \E g : SwapsIs(g, hook, priority)
  BY <1>3 DEF K, SwapsIs
<1>5. s = CHOOSE g : SwapsIs(g, hook, priority)
  BY DEF Swaps, SwapsIs, Base
<1>6. SwapsIs(s, hook, priority)
  BY <1>4, <1>5
<1>7. s[0] = Base(hook, priority)
  BY <1>6 DEF SwapsIs
<1>8. ASSUME NEW k \in 1 .. N PROVE s[k] = Swap(s[k - 1], k - 1)
  <2>1. k \in Place /\ k # 0
    OBVIOUS
  <2> QED
    BY <1>6, <2>1 DEF SwapsIs
<1> QED
  BY <1>7, <1>8

(* What the loop has made of the first k places, of those that hold a hook: *)
(* the hooks that were there and the new one are left there, in order, or   *)
(* are carried along.                                                       *)
Halfway(st, k, hook) ==
    /\ st.hooks \in [Place -> Hooks \cup {NoHook}]
    /\ st.priorities \in [Place -> Priorities \cup {0}]
    /\ st.hook \in Hooks /\ st.priority \in Priorities \cup {0}
    /\ \A i \in k .. N : st.hooks[i] = m_Hooks[i] /\ st.priorities[i] = m_Priorities[i]
    /\ \A i \in 0 .. k - 1 : st.hooks[i] \in Hooks /\ st.hooks[i] # st.hook
    /\ \A i, j \in 0 .. k - 1 : st.hooks[i] = st.hooks[j] => i = j
    /\ \A h : h = hook \/ Among(h, m_Hooks, 0, k - 1)
              <=> h = st.hook \/ Among(h, st.hooks, 0, k - 1)
    /\ \A i, j \in 0 .. k - 1 : i < j => st.priorities[i] >= st.priorities[j]
    /\ \A i \in 0 .. k - 1 : /\ st.priorities[i] >= st.priority
                             /\ st.priorities[i] >= m_Priorities[i]

LEMMA HalfwayOn ==
    ASSUME IsArray(m_Hooks, m_Priorities, m_NumHooks), NEW hook \in Hooks,
           ~Among(hook, m_Hooks, 0, m_NumHooks - 1),
           NEW k \in 0 .. m_NumHooks - 1, NEW st, Halfway(st, k, hook)
    PROVE  Halfway(Swap(st, k), k + 1, hook)
<1> USE ChainConstants
<1>1. PICK n \in 0 .. N : n = m_NumHooks
  BY DEF IsArray
<1>2. k \in 0 .. n - 1 /\ k \in Place /\ k + 1 - 1 = k
  BY <1>1
<1>3. /\ m_Hooks[k] \in Hooks /\ m_Priorities[k] \in Int /\ m_Hooks[k] # hook
      /\ \A i \in 0 .. k - 1 : /\ m_Hooks[i] # m_Hooks[k] /\ m_Priorities[i] >= m_Priorities[k]
                              /\ m_Priorities[i] \in Int
  BY <1>1, <1>2 DEF IsArray, Among
<1>4. st.hooks[k] = m_Hooks[k] /\ st.priorities[k] = m_Priorities[k]
  BY <1>2 DEF Halfway
<1>5. st.priority \in Int /\ \A i \in 0 .. k - 1 : st.priorities[i] \in Int
  BY <1>2 DEF Halfway
<1>6. m_Hooks[k] # st.hook /\ \A i \in 0 .. k - 1 : st.hooks[i] # m_Hooks[k]
  <2>1. ~(m_Hooks[k] = hook \/ Among(m_Hooks[k], m_Hooks, 0, k - 1))
    BY <1>3 DEF Among
  <2>2. ~(m_Hooks[k] = st.hook \/ Among(m_Hooks[k], st.hooks, 0, k - 1))
    BY <2>1 DEF Halfway
  <2> QED
    BY <2>2 DEF Among
<1>7. \A i \in 0 .. k : i \in 0 .. k - 1 \/ i = k
  BY <1>2
<1>8. \A h : Among(h, m_Hooks, 0, k) <=> Among(h, m_Hooks, 0, k - 1) \/ h = m_Hooks[k]
  BY <1>2, <1>7 DEF Among
<1>9. CASE GoesBehind(st.hooks[k], st.priorities[k], st.priority)
  <2>1. Swap(st, k) = st /\ st.priority <= m_Priorities[k]
    BY <1>4, <1>9 DEF Swap, GoesBehind
  <2>2. \A h : Among(h, st.hooks, 0, k) <=> Among(h, st.hooks, 0, k - 1) \/ h = m_Hooks[k]
    BY <1>2, <1>4, <1>7 DEF Among
  <2>3. \A h : h = hook \/ Among(h, m_Hooks, 0, k) <=> h = st.hook \/ Among(h, st.hooks, 0, k)
    BY <1>8, <2>2 DEF Halfway
  <2>4. /\ \A i \in 0 .. k : st.hooks[i] \in Hooks /\ st.hooks[i] # st.hook
        /\ \A i, j \in 0 .. k : st.hooks[i] = st.hooks[j] => i = j
    BY <1>3, <1>4, <1>6, <1>7 DEF Halfway
  <2>5. \A i \in 0 .. k - 1 : st.priorities[i] >= st.priorities[k]
    BY <1>3, <1>4, <1>5 DEF Halfway
  <2>6. /\ \A i, j \in 0 .. k : i < j => st.priorities[i] >= st.priorities[j]
        /\ \A i \in 0 .. k : /\ st.priorities[i] >= st.priority
                            /\ st.priorities[i] >= m_Priorities[i]
    BY <1>2, <1>3, <1>4, <1>5, <1>7, <2>1, <2>5 DEF Halfway
  <2> QED
    BY <1>2, <2>1, <2>3, <2>4, <2>6 DEF Halfway
<1>10. CASE ~GoesBehind(st.hooks[k], st.priorities[k], st.priority)
  <2>1. PICK t : t = Swap(st, k)
    OBVIOUS
  <2>2. /\ t.hooks = [st.hooks EXCEPT ![k] = st.hook]
        /\ t.priorities = [st.priorities EXCEPT ![k] = st.priority]
        /\ t.hook = m_Hooks[k] /\ t.priority = m_Priorities[k]
    BY <1>4, <1>10, <2>1 DEF Swap
  <2>3. st.priority > m_Priorities[k]
    BY <1>3, <1>4, <1>5, <1>10 DEF GoesBehind
  <2>4. /\ t.hooks \in [Place -> Hooks \cup {NoHook}]
        /\ t.priorities \in [Place -> Priorities \cup {0}]
        /\ t.hook \in Hooks /\ t.priority \in Priorities \cup {0}
    BY <1>2, <1>3, <2>2 DEF Halfway, IsArray
  <2>5. /\ t.hooks[k] = st.hook /\ t.priorities[k] = st.priority
        /\ \A i \in Place : i # k => t.hooks[i] = st.hooks[i] /\ t.priorities[i] = st.priorities[i]
    BY <1>2, <2>2 DEF Halfway
  <2>6. \A i \in 0 .. k - 1 : i \in Place /\ i # k
    BY <1>1, <1>2
  <2>7. \A h : Among(h, t.hooks, 0, k) <=> Among(h, st.hooks, 0, k - 1) \/ h = st.hook
    BY <1>2, <1>7, <2>5, <2>6 DEF Among
  <2>8. \A h : h = hook \/ Among(h, m_Hooks, 0, k) <=> h = t.hook \/ Among(h, t.hooks, 0, k)
    BY <1>8, <2>2, <2>7 DEF Halfway
  <2>9. /\ \A i \in 0 .. k : t.hooks[i] \in Hooks /\ t.hooks[i] # t.hook
        /\ \A i, j \in 0 .. k : t.hooks[i] = t.hooks[j] => i = j
    BY <1>6, <1>7, <2>2, <2>5, <2>6 DEF Halfway
  <2>10. /\ \A i, j \in 0 .. k : i < j => t.priorities[i] >= t.priorities[j]
         /\ \A i \in 0 .. k : /\ t.priorities[i] >= t.priority
                             /\ t.priorities[i] >= m_Priorities[i]
    <3>1. \A i \in 0 .. k - 1 : t.priorities[i] >= t.priorities[k] /\ t.priorities[i] \in Int
      BY <1>5, <2>5, <2>6 DEF Halfway
    <3>2. t.priorities[k] > m_Priorities[k] /\ t.priorities[k] \in Int
      BY <1>5, <2>3, <2>5
    <3>3. \A i, j \in 0 .. k : i < j => t.priorities[i] >= t.priorities[j]
      BY <1>2, <1>7, <2>5, <2>6, <3>1 DEF Halfway
    <3>4. \A i \in 0 .. k : t.priorities[i] >= t.priority
      BY <1>3, <1>7, <2>2, <3>1, <3>2
    <3>5. \A i \in 0 .. k : t.priorities[i] >= m_Priorities[i]
      <4>1. \A i \in 0 .. k - 1 : t.priorities[i] >= m_Priorities[i]
        BY <2>5, <2>6 DEF Halfway
      <4> QED
        BY <1>3, <1>7, <3>2, <4>1
    <3> QED
      BY <3>3, <3>4, <3>5
  <2>11. \A i \in k + 1 .. N : t.hooks[i] = m_Hooks[i] /\ t.priorities[i] = m_Priorities[i]
    <3>1. \A i \in k + 1 .. N : i \in Place /\ i # k /\ i \in k .. N
      BY <1>1, <1>2
    <3> QED
      BY <2>5, <3>1 DEF Halfway
  <2> QED
    BY <1>2, <2>1, <2>4, <2>8, <2>9, <2>10, <2>11 DEF Halfway
<1> QED
  BY <1>9, <1>10

(* What the loop has made once the hook carried last has got a place.       *)
Settled(st, hook) ==
    /\ IsArray(st.hooks, st.priorities, m_NumHooks + 1)
    /\ st.hook = NoHook /\ st.priority \in Priorities \cup {0}
    /\ \A h : h = hook \/ Among(h, m_Hooks, 0, m_NumHooks - 1)
              <=> Among(h, st.hooks, 0, m_NumHooks)

LEMMA LastCarried ==
    ASSUME IsArray(m_Hooks, m_Priorities, m_NumHooks), HasRoom, NEW hook, NEW st,
           Halfway(st, m_NumHooks, hook)
    PROVE  Settled(Swap(st, m_NumHooks), hook)
<1> USE ChainConstants
<1>1. PICK n \in 0 .. N : n = m_NumHooks /\ n + 1 \in 0 .. N /\ n \in Place
  BY DEF IsArray, HasRoom, N
<1>2. PICK t : t = Swap(st, n)
  OBVIOUS
<1>3. st.hooks[n] = NoHook /\ st.priorities[n] = m_Priorities[n]
  BY <1>1 DEF Halfway, IsArray
<1>4. /\ t.hooks = [st.hooks EXCEPT ![n] = st.hook]
      /\ t.priorities = [st.priorities EXCEPT ![n] = st.priority]
      /\ t.hook = NoHook /\ t.priority = m_Priorities[n]
  BY <1>2, <1>3 DEF Swap, GoesBehind
<1>5. /\ t.hooks \in [Place -> Hooks \cup {NoHook}]
      /\ t.priorities \in [Place -> Priorities \cup {0}]
      /\ t.hook = NoHook /\ t.priority \in Priorities \cup {0}
  BY <1>1, <1>4 DEF Halfway, IsArray
<1>6. /\ t.hooks[n] = st.hook /\ t.priorities[n] = st.priority
      /\ \A i \in Place : i # n => t.hooks[i] = st.hooks[i] /\ t.priorities[i] = st.priorities[i]
  BY <1>1, <1>4 DEF Halfway
<1>7. /\ \A i \in 0 .. n : i \in 0 .. n - 1 \/ i = n
      /\ \A i \in 0 .. n - 1 : i \in Place /\ i # n
      /\ n + 1 - 1 = n /\ n \in 0 .. n
  BY <1>1
<1>8. \A h : Among(h, t.hooks, 0, n) <=> Among(h, st.hooks, 0, n - 1) \/ h = st.hook
  BY <1>6, <1>7 DEF Among
<1>9. /\ \A i \in 0 .. n : t.hooks[i] \in Hooks
      /\ \A i, j \in 0 .. n : t.hooks[i] = t.hooks[j] => i = j
  <2>1. /\ \A i \in 0 .. n - 1 : /\ t.hooks[i] = st.hooks[i] /\ t.hooks[i] \in Hooks
                                /\ t.hooks[i] # t.hooks[n]
        /\ t.hooks[n] \in Hooks
    BY <1>1, <1>6, <1>7 DEF Halfway
  <2>2. \A i, j \in 0 .. n - 1 : t.hooks[i] = t.hooks[j] => i = j
    BY <1>1, <2>1 DEF Halfway
  <2> QED
    BY <1>7, <2>1, <2>2
<1>10. \A i, j \in 0 .. n : i < j => t.priorities[i] >= t.priorities[j]
  BY <1>1, <1>6, <1>7 DEF Halfway
<1>11. \A i \in n + 1 .. N : t.hooks[i] = NoHook
  <2>1. \A i \in n + 1 .. N : i \in Place /\ i # n /\ i \in n .. N
    BY <1>1
  <2> QED
    BY <1>1, <1>6, <2>1 DEF Halfway, IsArray
<1>12. IsArray(t.hooks, t.priorities, n + 1)
  BY <1>1, <1>5, <1>7, <1>9, <1>10, <1>11 DEF IsArray
<1> QED
  BY <1>1, <1>2, <1>5, <1>8, <1>12 DEF Halfway, Settled

LEMMA NothingCarried ==
    ASSUME m_NumHooks \in Nat, NEW hook, NEW k \in m_NumHooks + 1 .. N - 1, NEW st, Settled(st, hook)
    PROVE  Settled(Swap(st, k), hook)
<1> USE ChainConstants
<1>1. PICK n \in Nat : n = m_NumHooks /\ k \in n + 1 .. N /\ k \in Place
  OBVIOUS
<1>2. PICK t : t = Swap(st, k)
  OBVIOUS
<1>3. st.hooks[k] = NoHook /\ st.hook = NoHook
  BY <1>1 DEF Settled, IsArray
<1>4. /\ t.hooks = [st.hooks EXCEPT ![k] = NoHook]
      /\ t.priorities = [st.priorities EXCEPT ![k] = st.priority]
      /\ t.hook = NoHook /\ t.priority = st.priorities[k]
  BY <1>2, <1>3 DEF Swap, GoesBehind
<1>5. /\ t.hooks \in [Place -> Hooks \cup {NoHook}]
      /\ t.priorities \in [Place -> Priorities \cup {0}]
      /\ t.priority \in Priorities \cup {0}
  BY <1>1, <1>4 DEF Settled, IsArray
<1>6. /\ t.hooks[k] = NoHook
      /\ \A i \in Place : i # k => t.hooks[i] = st.hooks[i] /\ t.priorities[i] = st.priorities[i]
  BY <1>1, <1>4 DEF Settled, IsArray
<1>7. \A i \in 0 .. n : i \in Place /\ t.hooks[i] = st.hooks[i] /\ t.priorities[i] = st.priorities[i]
  <2>1. \A i \in 0 .. n : i \in Place /\ i # k
    BY <1>1
  <2> QED
    BY <1>6, <2>1
<1>8. \A h : Among(h, t.hooks, 0, n) <=> Among(h, st.hooks, 0, n)
  BY <1>7 DEF Among
<1>9. n + 1 \in 0 .. N /\ n + 1 - 1 = n
  BY <1>1
<1>10. /\ \A i \in 0 .. n : t.hooks[i] \in Hooks
       /\ \A i, j \in 0 .. n : t.hooks[i] = t.hooks[j] => i = j
       /\ \A i, j \in 0 .. n : i < j => t.priorities[i] >= t.priorities[j]
  BY <1>1, <1>7, <1>9 DEF Settled, IsArray
<1>11. \A i \in n + 1 .. N : t.hooks[i] = NoHook
  <2>1. \A i \in n + 1 .. N : i \in Place /\ st.hooks[i] = NoHook
    BY <1>1 DEF Settled, IsArray
  <2> QED
    BY <1>6, <2>1
<1>12. IsArray(t.hooks, t.priorities, n + 1)
  BY <1>5, <1>9, <1>10, <1>11 DEF IsArray
<1> QED
  BY <1>1, <1>2, <1>4, <1>5, <1>8, <1>12 DEF Settled

(* What addHook makes of the array: the hooks there were and the new one;   *)
(* and of those up to any place only one may now be behind it.              *)
BeforeOrNew(hooks, hook, c) ==
    \A i \in 0 .. m_NumHooks : i < c => hooks[i] = hook \/ Among(hooks[i], m_Hooks, 0, c - 1)
OneFromBefore(hooks, c) ==
    \E x : \A i \in 0 .. m_NumHooks :
        c <= i => hooks[i] = x \/ Among(hooks[i], m_Hooks, c, m_NumHooks - 1)
Inserted(hooks, hook) ==
    \A c \in 0 .. N : BeforeOrNew(hooks, hook, c) /\ OneFromBefore(hooks, c)

LEMMA AddHook ==
    ASSUME IsArray(m_Hooks, m_Priorities, m_NumHooks), HasRoom,
           NEW hook \in Hooks, ~findHook(hook), NEW priority \in Priorities,
           NEW st, st = Swaps(hook, priority)[N]
    PROVE  /\ IsArray(st.hooks, st.priorities, m_NumHooks + 1)
           /\ \A h : h = hook \/ Among(h, m_Hooks, 0, m_NumHooks - 1)
                     <=> Among(h, st.hooks, 0, m_NumHooks)
           /\ Inserted(st.hooks, hook)
<1> USE ChainConstants
<1>1. PICK s : s = Swaps(hook, priority)
  OBVIOUS
<1>2. s[0] = Base(hook, priority) /\ \A k \in 1 .. N : s[k] = Swap(s[k - 1], k - 1)
  BY <1>1, SwapsAre
<1>3. PICK n \in 0 .. N : n = m_NumHooks /\ n + 1 \in 0 .. N
  BY DEF IsArray, HasRoom, N
<1>4. ~Among(hook, m_Hooks, 0, n - 1)
  BY <1>3 DEF findHook, Among
<1>5. \A k \in 0 .. n : Halfway(s[k], k, hook)
  <2> DEFINE K == {k \in 0 .. n : Halfway(s[k], k, hook)}
  <2>1. 0 \in K
    <3>1. /\ s[0].hooks = m_Hooks /\ s[0].priorities = m_Priorities
          /\ s[0].hook = hook /\ s[0].priority = priority
      BY <1>2 DEF Base
    <3>2. \A i \in 0 .. 0 - 1 : FALSE
      OBVIOUS
    <3>3. Halfway(s[0], 0, hook)
      BY <3>1, <3>2 DEF Halfway, IsArray, Among
    <3> QED
      BY <3>3
  <2>2. ASSUME NEW k \in 0 .. n - 1, k \in K PROVE k + 1 \in K
    <3>1. k + 1 \in 1 .. N /\ k + 1 \in 0 .. n /\ k + 1 - 1 = k
      BY <1>3
    <3>2. s[k + 1] = Swap(s[k], k)
      BY <1>2, <3>1
    <3>3. Halfway(s[k + 1], k + 1, hook)
      BY <1>3, <1>4, <2>2, <3>2, HalfwayOn
    <3> QED
      BY <3>1, <3>3
  <2> HIDE DEF K
  <2>3. \A k \in 0 .. n : k \in K
    BY <2>1, <2>2, UpTo
  <2> QED
    BY <2>3 DEF K
<1>6. Settled(s[N], hook)
  <2> DEFINE K == {d \in 0 .. N - n - 1 : Settled(s[n + 1 + d], hook)}
  <2>1. 0 \in K
    <3>1. n + 1 \in 1 .. N /\ n + 1 - 1 = n /\ n + 1 + 0 = n + 1 /\ 0 \in 0 .. N - n - 1 /\ n \in 0 .. n
      BY <1>3
    <3>2. s[n + 1] = Swap(s[n], n)
      BY <1>2, <3>1
    <3>3. Settled(s[n + 1], hook)
      BY <1>3, <1>5, <3>1, <3>2, LastCarried
    <3> QED
      BY <3>1, <3>3
  <2>2. ASSUME NEW d \in 0 .. (N - n - 1) - 1, d \in K PROVE d + 1 \in K
    <3>1. /\ n + 1 + (d + 1) \in 1 .. N /\ n + 1 + (d + 1) - 1 = n + 1 + d
          /\ n + 1 + d \in n + 1 .. N - 1 /\ d + 1 \in 0 .. N - n - 1
      BY <1>3
    <3>2. s[n + 1 + (d + 1)] = Swap(s[n + 1 + d], n + 1 + d)
      BY <1>2, <3>1
    <3>3. Settled(s[n + 1 + (d + 1)], hook)
      BY <1>3, <2>2, <3>1, <3>2, NothingCarried
    <3> QED
      BY <3>1, <3>3
  <2>3. N - n - 1 \in Nat /\ n + 1 + (N - n - 1) = N
    BY <1>3
  <2> HIDE DEF K
  <2>4. \A d \in 0 .. N - n - 1 : d \in K
    BY <2>1, <2>2, <2>3, UpTo
  <2>5. N - n - 1 \in K
    BY <2>3, <2>4
  <2>6. Settled(s[n + 1 + (N - n - 1)], hook)
    BY <2>5 DEF K
  <2> QED
    BY <2>3, <2>6
<1>7. ASSUME NEW c \in 0 .. n PROVE \A i \in 0 .. c - 1 : st.hooks[i] = s[c].hooks[i]
  <2> DEFINE Same(k) == \A i \in 0 .. c - 1 : s[k].hooks[i] = s[c].hooks[i]
             K == {d \in 0 .. N - c : Same(c + d)}
  <2>1. 0 \in K
    BY <1>3
  <2>2. ASSUME NEW d \in 0 .. (N - c) - 1, d \in K PROVE d + 1 \in K
    <3>1. /\ c + (d + 1) \in 1 .. N /\ c + (d + 1) - 1 = c + d /\ d + 1 \in 0 .. N - c
          /\ \A i \in 0 .. c - 1 : i # c + d
      BY <1>3
    <3>2. s[c + (d + 1)] = Swap(s[c + d], c + d)
      BY <1>2, <3>1
    <3>3. \A i \in 0 .. c - 1 : s[c + (d + 1)].hooks[i] = s[c + d].hooks[i]
      BY <3>1, <3>2 DEF Swap
    <3>4. Same(c + (d + 1))
      BY <2>2, <3>3
    <3> QED
      BY <3>1, <3>4
  <2>3. N - c \in Nat /\ c + (N - c) = N
    BY <1>3
  <2> HIDE DEF K
  <2>4. \A d \in 0 .. N - c : d \in K
    BY <2>1, <2>2, <2>3, UpTo
  <2>5. Same(c + (N - c))
    BY <2>3, <2>4 DEF K
  <2> QED
    BY <1>1, <2>3, <2>5
<1>8. st = s[N]
  BY <1>1
<1>9. /\ IsArray(st.hooks, st.priorities, n + 1)
      /\ \A h : h = hook \/ Among(h, m_Hooks, 0, n - 1) <=> Among(h, st.hooks, 0, n)
  BY <1>3, <1>6, <1>8 DEF Settled
<1>10. ASSUME NEW c \in 0 .. N
       PROVE  BeforeOrNew(st.hooks, hook, c) /\ OneFromBefore(st.hooks, c)
  <2>1. CASE c <= n
    <3>1. c \in 0 .. n /\ Halfway(s[c], c, hook)
      BY <1>5, <2>1
    <3>2. \A i \in 0 .. c - 1 : st.hooks[i] = s[c].hooks[i]
      BY <1>7, <3>1
    <3>3. ASSUME NEW i \in 0 .. n, i < c
          PROVE  st.hooks[i] = hook \/ Among(st.hooks[i], m_Hooks, 0, c - 1)
      <4>1. i \in 0 .. c - 1
        BY <3>3
      <4>2. Among(st.hooks[i], s[c].hooks, 0, c - 1)
        BY <3>2, <4>1 DEF Among
      <4> QED
        BY <3>1, <4>2 DEF Halfway
    <3>9. PICK carried : carried = s[c].hook
      OBVIOUS
    <3>4. ASSUME NEW i \in 0 .. n, c <= i, st.hooks[i] # carried
          PROVE  Among(st.hooks[i], m_Hooks, c, n - 1)
      <4>1. ~Among(st.hooks[i], s[c].hooks, 0, c - 1)
        <5> SUFFICES ASSUME NEW j \in 0 .. c - 1, s[c].hooks[j] = st.hooks[i] PROVE FALSE
          BY DEF Among
        <5>1. j \in 0 .. n /\ j # i /\ n + 1 - 1 = n
          BY <2>1, <3>4
        <5>2. st.hooks[j] = st.hooks[i]
          BY <3>2
        <5> QED
          BY <1>9, <5>1, <5>2 DEF IsArray
      <4>2. st.hooks[i] # hook /\ ~Among(st.hooks[i], m_Hooks, 0, c - 1)
        BY <3>1, <3>4, <3>9, <4>1 DEF Halfway
      <4>3. Among(st.hooks[i], st.hooks, 0, n)
        BY DEF Among
      <4>4. PICK j \in 0 .. n - 1 : m_Hooks[j] = st.hooks[i]
        BY <1>9, <4>2, <4>3 DEF Among
      <4>5. j \notin 0 .. c - 1
        BY <4>2, <4>4 DEF Among
      <4>6. j \in c .. n - 1
        BY <4>5
      <4> QED
        BY <4>4, <4>6 DEF Among
    <3>5. \A i \in 0 .. n :
             c <= i => st.hooks[i] = carried \/ Among(st.hooks[i], m_Hooks, c, n - 1)
      BY <3>4
    <3>6. OneFromBefore(st.hooks, c)
      BY <1>3, <3>5 DEF OneFromBefore
    <3>7. BeforeOrNew(st.hooks, hook, c)
      BY <1>3, <3>3 DEF BeforeOrNew
    <3> QED
      BY <3>6, <3>7
  <2>2. CASE c > n
    <3>1. ASSUME NEW i \in 0 .. n
          PROVE  st.hooks[i] = hook \/ Among(st.hooks[i], m_Hooks, 0, c - 1)
      <4>1. Among(st.hooks[i], st.hooks, 0, n)
        BY DEF Among
      <4>2. \A j \in 0 .. n - 1 : j \in 0 .. c - 1
        BY <2>2
      <4> QED
        BY <1>9, <4>1, <4>2 DEF Among
    <3>2. \A i \in 0 .. n : ~(c <= i)
      BY <2>2
    <3> QED
      BY <1>3, <3>1, <3>2 DEF BeforeOrNew, OneFromBefore
  <2> QED
    BY <1>3, <2>1, <2>2
<1>11. Inserted(st.hooks, hook)
  BY <1>3, <1>10 DEF Inserted
<1> QED
  BY <1>3, <1>9, <1>11

-----------------------------------------------------------------------------
(* The registry                                                            *)

(* removeHook takes one hook out, and of those from any place on only one   *)
(* may now be before it.                                                    *)
Skipping(hooks, c) ==
    \E x : \A j \in 0 .. m_NumHooks - 2 : j < c => hooks[j] = x \/ Among(hooks[j], m_Hooks, 0, c - 1)
StillAhead(hooks, c) ==
    \A j \in 0 .. m_NumHooks - 2 : c <= j => Among(hooks[j], m_Hooks, c, m_NumHooks - 1)

LEMMA RemoveHook ==
    ASSUME IsArray(m_Hooks, m_Priorities, m_NumHooks), NEW i \in 0 .. m_NumHooks - 1,
           NEW hooks, hooks = Without(m_Hooks, i, m_NumHooks - 1),
           NEW priorities, priorities = [j \in Place |-> IF i <= j /\ j < m_NumHooks - 1
                                            THEN m_Priorities[j + 1] ELSE m_Priorities[j]]
    PROVE  /\ IsArray(hooks, priorities, m_NumHooks - 1)
           /\ \A h : Among(h, hooks, 0, m_NumHooks - 2)
                     <=> Among(h, m_Hooks, 0, m_NumHooks - 1) /\ h # m_Hooks[i]
           /\ \A c \in 0 .. N : Skipping(hooks, c) /\ StillAhead(hooks, c)
<1> USE ChainConstants
<1>1. PICK n \in 0 .. N : n = m_NumHooks
  BY DEF IsArray
<1>2. n - 1 \in 0 .. N /\ i \in 0 .. n - 1 /\ i \in Place
  BY <1>1
<1>3. /\ \A j \in 0 .. n - 2 : /\ j \in Place /\ j + 1 \in Place /\ j < n - 1 /\ j # n - 1
                              /\ j \in 0 .. n - 1 /\ j + 1 \in 0 .. n - 1
      /\ n - 1 - 1 = n - 2
  BY <1>2
<1>4. \A j \in 0 .. n - 2 :
         /\ i <= j => hooks[j] = m_Hooks[j + 1] /\ priorities[j] = m_Priorities[j + 1]
         /\ ~(i <= j) => hooks[j] = m_Hooks[j] /\ priorities[j] = m_Priorities[j]
  BY <1>1, <1>3 DEF Without
<1>5. /\ hooks \in [Place -> Hooks \cup {NoHook}]
      /\ priorities \in [Place -> Priorities \cup {0}]
  <2>1. \A j \in Place : j < n - 1 => j + 1 \in Place
    BY <1>2
  <2> QED
    BY <1>1, <2>1 DEF Without, IsArray
<1>6. \A j \in n - 1 .. N : hooks[j] = NoHook
  <2> SUFFICES ASSUME NEW j \in n - 1 .. N PROVE hooks[j] = NoHook
    OBVIOUS
  <2>1. j \in Place /\ ~(j < n - 1) /\ (j = n - 1 \/ j \in n .. N)
    BY <1>2
  <2> QED
    BY <1>1, <2>1 DEF Without, IsArray
<1>7. \A j \in 0 .. n - 2 : hooks[j] \in Hooks
  BY <1>1, <1>3, <1>4 DEF IsArray
<1>8. \A j, k \in 0 .. n - 2 : hooks[j] = hooks[k] => j = k
  <2> SUFFICES ASSUME NEW j \in 0 .. n - 2, NEW k \in 0 .. n - 2, j < k, hooks[j] = hooks[k]
               PROVE  FALSE
    OBVIOUS
  <2>1. PICK a \in 0 .. n - 1 : hooks[j] = m_Hooks[a] /\ (a = j \/ (a = j + 1 /\ i <= j))
    BY <1>3, <1>4
  <2>2. PICK b \in 0 .. n - 1 : hooks[k] = m_Hooks[b] /\ ((b = k /\ ~(i <= k)) \/ b = k + 1)
    BY <1>3, <1>4
  <2>3. a # b
    BY <1>2, <2>1, <2>2
  <2> QED
    BY <1>1, <2>1, <2>2, <2>3 DEF IsArray
<1>9. \A j, k \in 0 .. n - 2 : j < k => priorities[j] >= priorities[k]
  <2> SUFFICES ASSUME NEW j \in 0 .. n - 2, NEW k \in 0 .. n - 2, j < k
               PROVE  priorities[j] >= priorities[k]
    OBVIOUS
  <2>1. PICK a \in 0 .. n - 1 : priorities[j] = m_Priorities[a] /\ (a = j \/ (a = j + 1 /\ i <= j))
    BY <1>3, <1>4
  <2>2. PICK b \in 0 .. n - 1 : priorities[k] = m_Priorities[b] /\ ((b = k /\ ~(i <= k)) \/ b = k + 1)
    BY <1>3, <1>4
  <2>3. a < b
    BY <1>2, <2>1, <2>2
  <2> QED
    BY <1>1, <2>1, <2>2, <2>3 DEF IsArray
<1>10. IsArray(hooks, priorities, n - 1)
  BY <1>2, <1>3, <1>5, <1>6, <1>7, <1>8, <1>9 DEF IsArray
<1>11. \A h : Among(h, hooks, 0, n - 2) <=> Among(h, m_Hooks, 0, n - 1) /\ h # m_Hooks[i]
  <2>1. ASSUME NEW j \in 0 .. n - 2
        PROVE  Among(hooks[j], m_Hooks, 0, n - 1) /\ hooks[j] # m_Hooks[i]
    <3>1. PICK a \in 0 .. n - 1 : hooks[j] = m_Hooks[a] /\ ((a = j /\ ~(i <= j)) \/ (a = j + 1 /\ i <= j))
      BY <1>3, <1>4
    <3>2. a # i
      BY <1>2, <3>1
    <3> QED
      BY <1>1, <1>2, <3>1, <3>2 DEF Among, IsArray
  <2>2. ASSUME NEW a \in 0 .. n - 1, m_Hooks[a] # m_Hooks[i]
        PROVE  Among(m_Hooks[a], hooks, 0, n - 2)
    <3>1. CASE a < i
      <4>1. a \in 0 .. n - 2 /\ ~(i <= a)
        BY <1>2, <3>1
      <4> QED
        BY <1>4, <4>1 DEF Among
    <3>2. CASE a > i
      <4>1. a - 1 \in 0 .. n - 2 /\ i <= a - 1 /\ a - 1 + 1 = a
        BY <1>2, <3>2
      <4> QED
        BY <1>4, <4>1 DEF Among
    <3> QED
      BY <1>2, <2>2, <3>1, <3>2
  <2> QED
    BY <2>1, <2>2, ZenonT(30) DEF Among
<1>12. ASSUME NEW c \in 0 .. N PROVE Skipping(hooks, c) /\ StillAhead(hooks, c)
  <2>1. ASSUME NEW j \in 0 .. n - 2, j < c
        PROVE  hooks[j] = m_Hooks[c] \/ Among(hooks[j], m_Hooks, 0, c - 1)
    <3>1. PICK a \in 0 .. n - 1 : hooks[j] = m_Hooks[a] /\ (a = j \/ a = j + 1)
      BY <1>3, <1>4
    <3>2. a = c \/ a \in 0 .. c - 1
      BY <2>1, <3>1
    <3> QED
      BY <3>1, <3>2 DEF Among
  <2>2. ASSUME NEW j \in 0 .. n - 2, c <= j
        PROVE  Among(hooks[j], m_Hooks, c, n - 1)
    <3>1. PICK a \in 0 .. n - 1 : hooks[j] = m_Hooks[a] /\ (a = j \/ a = j + 1)
      BY <1>3, <1>4
    <3>2. a \in c .. n - 1
      BY <2>2, <3>1
    <3> QED
      BY <3>1, <3>2 DEF Among
  <2> QED
    BY <1>1, <2>1, <2>2 DEF Skipping, StillAhead
<1> QED
  BY <1>1, <1>10, <1>11, <1>12

(* The history of the registry without one of its hooks.                    *)
LEMMA Unregistered ==
    ASSUME NEW s \in Seq(Hooks), \A i, j \in 1 .. Len(s) : s[i] = s[j] => i = j,
           NEW h, Among(h, s, 1, Len(s)), NEW t, t = RemoveFirst(s, h)
    PROVE  /\ t \in Seq(Hooks) /\ Len(t) = Len(s) - 1
           /\ \A i, j \in 1 .. Len(t) : t[i] = t[j] => i = j
           /\ \A g : Among(g, t, 1, Len(t)) <=> Among(g, s, 1, Len(s)) /\ g # h
<1>1. PICK n \in Nat : n = Len(s) /\ DOMAIN s = 1 .. n
  OBVIOUS
<1>2. PICK k \in 1 .. n : s[k] = h
  BY <1>1 DEF Among
<1> DEFINE I == {i \in 1 .. n : s[i] = h}
<1>3. I = {k}
  BY <1>1, <1>2
<1>4. Min(I) = k
  BY <1>3 DEF Min
<1>5. t = SubSeq(s, 1, k - 1) \o SubSeq(s, k + 1, n)
  <2>1. SelectInSeq(s, LAMBDA v : v = h) = Min(I)
    BY <1>1, <1>3 DEF SelectInSeq
  <2>2. \E i \in 1 .. Len(s) : s[i] = h
    BY <1>1, <1>2
  <2> QED
    BY <1>1, <1>4, <2>1, <2>2 DEF RemoveFirst, RemoveAt
<1> DEFINE f == SubSeq(s, 1, k - 1)
           g == SubSeq(s, k + 1, n)
<1>6. f \in Seq(Hooks) /\ Len(f) = k - 1 /\ \A i \in 1 .. k - 1 : f[i] = s[i]
  <2>1. 1 \in 1 .. n + 1 /\ k - 1 \in 1 - 1 .. n /\ \A i \in 1 .. k - 1 : 1 + i - 1 = i
    OBVIOUS
  <2> QED
    BY <1>1, <2>1, SubSeqProperties
<1>7. g \in Seq(Hooks) /\ Len(g) = n - k /\ \A i \in 1 .. n - k : g[i] = s[k + i]
  <2>1. k + 1 \in 1 .. n + 1 /\ n \in k + 1 - 1 .. n /\ \A i \in 1 .. n - k : k + 1 + i - 1 = k + i
    OBVIOUS
  <2> QED
    BY <1>1, <2>1, SubSeqProperties
<1> HIDE DEF f, g
<1>8. t = f \o g
  BY <1>5 DEF f, g
<1>9. /\ t \in Seq(Hooks) /\ Len(t) = n - 1
      /\ \A i \in 1 .. n - 1 : t[i] = IF i <= k - 1 THEN f[i] ELSE g[i - (k - 1)]
  <2>1. k - 1 + (n - k) = n - 1 /\ k - 1 \in Nat /\ n - k \in Nat
    OBVIOUS
  <2>2. /\ f \o g \in Seq(Hooks) /\ Len(f \o g) = Len(f) + Len(g)
        /\ \A i \in 1 .. Len(f) + Len(g) : (f \o g)[i] = IF i <= Len(f) THEN f[i] ELSE g[i - Len(f)]
    BY <1>6, <1>7, ConcatProperties, ZenonT(30)
  <2> QED
    BY <1>6, <1>7, <1>8, <2>1, <2>2
<1>10. \A i \in 1 .. n - 1 : t[i] = s[IF i < k THEN i ELSE i + 1]
  <2> SUFFICES ASSUME NEW i \in 1 .. n - 1 PROVE t[i] = s[IF i < k THEN i ELSE i + 1]
    OBVIOUS
  <2>1. CASE i < k
    BY <1>6, <1>9, <2>1
  <2>2. CASE ~(i < k)
    <3>1. ~(i <= k - 1) /\ i - (k - 1) \in 1 .. n - k /\ k + (i - (k - 1)) = i + 1
      BY <2>2
    <3> QED
      BY <1>7, <1>9, <2>2, <3>1
  <2> QED
    BY <2>1, <2>2
<1>11. \A i \in 1 .. n - 1 : \E a \in 1 .. n : t[i] = s[a] /\ a # k /\ ((a = i /\ i < k) \/ (a = i + 1 /\ ~(i < k)))
  <2> SUFFICES ASSUME NEW i \in 1 .. n - 1
               PROVE  \E a \in 1 .. n : t[i] = s[a] /\ a # k /\ ((a = i /\ i < k) \/ (a = i + 1 /\ ~(i < k)))
    OBVIOUS
  <2>1. CASE i < k
    BY <1>10, <2>1
  <2>2. CASE ~(i < k)
    BY <1>10, <2>2
  <2> QED
    BY <2>1, <2>2
<1>12. \A i, j \in 1 .. n - 1 : t[i] = t[j] => i = j
  BY <1>1, <1>11
<1>13. ASSUME NEW x PROVE Among(x, t, 1, n - 1) <=> Among(x, s, 1, n) /\ x # h
  <2>1. ASSUME NEW i \in 1 .. n - 1 PROVE Among(t[i], s, 1, n) /\ t[i] # h
    BY <1>1, <1>2, <1>11 DEF Among
  <2>2. ASSUME NEW a \in 1 .. n, s[a] # h PROVE Among(s[a], t, 1, n - 1)
    <3>1. CASE a < k
      BY <1>10, <3>1 DEF Among
    <3>2. CASE a > k
      <4>1. a - 1 \in 1 .. n - 1 /\ ~(a - 1 < k) /\ a - 1 + 1 = a
        BY <3>2
      <4> QED
        BY <1>10, <4>1 DEF Among
    <3> QED
      BY <1>2, <2>2, <3>1, <3>2
  <2> QED
    BY <2>1, <2>2, SMTT(30) DEF Among
<1> QED
  BY <1>1, <1>9, <1>12, <1>13

LEMMA AppendTo ==
    ASSUME NEW S, NEW s \in Seq(S), NEW e \in S
    PROVE  /\ Append(s, e) \in Seq(S) /\ Len(Append(s, e)) = Len(s) + 1
           /\ \A i \in 1 .. Len(s) : Append(s, e)[i] = s[i]
           /\ Append(s, e)[Len(s) + 1] = e
           /\ ToSet(Append(s, e)) = ToSet(s) \cup {e}
<1>1. /\ Append(s, e) \in Seq(S) /\ Len(Append(s, e)) = Len(s) + 1
      /\ \A i \in 1 .. Len(s) : Append(s, e)[i] = s[i]
      /\ Append(s, e)[Len(s) + 1] = e
  BY AppendProperties
<1>2. PICK n \in Nat : n = Len(s)
  OBVIOUS
<1>3. DOMAIN s = 1 .. n /\ DOMAIN Append(s, e) = 1 .. n + 1
  BY <1>1, <1>2
<1>4. \A i \in 1 .. n + 1 : i \in 1 .. n \/ i = n + 1
  BY <1>2
<1>5. \A i \in 1 .. n : i \in 1 .. n + 1
  BY <1>2
<1>6. n + 1 \in 1 .. n + 1
  BY <1>2
<1>7. ToSet(Append(s, e)) = ToSet(s) \cup {e}
  BY <1>1, <1>2, <1>3, <1>4, <1>5, <1>6 DEF ToSet
<1> QED
  BY <1>1, <1>7

-----------------------------------------------------------------------------
(* A call                                                                  *)

Running == [hook : Hooks, chain : Place, called : BOOLEAN]

CallTypes ==
    /\ stack \in Seq(Running) /\ atStart \in Seq(Hooks) /\ ran \in Seq(Hooks)
    /\ stayed \subseteq Hooks /\ added \in Nat /\ removed \in Nat
    /\ outcome \in {"none", "next", "asked"}

(* Only the hook called last may still call on.                             *)
OneGoesOn == \A i \in 1 .. Len(stack) - 1 : stack[i].called

StayedAreThere == \A h \in stayed : Among(h, m_Hooks, 0, m_NumHooks - 1)

Passed(hooks, c) == {h \in Hooks : Among(h, hooks, 0, c - 1)}
Waiting(hooks, c) == {h \in Hooks : Among(h, hooks, c, N)}

(* What a call has run and passed over that goes on from a place.           *)
OnTheWay(c) ==
    /\ outcome = "none"
    /\ Cardinality((stayed \ ToSet(ran)) \cap Passed(m_Hooks, c)) <= removed
    /\ Len(ran) - Cardinality(ToSet(ran)) + Cardinality(ToSet(ran) \cap Waiting(m_Hooks, c)) <= added
    /\ added = 0 /\ removed = 0 =>
          /\ Len(atStart) = m_NumHooks /\ Len(ran) = c
          /\ \A k \in 1 .. m_NumHooks : atStart[k] = m_Hooks[k - 1]

GoesOn == stack # <<>> /\ ~stack[Len(stack)].called

(* What it has run and passed over, whether or not it goes on.              *)
SoFar ==
    /\ outcome = "next" => Cardinality(stayed \ ToSet(ran)) <= removed
    /\ Len(ran) - Cardinality(ToSet(ran)) <= added
    /\ added = 0 /\ removed = 0 =>
          /\ Len(ran) <= Len(atStart)
          /\ \A i \in 1 .. Len(ran) : ran[i] = atStart[i]
          /\ outcome = "next" => Len(ran) = Len(atStart)

CallInv ==
    /\ CallTypes /\ OneGoesOn /\ StayedAreThere /\ SoFar
    /\ GoesOn => OnTheWay(stack[Len(stack)].chain)

LEMMA Sizes ==
    ASSUME NEW S \in SUBSET Hooks
    PROVE  /\ Cardinality(S) \in Nat
           /\ \A T \in SUBSET S : Cardinality(T) <= Cardinality(S) /\ Cardinality(T) \in Nat
           /\ \A T \in SUBSET Hooks : \A x :
                T \subseteq S \cup {x} => Cardinality(T) <= Cardinality(S) + 1 /\ Cardinality(T) \in Nat
<1>1. IsFiniteSet(S)
  BY ChainConstants, FS_Subset
<1>2. Cardinality(S) \in Nat
  BY <1>1, FS_CardinalityType
<1>3. \A T \in SUBSET S : Cardinality(T) <= Cardinality(S) /\ IsFiniteSet(T)
  BY <1>1, FS_Subset
<1>4. \A T \in SUBSET S : Cardinality(T) \in Nat
  BY <1>3, FS_CardinalityType
<1>5. ASSUME NEW T \in SUBSET Hooks, NEW x, T \subseteq S \cup {x}
      PROVE  Cardinality(T) <= Cardinality(S) + 1 /\ Cardinality(T) \in Nat
  <2>1. /\ IsFiniteSet(S \cup {x})
        /\ Cardinality(S \cup {x}) = IF x \in S THEN Cardinality(S) ELSE Cardinality(S) + 1
    BY <1>1, FS_AddElement
  <2>2. Cardinality(T) <= Cardinality(S \cup {x}) /\ IsFiniteSet(T)
    BY <1>5, <2>1, FS_Subset
  <2>3. Cardinality(T) \in Nat
    BY <2>2, FS_CardinalityType
  <2> QED
    BY <1>2, <2>1, <2>2, <2>3
<1> QED
  BY <1>2, <1>3, <1>4, <1>5

LEMMA SetOf ==
    ASSUME NEW S, NEW s \in Seq(S) PROVE ToSet(s) \subseteq S
BY DEF ToSet

(* A hook is registered.                                                    *)
LEMMA RegisterArray ==
    ASSUME RegistryInv, NEW hook \in Hooks, NEW priority \in Priorities, addHook(hook, priority)
    PROVE  /\ RegistryInv'
           /\ \A h : h = hook \/ Among(h, m_Hooks, 0, m_NumHooks - 1)
                     <=> Among(h, m_Hooks', 0, m_NumHooks' - 1)
           /\ ~Among(hook, m_Hooks, 0, m_NumHooks - 1)
           /\ \A c \in Place : /\ Passed(m_Hooks', c) \subseteq Passed(m_Hooks, c) \cup {hook}
                               /\ \E x : Waiting(m_Hooks', c) \subseteq Waiting(m_Hooks, c) \cup {x}
<1> USE ChainConstants
<1>1. PICK st : st = Swaps(hook, priority)[N]
  OBVIOUS
<1>2. /\ ~findHook(hook) /\ HasRoom /\ m_Hooks' = st.hooks /\ m_Priorities' = st.priorities
      /\ m_NumHooks' = m_NumHooks + 1 /\ registered' = Append(registered, hook)
  BY <1>1 DEF addHook, N
<1>3. /\ IsArray(m_Hooks', m_Priorities', m_NumHooks + 1)
      /\ \A h : h = hook \/ Among(h, m_Hooks, 0, m_NumHooks - 1)
                <=> Among(h, m_Hooks', 0, m_NumHooks)
      /\ Inserted(m_Hooks', hook)
  BY <1>1, <1>2, AddHook DEF RegistryInv
<1>4. PICK n \in 0 .. N : n = m_NumHooks /\ n + 1 \in 0 .. N /\ n + 1 - 1 = n
  BY <1>2 DEF RegistryInv, IsArray, HasRoom, N
<1>5. ~Among(hook, m_Hooks, 0, n - 1)
  BY <1>2, <1>4 DEF findHook, Among
<1>6. /\ registered' \in Seq(Hooks) /\ Len(registered') = n + 1
      /\ \A i \in 1 .. n : registered'[i] = registered[i]
      /\ registered'[n + 1] = hook
  BY <1>2, <1>4, AppendTo DEF RegistryInv
<1>7. \A i \in 1 .. n + 1 : i \in 1 .. n \/ i = n + 1
  BY <1>4
<1>8. \A i \in 1 .. n : registered[i] # hook /\ i \in 1 .. n + 1
  BY <1>4, <1>5 DEF RegistryInv, Among
<1>9. \A i, j \in 1 .. n + 1 : registered'[i] = registered'[j] => i = j
  BY <1>4, <1>6, <1>7, <1>8 DEF RegistryInv
<1>10. \A h : Among(h, registered', 1, n + 1) <=> h = hook \/ Among(h, registered, 1, n)
  BY <1>4, <1>6, <1>7, <1>8 DEF Among
<1>11. RegistryInv'
  <2>1. \A h : Among(h, m_Hooks', 0, n) <=> Among(h, registered', 1, n + 1)
    BY <1>3, <1>4, <1>10 DEF RegistryInv
  <2> QED
    BY <1>2, <1>3, <1>4, <1>6, <1>9, <2>1 DEF RegistryInv
<1>12. ASSUME NEW c \in Place
       PROVE  /\ Passed(m_Hooks', c) \subseteq Passed(m_Hooks, c) \cup {hook}
              /\ \E x : Waiting(m_Hooks', c) \subseteq Waiting(m_Hooks, c) \cup {x}
  <2>1. BeforeOrNew(m_Hooks', hook, c) /\ OneFromBefore(m_Hooks', c)
    BY <1>3 DEF Inserted
  <2>2. \A i \in n + 1 .. N : m_Hooks'[i] \notin Hooks
    BY <1>3, <1>4 DEF IsArray
  <2>3. Passed(m_Hooks', c) \subseteq Passed(m_Hooks, c) \cup {hook}
    <3> SUFFICES ASSUME NEW i \in 0 .. c - 1, m_Hooks'[i] \in Hooks, m_Hooks'[i] # hook
                 PROVE  Among(m_Hooks'[i], m_Hooks, 0, c - 1)
      BY DEF Passed, Among
    <3>1. i \in 0 .. n
      BY <1>4, <2>2
    <3> QED
      BY <1>4, <2>1, <3>1 DEF BeforeOrNew
  <2>4. PICK x : \A i \in 0 .. n : c <= i => m_Hooks'[i] = x \/ Among(m_Hooks'[i], m_Hooks, c, n - 1)
    BY <1>4, <2>1 DEF OneFromBefore
  <2>5. Waiting(m_Hooks', c) \subseteq Waiting(m_Hooks, c) \cup {x}
    <3> SUFFICES ASSUME NEW i \in c .. N, m_Hooks'[i] \in Hooks, m_Hooks'[i] # x
                 PROVE  Among(m_Hooks'[i], m_Hooks, c, N)
      BY DEF Waiting, Among
    <3>1. i \in 0 .. n /\ c <= i
      BY <1>4, <2>2
    <3>2. \A j \in c .. n - 1 : j \in c .. N
      BY <1>4
    <3> QED
      BY <2>4, <3>1, <3>2 DEF Among
  <2> QED
    BY <2>3, <2>5
<1> QED
  BY <1>2, <1>3, <1>4, <1>5, <1>11, <1>12, SMTT(30)

LEMMA UnregisterArray ==
    ASSUME RegistryInv, NEW hook \in Hooks, removeHook(hook)
    PROVE  /\ RegistryInv'
           /\ \A h : Among(h, m_Hooks', 0, m_NumHooks' - 1)
                     <=> Among(h, m_Hooks, 0, m_NumHooks - 1) /\ h # hook
           /\ \A c \in Place : /\ \E x : Passed(m_Hooks', c) \subseteq Passed(m_Hooks, c) \cup {x}
                               /\ Waiting(m_Hooks', c) \subseteq Waiting(m_Hooks, c)
<1> USE ChainConstants
<1>1. PICK p \in 0 .. m_NumHooks - 1 :
        /\ m_Hooks[p] = hook
        /\ m_NumHooks' = m_NumHooks - 1
        /\ m_Hooks' = Without(m_Hooks, p, m_NumHooks - 1)
        /\ m_Priorities' = [j \in Place |-> IF p <= j /\ j < m_NumHooks - 1
                                            THEN m_Priorities[j + 1] ELSE m_Priorities[j]]
        /\ registered' = RemoveFirst(registered, hook)
  BY DEF removeHook
<1>2. /\ IsArray(m_Hooks', m_Priorities', m_NumHooks - 1)
      /\ \A h : Among(h, m_Hooks', 0, m_NumHooks - 2)
                <=> Among(h, m_Hooks, 0, m_NumHooks - 1) /\ h # hook
      /\ \A c \in 0 .. N : Skipping(m_Hooks', c) /\ StillAhead(m_Hooks', c)
  BY <1>1, RemoveHook DEF RegistryInv
<1>3. PICK n \in 0 .. N : n = m_NumHooks /\ n - 1 \in 0 .. N /\ n - 1 - 1 = n - 2 /\ Len(registered) = n
  BY <1>1 DEF RegistryInv, IsArray
<1>4. Among(hook, registered, 1, n)
  BY <1>1, <1>3 DEF RegistryInv, Among
<1>5. /\ registered' \in Seq(Hooks) /\ Len(registered') = n - 1
      /\ \A i, j \in 1 .. Len(registered') : registered'[i] = registered'[j] => i = j
      /\ \A g : Among(g, registered', 1, Len(registered')) <=> Among(g, registered, 1, n) /\ g # hook
  BY <1>1, <1>3, <1>4, Unregistered, SMTT(30) DEF RegistryInv
<1>6. RegistryInv'
  <2>1. \A h : Among(h, m_Hooks', 0, n - 2) <=> Among(h, registered', 1, Len(registered'))
    BY <1>2, <1>3, <1>5 DEF RegistryInv
  <2> QED
    BY <1>1, <1>2, <1>3, <1>5, <2>1 DEF RegistryInv
<1>7. ASSUME NEW c \in Place
      PROVE  /\ \E x : Passed(m_Hooks', c) \subseteq Passed(m_Hooks, c) \cup {x}
             /\ Waiting(m_Hooks', c) \subseteq Waiting(m_Hooks, c)
  <2>1. Skipping(m_Hooks', c) /\ StillAhead(m_Hooks', c)
    BY <1>2
  <2>2. \A i \in 0 .. N : m_Hooks'[i] \in Hooks => i \in 0 .. n - 2
    <3> SUFFICES ASSUME NEW i \in 0 .. N, m_Hooks'[i] \in Hooks, i \notin 0 .. n - 2 PROVE FALSE
      OBVIOUS
    <3>1. i \in n - 1 .. N
      BY <1>3
    <3> QED
      BY <1>2, <1>3, <3>1 DEF IsArray
  <2>3. PICK x : \A j \in 0 .. n - 2 : j < c => m_Hooks'[j] = x \/ Among(m_Hooks'[j], m_Hooks, 0, c - 1)
    BY <1>3, <2>1 DEF Skipping
  <2>4. Passed(m_Hooks', c) \subseteq Passed(m_Hooks, c) \cup {x}
    <3> SUFFICES ASSUME NEW i \in 0 .. c - 1, m_Hooks'[i] \in Hooks, m_Hooks'[i] # x
                 PROVE  Among(m_Hooks'[i], m_Hooks, 0, c - 1)
      BY DEF Passed, Among
    <3>1. i \in 0 .. n - 2 /\ i < c
      BY <2>2
    <3> QED
      BY <2>3, <3>1
  <2>5. Waiting(m_Hooks', c) \subseteq Waiting(m_Hooks, c)
    <3> SUFFICES ASSUME NEW i \in c .. N, m_Hooks'[i] \in Hooks
                 PROVE  Among(m_Hooks'[i], m_Hooks, c, N)
      BY DEF Waiting, Among
    <3>1. i \in 0 .. n - 2 /\ c <= i
      BY <2>2
    <3>2. \A j \in c .. n - 1 : j \in c .. N
      BY <1>3
    <3>3. Among(m_Hooks'[i], m_Hooks, c, n - 1)
      BY <1>3, <2>1, <3>1 DEF StillAhead
    <3> QED
      BY <3>2, <3>3 DEF Among
  <2> QED
    BY <2>4, <2>5
<1> QED
  BY <1>1, <1>2, <1>3, <1>6, <1>7

-----------------------------------------------------------------------------
(* The steps                                                               *)

(* How many hooks a call has run twice or may, and how many it passed over. *)
LEMMA Counts ==
    ASSUME CallTypes
    PROVE  /\ Len(ran) \in Nat /\ Len(atStart) \in Nat /\ Len(stack) \in Nat
           /\ ToSet(ran) \in SUBSET Hooks
           /\ Cardinality(ToSet(ran)) \in Nat
           /\ stayed \ ToSet(ran) \in SUBSET Hooks
           /\ \A c : /\ Passed(m_Hooks, c) \in SUBSET Hooks /\ Waiting(m_Hooks, c) \in SUBSET Hooks
                     /\ Cardinality((stayed \ ToSet(ran)) \cap Passed(m_Hooks, c)) \in Nat
                     /\ Cardinality(ToSet(ran) \cap Waiting(m_Hooks, c)) \in Nat
<1>1. ToSet(ran) \in SUBSET Hooks
  BY SetOf DEF CallTypes
<1>2. stayed \ ToSet(ran) \in SUBSET Hooks
  BY DEF CallTypes
<1>3. Cardinality(ToSet(ran)) \in Nat
  BY <1>1, Sizes
<1>4. ASSUME NEW c
      PROVE  /\ Passed(m_Hooks, c) \in SUBSET Hooks /\ Waiting(m_Hooks, c) \in SUBSET Hooks
             /\ Cardinality((stayed \ ToSet(ran)) \cap Passed(m_Hooks, c)) \in Nat
             /\ Cardinality(ToSet(ran) \cap Waiting(m_Hooks, c)) \in Nat
  <2>1. Passed(m_Hooks, c) \in SUBSET Hooks /\ Waiting(m_Hooks, c) \in SUBSET Hooks
    BY DEF Passed, Waiting
  <2>2. (stayed \ ToSet(ran)) \cap Passed(m_Hooks, c) \in SUBSET Hooks
    BY <2>1
  <2>3. ToSet(ran) \cap Waiting(m_Hooks, c) \in SUBSET Hooks
    BY <2>1
  <2> QED
    BY <2>1, <2>2, <2>3, Sizes
<1>5. Len(ran) \in Nat /\ Len(atStart) \in Nat /\ Len(stack) \in Nat
  BY LenProperties DEF CallTypes
<1> QED
  BY <1>1, <1>2, <1>3, <1>4, <1>5

(* The place a running hook goes on from is one of the array.               *)
LEMMA GoesOnFrom ==
    ASSUME CallTypes, stack # <<>>
    PROVE  /\ Len(stack) \in Nat \ {0} /\ Len(stack) \in 1 .. Len(stack)
           /\ stack[Len(stack)] \in Running /\ stack[Len(stack)].chain \in Place
<1>1. Len(stack) \in Nat \ {0}
  BY EmptySeq DEF CallTypes
<1>2. stack[Len(stack)] \in Running
  BY <1>1, ElementOfSeq DEF CallTypes
<1> QED
  BY <1>1, <1>2 DEF Running

LEMMA RegisterKeeps ==
    ASSUME RegistryInv, CallInv, NEW hook \in Hooks, NEW priority \in Priorities,
           registerHook(hook, priority)
    PROVE  RegistryInv' /\ CallInv'
<1>1. /\ addHook(hook, priority)
      /\ stack' = stack /\ atStart' = atStart /\ ran' = ran /\ outcome' = outcome
      /\ stayed' = stayed /\ removed' = removed
      /\ IF stack = <<>> THEN added' = added ELSE added' = added + 1
  BY DEF registerHook, call
<1>2. /\ RegistryInv'
      /\ \A h : h = hook \/ Among(h, m_Hooks, 0, m_NumHooks - 1)
                <=> Among(h, m_Hooks', 0, m_NumHooks' - 1)
      /\ ~Among(hook, m_Hooks, 0, m_NumHooks - 1)
      /\ \A c \in Place : /\ Passed(m_Hooks', c) \subseteq Passed(m_Hooks, c) \cup {hook}
                          /\ \E x : Waiting(m_Hooks', c) \subseteq Waiting(m_Hooks, c) \cup {x}
  BY <1>1, RegisterArray
<1>3. CallTypes /\ OneGoesOn /\ StayedAreThere /\ SoFar
  BY DEF CallInv
<1>4. CallTypes'
  BY <1>1, <1>3 DEF CallTypes
<1>5. OneGoesOn'
  BY <1>1, <1>3 DEF OneGoesOn
<1>6. StayedAreThere'
  BY <1>1, <1>2, <1>3 DEF StayedAreThere
<1>7. SoFar'
  <2>1. added \in Nat /\ added' \in Nat /\ added <= added' /\ (added' = 0 => added = 0)
    BY <1>1, <1>3 DEF CallTypes
  <2>2. Len(ran) \in Nat /\ Cardinality(ToSet(ran)) \in Nat
    BY <1>3, Counts
  <2>3. Len(ran) - Cardinality(ToSet(ran)) <= added'
    BY <1>3, <2>1, <2>2 DEF SoFar
  <2> QED
    BY <1>1, <1>3, <2>1, <2>3 DEF SoFar
<1>8. ASSUME GoesOn' PROVE OnTheWay(stack[Len(stack)].chain)'
  <2>1. GoesOn /\ stack # <<>> /\ added' = added + 1
    BY <1>1, <1>8 DEF GoesOn
  <2>2. PICK c \in Place : c = stack[Len(stack)].chain
    BY <1>3, <2>1, GoesOnFrom
  <2>3. OnTheWay(c)
    BY <2>1, <2>2 DEF CallInv
  <2>4. PICK x : Waiting(m_Hooks', c) \subseteq Waiting(m_Hooks, c) \cup {x}
    BY <1>2
  <2>5. hook \notin stayed
    BY <1>2, <1>3 DEF StayedAreThere
  <2> DEFINE P == (stayed \ ToSet(ran)) \cap Passed(m_Hooks, c)
             P1 == (stayed \ ToSet(ran)) \cap Passed(m_Hooks', c)
             W == ToSet(ran) \cap Waiting(m_Hooks, c)
             W1 == ToSet(ran) \cap Waiting(m_Hooks', c)
  <2>6. P \in SUBSET Hooks /\ P1 \in SUBSET P
    BY <1>2, <1>3, <2>5 DEF CallTypes
  <2>7. W \in SUBSET Hooks /\ W1 \in SUBSET Hooks /\ W1 \subseteq W \cup {x}
    BY <1>3, <2>4, Counts
  <2>8. /\ Cardinality(P) \in Nat /\ Cardinality(P1) \in Nat /\ Cardinality(P1) <= Cardinality(P)
        /\ Cardinality(W) \in Nat /\ Cardinality(W1) \in Nat /\ Cardinality(W1) <= Cardinality(W) + 1
    BY <2>6, <2>7, Sizes
  <2>9. /\ outcome = "none" /\ Cardinality(P) <= removed
        /\ Len(ran) - Cardinality(ToSet(ran)) + Cardinality(W) <= added
    BY <2>3 DEF OnTheWay
  <2>10. added \in Nat /\ removed \in Nat /\ Len(ran) \in Nat /\ Cardinality(ToSet(ran)) \in Nat
    BY <1>3, Counts DEF CallTypes
  <2> HIDE DEF P, P1, W, W1
  <2>11. /\ Cardinality(P1) <= removed
         /\ Len(ran) - Cardinality(ToSet(ran)) + Cardinality(W1) <= added'
         /\ added' # 0
    BY <2>1, <2>8, <2>9, <2>10
  <2> QED
    BY <1>1, <2>2, <2>9, <2>11 DEF OnTheWay, P1, W1
<1> QED
  BY <1>2, <1>4, <1>5, <1>6, <1>7, <1>8 DEF CallInv

LEMMA UnregisterKeeps ==
    ASSUME RegistryInv, CallInv, NEW hook \in Hooks, unregisterHook(hook)
    PROVE  RegistryInv' /\ CallInv'
<1>1. /\ removeHook(hook)
      /\ stack' = stack /\ atStart' = atStart /\ ran' = ran /\ outcome' = outcome
      /\ stayed' = stayed \ {hook} /\ added' = added
      /\ IF stack = <<>> THEN removed' = removed ELSE removed' = removed + 1
  BY DEF unregisterHook, call
<1>2. /\ RegistryInv'
      /\ \A h : Among(h, m_Hooks', 0, m_NumHooks' - 1)
                <=> Among(h, m_Hooks, 0, m_NumHooks - 1) /\ h # hook
      /\ \A c \in Place : /\ \E x : Passed(m_Hooks', c) \subseteq Passed(m_Hooks, c) \cup {x}
                          /\ Waiting(m_Hooks', c) \subseteq Waiting(m_Hooks, c)
  BY <1>1, UnregisterArray
<1>3. CallTypes /\ OneGoesOn /\ StayedAreThere /\ SoFar
  BY DEF CallInv
<1>4. CallTypes'
  BY <1>1, <1>3 DEF CallTypes
<1>5. OneGoesOn'
  BY <1>1, <1>3 DEF OneGoesOn
<1>6. StayedAreThere'
  BY <1>1, <1>2, <1>3 DEF StayedAreThere
<1>7. removed \in Nat /\ removed' \in Nat /\ removed <= removed' /\ (removed' = 0 => removed = 0)
  BY <1>1, <1>3 DEF CallTypes
<1>8. stayed' \ ToSet(ran) \in SUBSET (stayed \ ToSet(ran)) /\ stayed \ ToSet(ran) \in SUBSET Hooks
  BY <1>1, <1>3 DEF CallTypes
<1>9. SoFar'
  <2>1. /\ Cardinality(stayed \ ToSet(ran)) \in Nat /\ Cardinality(stayed' \ ToSet(ran)) \in Nat
        /\ Cardinality(stayed' \ ToSet(ran)) <= Cardinality(stayed \ ToSet(ran))
    BY <1>8, Sizes
  <2>2. outcome = "next" => Cardinality(stayed' \ ToSet(ran)) <= removed'
    BY <1>3, <1>7, <2>1 DEF SoFar
  <2> QED
    BY <1>1, <1>3, <1>7, <2>2 DEF SoFar
<1>10. ASSUME GoesOn' PROVE OnTheWay(stack[Len(stack)].chain)'
  <2>1. GoesOn /\ stack # <<>> /\ removed' = removed + 1
    BY <1>1, <1>10 DEF GoesOn
  <2>2. PICK c \in Place : c = stack[Len(stack)].chain
    BY <1>3, <2>1, GoesOnFrom
  <2>3. OnTheWay(c)
    BY <2>1, <2>2 DEF CallInv
  <2>4. PICK x : Passed(m_Hooks', c) \subseteq Passed(m_Hooks, c) \cup {x}
    BY <1>2
  <2> DEFINE P == (stayed \ ToSet(ran)) \cap Passed(m_Hooks, c)
             P1 == (stayed' \ ToSet(ran)) \cap Passed(m_Hooks', c)
             W == ToSet(ran) \cap Waiting(m_Hooks, c)
             W1 == ToSet(ran) \cap Waiting(m_Hooks', c)
  <2>6. P \in SUBSET Hooks /\ P1 \in SUBSET Hooks /\ P1 \subseteq P \cup {x}
    BY <1>8, <2>4
  <2>7. W \in SUBSET Hooks /\ W1 \in SUBSET W
    BY <1>2, <1>3, Counts
  <2>8. /\ Cardinality(P) \in Nat /\ Cardinality(P1) \in Nat /\ Cardinality(P1) <= Cardinality(P) + 1
        /\ Cardinality(W) \in Nat /\ Cardinality(W1) \in Nat /\ Cardinality(W1) <= Cardinality(W)
    BY <2>6, <2>7, Sizes
  <2>9. /\ outcome = "none" /\ Cardinality(P) <= removed
        /\ Len(ran) - Cardinality(ToSet(ran)) + Cardinality(W) <= added
    BY <2>3 DEF OnTheWay
  <2>10. added \in Nat /\ removed \in Nat /\ Len(ran) \in Nat /\ Cardinality(ToSet(ran)) \in Nat
    BY <1>3, Counts DEF CallTypes
  <2> HIDE DEF P, P1, W, W1
  <2>11. /\ Cardinality(P1) <= removed'
         /\ Len(ran) - Cardinality(ToSet(ran)) + Cardinality(W1) <= added
         /\ removed' # 0
    BY <2>1, <2>8, <2>9, <2>10
  <2> QED
    BY <1>1, <2>2, <2>9, <2>11 DEF OnTheWay, P1, W1
<1> QED
  BY <1>2, <1>4, <1>5, <1>6, <1>9, <1>10 DEF CallInv

(* The places that hold a hook are those before the last one.               *)
LEMMA HeldPlaces ==
    ASSUME RegistryInv
    PROVE  /\ m_NumHooks \in 0 .. N
           /\ \A c \in Place : m_Hooks[c] # NoHook <=> c < m_NumHooks
           /\ \A c \in 0 .. m_NumHooks - 1 : m_Hooks[c] \in Hooks /\ c \in Place /\ c + 1 \in Place
           /\ \A c, d \in 0 .. m_NumHooks - 1 : m_Hooks[c] = m_Hooks[d] => c = d
<1> USE ChainConstants
<1>1. PICK n \in 0 .. N : n = m_NumHooks
  BY DEF RegistryInv, IsArray
<1>2. \A c \in 0 .. n - 1 : m_Hooks[c] \in Hooks /\ m_Hooks[c] # NoHook /\ c \in Place /\ c + 1 \in Place
  BY <1>1 DEF RegistryInv, IsArray
<1>3. \A c \in Place : c < n \/ c \in n .. N
  BY <1>1
<1>4. \A c \in Place : c < n => c \in 0 .. n - 1
  BY <1>1
<1>5. \A c \in Place : m_Hooks[c] # NoHook <=> c < n
  BY <1>1, <1>2, <1>3, <1>4 DEF RegistryInv, IsArray
<1> QED
  BY <1>1, <1>2, <1>5 DEF RegistryInv, IsArray

(* A call of the chain begins.                                              *)
LEMMA CallChainKeeps ==
    ASSUME RegistryInv, CallInv, callChain
    PROVE  RegistryInv' /\ CallInv'
<1> USE ChainConstants
<1>1. /\ UNCHANGED <<registry, registered>> /\ stack = <<>>
      /\ atStart' = [k \in 1 .. m_NumHooks |-> m_Hooks[k - 1]]
      /\ stayed' = {m_Hooks[i] : i \in 0 .. m_NumHooks - 1}
      /\ added' = 0 /\ removed' = 0
      /\ IF m_Hooks[0] # NoHook
         THEN stack' = <<Push(0)>> /\ ran' = <<m_Hooks[0]>> /\ outcome' = "none"
         ELSE stack' = <<>> /\ ran' = <<>> /\ outcome' = "next"
  BY DEF callChain
<1>2. RegistryInv'
  BY <1>1 DEF RegistryInv, registry
<1>3. PICK n \in 0 .. N : n = m_NumHooks
  BY HeldPlaces
<1>4. /\ \A c \in Place : m_Hooks[c] # NoHook <=> c < n
      /\ \A c \in 0 .. n - 1 : m_Hooks[c] \in Hooks /\ c \in Place /\ c + 1 \in Place
      /\ \A c, d \in 0 .. n - 1 : m_Hooks[c] = m_Hooks[d] => c = d
  BY <1>3, HeldPlaces
<1>5. /\ atStart' \in Seq(Hooks) /\ Len(atStart') = n
      /\ \A k \in 1 .. n : atStart'[k] = m_Hooks[k - 1]
  <2>1. \A k \in 1 .. n : k - 1 \in 0 .. n - 1
    OBVIOUS
  <2>2. atStart' \in [1 .. n -> Hooks]
    BY <1>1, <1>3, <1>4, <2>1
  <2> QED
    BY <1>1, <1>3, <2>2
<1>6. stayed' \subseteq Hooks /\ StayedAreThere'
  BY <1>1, <1>3, <1>4 DEF StayedAreThere, Among, registry
<1>7. CASE m_Hooks[0] = NoHook
  <2>1. n = 0 /\ stayed' = {} /\ stack' = <<>> /\ ran' = <<>> /\ outcome' = "next"
    <3>1. 0 \in Place /\ ~(0 < n)
      BY <1>4, <1>7
    <3>2. n = 0 /\ 0 .. n - 1 = {}
      BY <3>1
    <3> QED
      BY <1>1, <1>3, <1>7, <3>2
  <2>2. CallTypes' /\ OneGoesOn'
    BY <1>1, <1>5, <1>6, <2>1, EmptySeq DEF CallTypes, OneGoesOn
  <2>3. ToSet(ran') = {} /\ Len(ran') = 0
    BY <2>1 DEF ToSet
  <2>4. Cardinality({}) = 0 /\ stayed' \ ToSet(ran') = {}
    BY <2>1, FS_EmptySet
  <2>5. SoFar'
    <3>1. Cardinality(stayed' \ ToSet(ran')) = 0 /\ Cardinality(ToSet(ran')) = 0
      BY <2>3, <2>4
    <3>2. \A i \in 1 .. Len(ran') : ran'[i] = atStart'[i]
      BY <2>3
    <3>3. Len(ran') = 0 /\ Len(atStart') = 0 /\ added' = 0 /\ removed' = 0
      BY <1>1, <1>5, <2>1, <2>3
    <3> QED
      BY <3>1, <3>2, <3>3 DEF SoFar
  <2>6. ~GoesOn'
    BY <2>1 DEF GoesOn
  <2> QED
    BY <1>2, <1>6, <2>2, <2>5, <2>6 DEF CallInv
<1>8. CASE m_Hooks[0] # NoHook
  <2>1. /\ 0 < n /\ m_Hooks[0] \in Hooks /\ 0 \in 0 .. n - 1 /\ 1 \in Place
        /\ stack' = <<Push(0)>> /\ ran' = <<m_Hooks[0]>> /\ outcome' = "none"
    <3>1. 0 \in Place
      OBVIOUS
    <3>2. 0 < n /\ 0 \in 0 .. n - 1
      BY <1>4, <1>8, <3>1
    <3> QED
      BY <1>1, <1>4, <1>8, <3>2
  <2>2. /\ Push(0) \in Running /\ Push(0).chain = 1
        /\ stack' \in Seq(Running) /\ Len(stack') = 1 /\ stack'[1] = Push(0) /\ stack' # <<>>
    BY <2>1 DEF Push, Running
  <2>3. ran' \in Seq(Hooks) /\ Len(ran') = 1 /\ ran'[1] = m_Hooks[0] /\ ToSet(ran') = {m_Hooks[0]}
    BY <2>1 DEF ToSet
  <2>4. CallTypes'
    BY <1>1, <1>5, <1>6, <2>1, <2>2, <2>3 DEF CallTypes
  <2>5. OneGoesOn'
    BY <2>2 DEF OneGoesOn
  <2>6. m_Hooks' = m_Hooks /\ m_NumHooks' = m_NumHooks
    BY <1>1 DEF registry
  <2>7. (stayed' \ ToSet(ran')) \cap Passed(m_Hooks', 1) = {}
    <3>1. Passed(m_Hooks', 1) \subseteq {m_Hooks[0]}
      BY <2>6 DEF Passed, Among
    <3> QED
      BY <2>3, <3>1
  <2>8. ToSet(ran') \cap Waiting(m_Hooks', 1) = {}
    <3> SUFFICES ASSUME NEW i \in 1 .. N, m_Hooks[i] = m_Hooks[0] PROVE FALSE
      BY <2>3, <2>6 DEF Waiting, Among
    <3>1. i \in Place /\ i # 0
      OBVIOUS
    <3>2. i < n
      BY <1>4, <1>8, <3>1
    <3>3. i \in 0 .. n - 1
      BY <3>1, <3>2
    <3> QED
      BY <1>4, <2>1, <3>1, <3>3
  <2>9. Cardinality({}) = 0 /\ Cardinality(ToSet(ran')) = 1
    BY <2>3, FS_EmptySet, FS_Singleton
  <2>10. OnTheWay(1)'
    <3>1. /\ Cardinality((stayed' \ ToSet(ran')) \cap Passed(m_Hooks', 1)) = 0
          /\ Cardinality(ToSet(ran') \cap Waiting(m_Hooks', 1)) = 0
          /\ Cardinality(ToSet(ran')) = 1
      BY <2>7, <2>8, <2>9
    <3>2. /\ outcome' = "none" /\ added' = 0 /\ removed' = 0
          /\ Len(ran') = 1 /\ Len(atStart') = m_NumHooks'
      BY <1>1, <1>3, <1>5, <2>1, <2>3, <2>6
    <3>3. \A k \in 1 .. m_NumHooks' : atStart'[k] = m_Hooks'[k - 1]
      BY <1>3, <1>5, <2>6
    <3> QED
      BY <3>1, <3>2, <3>3 DEF OnTheWay
  <2>11. SoFar'
    <3>1. ran'[1] = atStart'[1] /\ 1 <= n
      BY <1>5, <2>1, <2>3
    <3>2. \A i \in 1 .. Len(ran') : ran'[i] = atStart'[i]
      BY <2>3, <3>1
    <3>3. /\ outcome' = "none" /\ added' = 0 /\ removed' = 0
          /\ Len(ran') = 1 /\ Len(ran') <= Len(atStart') /\ Cardinality(ToSet(ran')) = 1
      BY <1>1, <1>5, <2>1, <2>3, <2>9, <3>1
    <3> QED
      BY <3>2, <3>3 DEF SoFar
  <2>12. stack'[Len(stack')].chain = 1
    BY <2>2
  <2>13. OnTheWay(stack[Len(stack)].chain)'
    BY <2>10, <2>12
  <2> QED
    BY <1>2, <1>6, <2>4, <2>5, <2>11, <2>13 DEF CallInv
<1> QED
  BY <1>7, <1>8

(* A hook that runs has called on.                                          *)
LEMMA CalledIs ==
    ASSUME CallTypes, OneGoesOn, stack # <<>>
    PROVE  /\ Called \in Seq(Running) /\ Len(Called) = Len(stack)
           /\ \A i \in 1 .. Len(stack) : Called[i].called
<1>1. PICK n \in Nat \ {0} : n = Len(stack)
  BY GoesOnFrom
<1>2. stack \in Seq(Running) /\ stack[n] \in Running /\ n \in 1 .. n
  BY <1>1, GoesOnFrom DEF CallTypes
<1> DEFINE e == [stack[n] EXCEPT !.called = TRUE]
<1>3. e \in Running /\ e.called
  BY <1>2 DEF Running
<1>4. Called = [stack EXCEPT ![n] = e]
  BY <1>1 DEF Called
<1> HIDE DEF e
<1>5. /\ Called \in Seq(Running) /\ Len(Called) = n
      /\ \A j \in 1 .. n : Called[j] = IF j = n THEN e ELSE stack[j]
  BY <1>1, <1>2, <1>3, <1>4, ExceptSeq
<1>6. \A j \in 1 .. n : j # n => j \in 1 .. n - 1
  OBVIOUS
<1> QED
  BY <1>1, <1>3, <1>5, <1>6 DEF OneGoesOn

(* The hook that runs calls the next one.                                   *)
LEMMA CallOn ==
    ASSUME RegistryInv, CallInv, callNext, m_Hooks[Top.chain] # NoHook
    PROVE  CallInv'
<1> USE ChainConstants
<1>1. CallTypes /\ OneGoesOn /\ StayedAreThere /\ SoFar
  BY DEF CallInv
<1>2. stack # <<>> /\ GoesOn /\ Top = stack[Len(stack)]
  BY DEF callNext, GoesOn, Top, Last
<1>3. PICK c \in Place : c = Top.chain /\ c = stack[Len(stack)].chain
  BY <1>1, <1>2, GoesOnFrom
<1>4. PICK h : h = m_Hooks[c]
  OBVIOUS
<1>5. /\ stack' = Append(Called, Push(c)) /\ ran' = Append(ran, h)
      /\ outcome' = outcome /\ atStart' = atStart /\ stayed' = stayed
      /\ added' = added /\ removed' = removed
      /\ m_Hooks' = m_Hooks /\ m_NumHooks' = m_NumHooks
  BY <1>3, <1>4 DEF callNext, registry
<1>6. PICK n \in 0 .. N : n = m_NumHooks
  BY HeldPlaces
<1>7. c \in 0 .. n - 1 /\ h \in Hooks /\ c + 1 \in Place
  BY <1>3, <1>4, <1>6, HeldPlaces
<1>8. \A i \in c + 1 .. N : m_Hooks[i] # h
  <2> SUFFICES ASSUME NEW i \in c + 1 .. N, m_Hooks[i] = h PROVE FALSE
    OBVIOUS
  <2>1. i \in Place /\ m_Hooks[i] # NoHook
    BY <1>7
  <2>2. i \in 0 .. n - 1
    BY <1>6, <2>1, HeldPlaces
  <2>3. i = c
    BY <1>4, <1>6, <1>7, <2>2, HeldPlaces
  <2> QED
    BY <2>3
<1>9. PICK l \in Nat : l = Len(stack)
  BY <1>1, GoesOnFrom, <1>2
<1>10. Push(c) \in Running /\ Push(c).chain = c + 1
  BY <1>4, <1>7 DEF Push, Running
<1>11. /\ Called \in Seq(Running) /\ Len(Called) = l
       /\ \A i \in 1 .. l : Called[i].called
  BY <1>1, <1>2, <1>9, CalledIs
<1>12. /\ stack' \in Seq(Running) /\ Len(stack') = l + 1 /\ stack'[l + 1] = Push(c)
       /\ \A i \in 1 .. l : stack'[i] = Called[i]
  BY <1>5, <1>10, <1>11, AppendTo
<1>13. PICK r \in Nat : r = Len(ran)
  BY <1>1, Counts
<1>14. /\ ran' \in Seq(Hooks) /\ Len(ran') = r + 1 /\ ran'[r + 1] = h
       /\ \A i \in 1 .. r : ran'[i] = ran[i]
       /\ ToSet(ran') = ToSet(ran) \cup {h}
  BY <1>1, <1>5, <1>7, <1>13, AppendTo DEF CallTypes
<1>15. CallTypes'
  BY <1>1, <1>5, <1>12, <1>14 DEF CallTypes
<1>16. OneGoesOn'
  BY <1>11, <1>12 DEF OneGoesOn
<1>17. StayedAreThere'
  BY <1>1, <1>5 DEF StayedAreThere
<1>18. OnTheWay(c)
  BY <1>2, <1>3 DEF CallInv
<1> DEFINE R == ToSet(ran)
           P == (stayed \ R) \cap Passed(m_Hooks, c)
           P1 == (stayed \ ToSet(ran')) \cap Passed(m_Hooks, c + 1)
           W == R \cap Waiting(m_Hooks, c)
           W1 == ToSet(ran') \cap Waiting(m_Hooks, c + 1)
<1>19. /\ R \in SUBSET Hooks /\ Cardinality(R) \in Nat /\ Cardinality(W) \in Nat
       /\ added \in Nat /\ removed \in Nat
  BY <1>1, Counts DEF CallTypes
<1>20. P \in SUBSET Hooks /\ P1 \in SUBSET P
  <2>1. \A i \in 0 .. c + 1 - 1 : i \in 0 .. c - 1 \/ i = c
    BY <1>7
  <2>2. Passed(m_Hooks, c + 1) \subseteq Passed(m_Hooks, c) \cup {h}
    BY <1>4, <2>1 DEF Passed, Among
  <2> QED
    BY <1>14, <2>2 DEF Passed
<1>21. W \in SUBSET Hooks /\ W1 \in SUBSET (W \ {h})
  <2>1. \A i \in c + 1 .. N : i \in c .. N
    BY <1>7
  <2>2. Waiting(m_Hooks, c + 1) \subseteq Waiting(m_Hooks, c)
    BY <2>1 DEF Waiting, Among
  <2>3. h \notin Waiting(m_Hooks, c + 1)
    BY <1>8 DEF Waiting, Among
  <2> QED
    BY <1>14, <2>2, <2>3 DEF Waiting
<1>22. h \in Waiting(m_Hooks, c)
  <2>1. c \in c .. N
    BY <1>7
  <2> QED
    BY <1>4, <1>7, <2>1 DEF Waiting, Among
<1>23. Cardinality(P1) <= removed /\ outcome = "none"
  <2>1. Cardinality(P) \in Nat /\ Cardinality(P1) \in Nat /\ Cardinality(P1) <= Cardinality(P)
    BY <1>20, Sizes
  <2>2. Cardinality(P) <= removed /\ outcome = "none"
    BY <1>18 DEF OnTheWay
  <2> HIDE DEF P, P1
  <2> QED
    BY <1>19, <2>1, <2>2
<1>24. r - Cardinality(R) + Cardinality(W) <= added
  BY <1>13, <1>18 DEF OnTheWay
<1>25. IsFiniteSet(R) /\ IsFiniteSet(W)
  BY <1>19, <1>21, ChainConstants, FS_Subset
<1>26. /\ Cardinality(ToSet(ran')) \in Nat /\ Cardinality(W1) \in Nat
       /\ r + 1 - Cardinality(ToSet(ran')) + Cardinality(W1) <= added
  <2>1. Cardinality(ToSet(ran')) = IF h \in R THEN Cardinality(R) ELSE Cardinality(R) + 1
    <3>1. ToSet(ran') = R \cup {h} /\ IsFiniteSet(R)
      BY <1>14, <1>25
    <3> HIDE DEF R
    <3> QED
      BY <3>1, FS_AddElement
  <2>2. Cardinality(W \ {h}) = IF h \in W THEN Cardinality(W) - 1 ELSE Cardinality(W)
    BY <1>25, FS_RemoveElement
  <2>3. h \in R <=> h \in W
    BY <1>22
  <2>4. W \ {h} \in SUBSET Hooks
    BY <1>21
  <2>5. /\ Cardinality(W1) \in Nat /\ Cardinality(W1) <= Cardinality(W \ {h})
        /\ Cardinality(W \ {h}) \in Nat
    BY <1>21, <2>4, Sizes
  <2>6. Cardinality(R) \in Nat /\ Cardinality(W) \in Nat
    BY <1>19
  <2> HIDE DEF R, W, W1
  <2> QED
    BY <1>13, <1>19, <1>24, <2>1, <2>2, <2>3, <2>5, <2>6, SMTT(30)
<1>27. ASSUME added = 0, removed = 0
       PROVE  /\ Len(atStart) = n /\ r = c
              /\ \A k \in 1 .. n : atStart[k] = m_Hooks[k - 1]
  BY <1>6, <1>13, <1>18, <1>27 DEF OnTheWay
<1>28. OnTheWay(c + 1)'
  <2>1. /\ Cardinality((stayed' \ ToSet(ran')) \cap Passed(m_Hooks', c + 1)) <= removed'
        /\ outcome' = "none"
    BY <1>5, <1>23
  <2>2. Len(ran') - Cardinality(ToSet(ran'))
            + Cardinality(ToSet(ran') \cap Waiting(m_Hooks', c + 1)) <= added'
    BY <1>5, <1>14, <1>26
  <2>3. added' = 0 /\ removed' = 0 =>
          /\ Len(atStart') = m_NumHooks' /\ Len(ran') = c + 1
          /\ \A k \in 1 .. m_NumHooks' : atStart'[k] = m_Hooks'[k - 1]
    BY <1>5, <1>6, <1>14, <1>27
  <2> QED
    BY <2>1, <2>2, <2>3 DEF OnTheWay
<1>29. SoFar'
  <2>1. outcome' # "next"
    BY <1>5, <1>23
  <2>2. Len(ran') - Cardinality(ToSet(ran')) <= added'
    BY <1>5, <1>14, <1>19, <1>26, SMTT(30)
  <2>3. ASSUME added' = 0, removed' = 0
        PROVE  Len(ran') <= Len(atStart') /\ \A i \in 1 .. Len(ran') : ran'[i] = atStart'[i]
    <3>1. /\ Len(atStart) = n /\ r = c
          /\ \A k \in 1 .. n : atStart[k] = m_Hooks[k - 1]
      BY <1>5, <1>27, <2>3
    <3>2. \A i \in 1 .. r : ran[i] = atStart[i]
      BY <1>1, <1>5, <1>13, <2>3 DEF SoFar
    <3>3. r + 1 \in 1 .. n /\ r + 1 - 1 = c
      BY <1>7, <3>1
    <3>4. ran'[r + 1] = atStart[r + 1]
      BY <1>4, <1>14, <3>1, <3>3
    <3>5. \A i \in 1 .. r + 1 : i \in 1 .. r \/ i = r + 1
      OBVIOUS
    <3> QED
      BY <1>5, <1>14, <3>1, <3>2, <3>3, <3>4, <3>5
  <2> QED
    BY <2>1, <2>2, <2>3 DEF SoFar
<1>30. stack'[Len(stack')].chain = c + 1
  BY <1>10, <1>12
<1>31. OnTheWay(stack[Len(stack)].chain)'
  BY <1>28, <1>30
<1> QED
  BY <1>15, <1>16, <1>17, <1>29, <1>31 DEF CallInv

(* The hook that runs calls the next one and there is none any more.        *)
LEMMA CallTheEnd ==
    ASSUME RegistryInv, CallInv, callNext, m_Hooks[Top.chain] = NoHook
    PROVE  CallInv'
<1> USE ChainConstants
<1>1. CallTypes /\ OneGoesOn /\ StayedAreThere /\ SoFar
  BY DEF CallInv
<1>2. stack # <<>> /\ GoesOn /\ Top = stack[Len(stack)]
  BY DEF callNext, GoesOn, Top, Last
<1>3. PICK c \in Place : c = Top.chain /\ c = stack[Len(stack)].chain
  BY <1>1, <1>2, GoesOnFrom
<1>4. /\ stack' = Called /\ ran' = ran /\ outcome' = "next"
      /\ atStart' = atStart /\ stayed' = stayed /\ added' = added /\ removed' = removed
      /\ m_Hooks' = m_Hooks /\ m_NumHooks' = m_NumHooks
  BY DEF callNext, registry
<1>5. PICK n \in 0 .. N : n = m_NumHooks
  BY HeldPlaces
<1>6. ~(c < n)
  BY <1>3, <1>5, HeldPlaces
<1>7. PICK l \in Nat \ {0} : l = Len(stack)
  BY <1>1, <1>2, GoesOnFrom
<1>8. /\ Called \in Seq(Running) /\ Len(Called) = l
      /\ \A i \in 1 .. l : Called[i].called
  BY <1>1, <1>2, <1>7, CalledIs
<1>9. CallTypes'
  BY <1>1, <1>4, <1>8 DEF CallTypes
<1>10. OneGoesOn'
  BY <1>4, <1>8 DEF OneGoesOn
<1>11. StayedAreThere'
  BY <1>1, <1>4 DEF StayedAreThere
<1>12. ~GoesOn'
  BY <1>4, <1>8 DEF GoesOn
<1>13. OnTheWay(c)
  BY <1>2, <1>3 DEF CallInv
<1>14. stayed \ ToSet(ran) = (stayed \ ToSet(ran)) \cap Passed(m_Hooks, c)
  <2>1. \A i \in 0 .. n - 1 : i \in 0 .. c - 1
    BY <1>6
  <2>2. stayed \subseteq Passed(m_Hooks, c)
    BY <1>1, <1>5, <2>1 DEF StayedAreThere, CallTypes, Among, Passed
  <2> QED
    BY <2>2
<1>15. SoFar'
  <2>1. Cardinality(stayed \ ToSet(ran)) <= removed
    BY <1>13, <1>14 DEF OnTheWay
  <2>2. ASSUME added = 0, removed = 0 PROVE Len(ran) = Len(atStart)
    <3>1. Len(atStart) = n /\ Len(ran) = c /\ Len(ran) <= Len(atStart)
      BY <1>1, <1>5, <1>13, <2>2 DEF OnTheWay, SoFar
    <3> QED
      BY <1>6, <3>1
  <2> QED
    BY <1>1, <1>4, <2>1, <2>2 DEF SoFar
<1> QED
  BY <1>9, <1>10, <1>11, <1>12, <1>15 DEF CallInv

LEMMA CallOriginalKeeps ==
    ASSUME CallInv, callOriginal
    PROVE  CallInv'
<1>1. CallTypes /\ OneGoesOn /\ StayedAreThere /\ SoFar
  BY DEF CallInv
<1>2. /\ stack # <<>> /\ stack' = Called /\ ran' = ran /\ outcome' = "asked"
      /\ atStart' = atStart /\ stayed' = stayed /\ added' = added /\ removed' = removed
      /\ m_Hooks' = m_Hooks /\ m_NumHooks' = m_NumHooks
  BY DEF callOriginal, registry
<1>3. PICK l \in Nat \ {0} : l = Len(stack)
  BY <1>1, <1>2, GoesOnFrom
<1>4. /\ Called \in Seq(Running) /\ Len(Called) = l
      /\ \A i \in 1 .. l : Called[i].called
  BY <1>1, <1>2, <1>3, CalledIs
<1>5. CallTypes'
  BY <1>1, <1>2, <1>4 DEF CallTypes
<1>6. OneGoesOn' /\ ~GoesOn'
  BY <1>2, <1>4 DEF OneGoesOn, GoesOn
<1>7. StayedAreThere' /\ SoFar'
  BY <1>1, <1>2 DEF StayedAreThere, SoFar
<1> QED
  BY <1>5, <1>6, <1>7 DEF CallInv

LEMMA ReturnKeeps ==
    ASSUME CallInv, Return
    PROVE  CallInv'
<1>1. CallTypes /\ OneGoesOn /\ StayedAreThere /\ SoFar
  BY DEF CallInv
<1>2. stack # <<>> /\ stack' = Front(stack) /\ m_Hooks' = m_Hooks /\ m_NumHooks' = m_NumHooks
  BY DEF Return, registry
<1>3. PICK l \in Nat \ {0} : l = Len(stack)
  BY <1>1, <1>2, GoesOnFrom
<1>4. /\ stack' \in Seq(Running) /\ Len(stack') = l - 1
      /\ \A i \in 1 .. l - 1 : stack'[i] = stack[i]
  <2>1. \A i \in 1 .. l - 1 : stack[i] \in Running
    BY <1>1, <1>3, ElementOfSeq DEF CallTypes
  <2>2. 1 \in Int /\ l - 1 \in Int /\ l - 1 - 1 + 1 = l - 1 /\ \A i \in 1 .. l - 1 : 1 + i - 1 = i
    OBVIOUS
  <2>3. stack' = SubSeq(stack, 1, l - 1)
    BY <1>2, <1>3 DEF Front
  <2>4. /\ SubSeq(stack, 1, l - 1) \in Seq(Running)
        /\ Len(SubSeq(stack, 1, l - 1)) = IF 1 <= l - 1 THEN l - 1 - 1 + 1 ELSE 0
        /\ \A i \in 1 .. l - 1 - 1 + 1 : SubSeq(stack, 1, l - 1)[i] = stack[1 + i - 1]
    BY <2>1, <2>2, SubSeqProperties
  <2> QED
    BY <2>2, <2>3, <2>4
<1>5. OneGoesOn'
  BY <1>1, <1>3, <1>4 DEF OneGoesOn
<1>6. ~GoesOn'
  <2>1. CASE l = 1
    <3>1. stack' = <<>>
      BY <1>4, <2>1, EmptySeq
    <3> QED
      BY <3>1 DEF GoesOn
  <2>2. CASE l # 1
    <3>1. l - 1 \in 1 .. l - 1 /\ Len(stack') = l - 1
      BY <1>4, <2>2
    <3>2. stack'[l - 1].called
      BY <1>1, <1>3, <1>4, <3>1 DEF OneGoesOn
    <3> QED
      BY <3>1, <3>2 DEF GoesOn
  <2> QED
    BY <2>1, <2>2
<1>7. CASE l > 1
  <2>1. /\ ran' = ran /\ outcome' = outcome /\ atStart' = atStart /\ stayed' = stayed
        /\ added' = added /\ removed' = removed
    BY <1>3, <1>7 DEF Return, call
  <2>2. CallTypes' /\ StayedAreThere' /\ SoFar'
    BY <1>1, <1>2, <1>4, <2>1 DEF CallTypes, StayedAreThere, SoFar
  <2> QED
    BY <1>5, <1>6, <2>2 DEF CallInv
<1>8. CASE ~(l > 1)
  <2>1. /\ atStart' = <<>> /\ ran' = <<>> /\ outcome' = "none"
        /\ stayed' = {} /\ added' = 0 /\ removed' = 0
    BY <1>3, <1>8 DEF Return
  <2>2. CallTypes' /\ StayedAreThere'
    BY <1>4, <2>1, EmptySeq DEF CallTypes, StayedAreThere
  <2>3. ToSet(ran') = {} /\ Len(ran') = 0 /\ Len(atStart') = 0 /\ Cardinality(ToSet(ran')) = 0
    BY <2>1, FS_EmptySet DEF ToSet
  <2>4. \A i \in 1 .. Len(ran') : ran'[i] = atStart'[i]
    BY <2>3
  <2>5. SoFar'
    BY <2>1, <2>3, <2>4 DEF SoFar
  <2> QED
    BY <1>5, <1>6, <2>2, <2>5 DEF CallInv
<1> QED
  BY <1>7, <1>8

-----------------------------------------------------------------------------
(* The invariant                                                           *)

LEMMA InitChain == Init => RegistryInv /\ CallInv
<1> USE ChainConstants
<1> SUFFICES ASSUME Init PROVE RegistryInv /\ CallInv
  OBVIOUS
<1>1. /\ m_Hooks = [i \in Place |-> NoHook] /\ m_Priorities = [i \in Place |-> 0]
      /\ m_NumHooks = 0 /\ stack = <<>> /\ registered = <<>>
      /\ atStart = <<>> /\ ran = <<>> /\ stayed = {} /\ added = 0 /\ removed = 0
      /\ outcome = "none"
  BY DEF Init
<1>2. IsArray(m_Hooks, m_Priorities, m_NumHooks)
  BY <1>1 DEF IsArray
<1>3. registered \in Seq(Hooks) /\ Len(registered) = 0
  BY <1>1, EmptySeq
<1>4. \A h : Among(h, m_Hooks, 0, m_NumHooks - 1) <=> Among(h, registered, 1, Len(registered))
  BY <1>1, <1>3 DEF Among
<1>5. RegistryInv
  BY <1>1, <1>2, <1>3, <1>4 DEF RegistryInv
<1>6. CallTypes /\ OneGoesOn /\ StayedAreThere /\ ~GoesOn
  BY <1>1, EmptySeq DEF CallTypes, OneGoesOn, StayedAreThere, GoesOn
<1>7. ToSet(ran) = {} /\ Len(ran) = 0 /\ Len(atStart) = 0 /\ Cardinality(ToSet(ran)) = 0
  BY <1>1, FS_EmptySet DEF ToSet
<1>8. SoFar
  BY <1>1, <1>7 DEF SoFar
<1> QED
  BY <1>5, <1>6, <1>8 DEF CallInv

LEMMA StepChain == RegistryInv /\ CallInv /\ [Next]_vars => RegistryInv' /\ CallInv'
<1> SUFFICES ASSUME RegistryInv, CallInv, [Next]_vars PROVE RegistryInv' /\ CallInv'
  OBVIOUS
<1>1. ASSUME NEW hook \in Hooks, NEW priority \in Priorities, registerHook(hook, priority)
      PROVE  RegistryInv' /\ CallInv'
  BY <1>1, RegisterKeeps
<1>2. ASSUME NEW hook \in Hooks, unregisterHook(hook)
      PROVE  RegistryInv' /\ CallInv'
  BY <1>2, UnregisterKeeps
<1>3. CASE callChain
  BY <1>3, CallChainKeeps
<1>4. ASSUME UNCHANGED <<registry, registered>> PROVE RegistryInv'
  BY <1>4 DEF RegistryInv, registry
<1>5. CASE callNext
  <2>1. UNCHANGED <<registry, registered>>
    BY <1>5 DEF callNext
  <2> QED
    BY <1>4, <1>5, <2>1, CallOn, CallTheEnd
<1>6. CASE callOriginal
  <2>1. UNCHANGED <<registry, registered>>
    BY <1>6 DEF callOriginal
  <2> QED
    BY <1>4, <1>6, <2>1, CallOriginalKeeps
<1>7. CASE Return
  <2>1. UNCHANGED <<registry, registered>>
    BY <1>7 DEF Return
  <2> QED
    BY <1>4, <1>7, <2>1, ReturnKeeps
<1>8. CASE UNCHANGED vars
  <2>1. UNCHANGED <<registry, registered, stack, call, stayed, added, removed>>
    BY <1>8 DEF vars
  <2>2. CallTypes' /\ OneGoesOn' /\ StayedAreThere' /\ SoFar' /\ (GoesOn' <=> GoesOn)
    BY <2>1 DEF CallInv, CallTypes, OneGoesOn, StayedAreThere, SoFar, GoesOn, call, registry
  <2>3. OnTheWay(stack[Len(stack)].chain)' <=> OnTheWay(stack[Len(stack)].chain)
    BY <2>1 DEF OnTheWay, call, registry
  <2> QED
    BY <1>4, <2>1, <2>2, <2>3 DEF CallInv
<1> QED
  BY <1>1, <1>2, <1>3, <1>5, <1>6, <1>7, <1>8 DEF Next

LEMMA ArrayIs == RegistryInv => ArrayIsTheRegistry
<1> SUFFICES ASSUME RegistryInv PROVE ArrayIsTheRegistry
  OBVIOUS
<1>1. DOMAIN registered = 1 .. Len(registered) /\ m_NumHooks = Len(registered)
  BY LenProperties DEF RegistryInv
<1>2. \A h : h \in {m_Hooks[i] : i \in 0 .. m_NumHooks - 1} <=> h \in ToSet(registered)
  <2> TAKE h
  <2>1. h \in {m_Hooks[i] : i \in 0 .. m_NumHooks - 1} <=> Among(h, m_Hooks, 0, m_NumHooks - 1)
    BY DEF Among
  <2>2. h \in ToSet(registered) <=> Among(h, registered, 1, Len(registered))
    BY <1>1 DEF Among, ToSet
  <2> QED
    BY <2>1, <2>2 DEF RegistryInv
<1>3. {m_Hooks[i] : i \in 0 .. m_NumHooks - 1} = ToSet(registered)
  BY <1>2
<1> QED
  BY <1>1, <1>3 DEF ArrayIsTheRegistry, RegistryInv, IsArray, N

LEMMA CallRuns == CallInv => CallRunsTheChain
<1> SUFFICES ASSUME CallInv PROVE CallRunsTheChain
  OBVIOUS
<1>1. CallTypes /\ SoFar
  BY DEF CallInv
<1>2. ran \in Seq(Hooks) /\ atStart \in Seq(Hooks)
  BY <1>1 DEF CallTypes
<1>3. ASSUME added = 0, removed = 0
      PROVE  IsPrefix(ran, atStart) /\ (outcome = "next" => ran = atStart)
  <2>1. PICK r \in Nat : r = Len(ran)
    BY <1>2, LenProperties
  <2>2. /\ r <= Len(atStart) /\ Len(atStart) \in Nat
        /\ \A i \in 1 .. r : ran[i] = atStart[i]
        /\ outcome = "next" => r = Len(atStart)
    BY <1>1, <1>2, <1>3, <2>1, LenProperties DEF SoFar
  <2>3. \A i \in 1 .. r : ran[i] \in Hooks /\ atStart[i] \in Hooks
    BY <1>2, <2>1, <2>2, ElementOfSeq
  <2>4. \A i \in 1 .. r : 1 + i - 1 = i /\ i \in 1 .. r - 1 + 1
    BY <2>1
  <2>5. /\ SubSeq(ran, 1, r) \in Seq(Hooks) /\ Len(SubSeq(ran, 1, r)) = r
        /\ \A i \in 1 .. r : SubSeq(ran, 1, r)[i] = ran[i]
    <3>1. /\ SubSeq(ran, 1, r) \in Seq(Hooks)
          /\ Len(SubSeq(ran, 1, r)) = IF 1 <= r THEN r - 1 + 1 ELSE 0
          /\ \A i \in 1 .. r - 1 + 1 : SubSeq(ran, 1, r)[i] = ran[1 + i - 1]
      BY <2>3, SubSeqProperties
    <3> QED
      BY <2>4, <3>1
  <2>6. /\ SubSeq(atStart, 1, r) \in Seq(Hooks) /\ Len(SubSeq(atStart, 1, r)) = r
        /\ \A i \in 1 .. r : SubSeq(atStart, 1, r)[i] = atStart[i]
    <3>1. /\ SubSeq(atStart, 1, r) \in Seq(Hooks)
          /\ Len(SubSeq(atStart, 1, r)) = IF 1 <= r THEN r - 1 + 1 ELSE 0
          /\ \A i \in 1 .. r - 1 + 1 : SubSeq(atStart, 1, r)[i] = atStart[1 + i - 1]
      BY <2>3, SubSeqProperties
    <3> QED
      BY <2>4, <3>1
  <2>7. SubSeq(ran, 1, r) = SubSeq(atStart, 1, r)
    BY <2>2, <2>5, <2>6, SeqEqual
  <2>8. outcome = "next" => ran = atStart
    BY <1>2, <2>1, <2>2, SeqEqual
  <2> QED
    BY <2>1, <2>2, <2>7, <2>8 DEF IsPrefix
<1> QED
  BY <1>1, <1>3 DEF CallRunsTheChain, SoFar

LEMMA ChainInvFollows == RegistryInv /\ CallInv => ChainInv
<1> SUFFICES ASSUME RegistryInv, CallInv PROVE ChainInv
  OBVIOUS
<1>1. TypeOK
  BY DEF TypeOK, RegistryInv, IsArray, CallInv, CallTypes, Running, N
<1> QED
  BY <1>1, ArrayIs, CallRuns DEF ChainInv

(* However hooks come and go before and in a call, from within it and       *)
(* outside, the array is the registry, each hook once and in the order of   *)
(* the priorities, and a call through addHook, removeHook and callNext runs *)
(* the chain: of the hooks registered all the while it passes over no more  *)
(* than were unregistered in it, and repeats no more than were registered.  *)
THEOREM CallsRunTheChain == Spec => []ChainInv
<1>1. Init => RegistryInv /\ CallInv
  BY InitChain
<1>2. RegistryInv /\ CallInv /\ [Next]_vars => (RegistryInv /\ CallInv)'
  BY StepChain
<1>3. RegistryInv /\ CallInv => ChainInv
  BY ChainInvFollows
<1> QED
  BY <1>1, <1>2, <1>3, PTL DEF Spec
=============================================================================
