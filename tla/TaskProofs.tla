----------------------------- MODULE TaskProofs ----------------------------
(* Proofs about what the tasks of the kernel share: the locks of           *)
(* sync/mutex.rs (Mutex) and the executor of task/async_task.rs            *)
(* (AsyncExecutor).                                                        *)
EXTENDS Mutex, AsyncExecutor, FiniteSetTheorems, TLAPS

(* The locks of sync/mutex.rs for every number of tasks, of mutexes and of *)
(* nested sections: first what a lock, an unlock and a switch do to the    *)
(* guards of a context, then the actions, then the theorem.                *)
(* What a new section adds to the sections of a context.                   *)
LEMMA Enter ==
    ASSUME NEW g \in Seq(Sections), NEW s \in Sections
    PROVE  /\ Append(g, s) \in Seq(Sections)
           /\ Len(Append(g, s)) = Len(g) + 1
           /\ Append(g, s) # << >>
           /\ \A i \in 1 .. Len(g) : Append(g, s)[i] = g[i]
           /\ Append(g, s)[Len(g) + 1] = s
           /\ MutexesOf(Append(g, s)) = (MutexesOf(g) \cup {s.mutex}) \ {NoMutex}
<1>1. /\ Append(g, s) \in Seq(Sections)
      /\ Len(Append(g, s)) = Len(g) + 1
      /\ Append(g, s) # << >>
      /\ \A i \in 1 .. Len(g) : Append(g, s)[i] = g[i]
      /\ Append(g, s)[Len(g) + 1] = s
      /\ Len(g) \in Nat
  OBVIOUS
<1> DEFINE a == Append(g, s)
<1> HIDE DEF a
<1>2. MutexesOf(a) \subseteq (MutexesOf(g) \cup {s.mutex}) \ {NoMutex}
  <2> SUFFICES ASSUME NEW i \in 1 .. Len(a), a[i].mutex # NoMutex
               PROVE  a[i].mutex \in MutexesOf(g) \cup {s.mutex}
    BY DEF MutexesOf
  <2>1. i \in 1 .. Len(g) \/ i = Len(g) + 1
    BY <1>1 DEF a
  <2> QED
    BY <1>1, <2>1 DEF MutexesOf, a
<1>3. (MutexesOf(g) \cup {s.mutex}) \ {NoMutex} \subseteq MutexesOf(a)
  <2>1. ASSUME NEW i \in 1 .. Len(g), g[i].mutex # NoMutex PROVE g[i].mutex \in MutexesOf(a)
    <3>1. i \in 1 .. Len(a) /\ a[i] = g[i]
      BY <1>1 DEF a
    <3> QED
      BY <2>1, <3>1 DEF MutexesOf
  <2>2. ASSUME s.mutex # NoMutex PROVE s.mutex \in MutexesOf(a)
    <3>1. Len(g) + 1 \in 1 .. Len(a) /\ a[Len(g) + 1] = s
      BY <1>1 DEF a
    <3> QED
      BY <2>2, <3>1 DEF MutexesOf
  <2> QED
    BY <2>1, <2>2 DEF MutexesOf
<1> QED
  BY <1>1, <1>2, <1>3 DEF a

(* What remains of the sections of a context without the latest one.       *)
LEMMA Leave ==
    ASSUME NEW g \in Seq(Sections), g # << >>,
           \A i, j \in 1 .. Len(g) :
               i # j /\ g[i].mutex # NoMutex => g[i].mutex # g[j].mutex
    PROVE  /\ SubSeq(g, 1, Len(g) - 1) \in Seq(Sections)
           /\ Len(SubSeq(g, 1, Len(g) - 1)) = Len(g) - 1
           /\ Len(g) \in Nat \ {0} /\ g[Len(g)] \in Sections
           /\ \A i \in 1 .. Len(g) - 1 : SubSeq(g, 1, Len(g) - 1)[i] = g[i]
           /\ MutexesOf(SubSeq(g, 1, Len(g) - 1)) = MutexesOf(g) \ {g[Len(g)].mutex}
<1> DEFINE n == Len(g)
           a == SubSeq(g, 1, n - 1)
<1>1. n \in Nat \ {0} /\ g[n] \in Sections
  OBVIOUS
<1>2. /\ a \in Seq(Sections) /\ Len(a) = n - 1
      /\ \A i \in 1 .. n - 1 : a[i] = g[i]
  <2>1. \A k \in Nat \ {0} : k = Len(g) =>
          /\ SubSeq(g, 1, k - 1) \in Seq(Sections) /\ Len(SubSeq(g, 1, k - 1)) = k - 1
          /\ \A i \in 1 .. k - 1 : SubSeq(g, 1, k - 1)[i] = g[i]
    OBVIOUS
  <2> QED
    BY <1>1, <2>1, Zenon
<1>3. MutexesOf(a) \subseteq MutexesOf(g) \ {g[n].mutex}
  <2> SUFFICES ASSUME NEW i \in 1 .. Len(a), a[i].mutex # NoMutex
               PROVE  a[i].mutex \in MutexesOf(g) /\ a[i].mutex # g[n].mutex
    BY DEF MutexesOf
  <2>1. i \in 1 .. n /\ i # n /\ a[i] = g[i] /\ n \in 1 .. n
    BY <1>1, <1>2
  <2>2. g[i].mutex # g[n].mutex
    BY <2>1
  <2> QED
    BY <2>1, <2>2 DEF MutexesOf
<1>4. MutexesOf(g) \ {g[n].mutex} \subseteq MutexesOf(a)
  <2> SUFFICES ASSUME NEW i \in 1 .. n, g[i].mutex # NoMutex, g[i].mutex # g[n].mutex
               PROVE  g[i].mutex \in MutexesOf(a)
    BY DEF MutexesOf
  <2>1. i \in 1 .. Len(a) /\ a[i] = g[i]
    BY <1>1, <1>2
  <2> QED
    BY <2>1 DEF MutexesOf
<1> QED
  BY <1>1, <1>2, <1>3, <1>4

(* The sections that remain nest as they did.                              *)
LEMMA LeaveNests ==
    ASSUME NEW g \in Seq(Sections), NEW h \in Seq(Sections), NEW n \in Nat \ {0},
           n = Len(g), Len(h) = n - 1, \A i \in 1 .. n - 1 : h[i] = g[i],
           \A i \in 2 .. n : ~g[i].saved,
           \A i, j \in 1 .. n :
               i # j /\ g[i].mutex # NoMutex => g[i].mutex # g[j].mutex
    PROVE  /\ \A i \in 2 .. Len(h) : ~h[i].saved
           /\ h # << >> => h[1] = g[1]
           /\ \A i, j \in 1 .. Len(h) :
                 i # j /\ h[i].mutex # NoMutex => h[i].mutex # h[j].mutex
<1>1. \A i \in 1 .. Len(h) : i \in 1 .. n /\ h[i] = g[i]
  OBVIOUS
<1>2. \A i \in 2 .. Len(h) : i \in 1 .. Len(h) /\ i \in 2 .. n
  OBVIOUS
<1>3. h # << >> => 1 \in 1 .. Len(h)
  OBVIOUS
<1> QED
  BY <1>1, <1>2, <1>3, ZenonT(30)

(* The processor is always on a context, and no call of it is pending     *)
(* without a mutex.                                                        *)
LEMMA OnContext ==
    ASSUME TypeOK
    PROVE  /\ Current \in Contexts /\ running \in Contexts /\ Handler \in Contexts
           /\ \A c \in Contexts : /\ guards[c] \in Seq(Sections)
                                 /\ call[c] \in Calls \cup {NoCall}
                                 /\ Len(guards[c]) \in Nat
           /\ NoCall \notin Calls
<1>1. Current \in Contexts /\ running \in Contexts /\ Handler \in Contexts
  BY DEF TypeOK, Current, Contexts
<1>2. \A c \in Contexts : guards[c] \in Seq(Sections) /\ call[c] \in Calls \cup {NoCall}
  BY DEF TypeOK
<1>3. NoCall \notin Calls
  BY DEF NoCall, Calls
<1> QED
  BY <1>1, <1>2, <1>3

(* A step of the current context alone: it changes its own guards and its  *)
(* own call, and the flag, the locks and the processor as given.           *)
LEMMA OwnStep ==
    ASSUME MutexAssumption, IInv,
           NEW g \in Seq(Sections), NEW k \in Calls \cup {NoCall}, NEW f \in BOOLEAN,
           NEW l \in SUBSET Mutexes,
           UNCHANGED <<running, in_handler, rflags>>,
           guards' = [guards EXCEPT ![Current] = g],
           call' = [call EXCEPT ![Current] = k],
           IF_' = f, locked' = l,
           l = MutexesOf(g),
           g # << >> \/ k.op # "none" => ~f,
           in_handler => ~f,
           \A i \in 2 .. Len(g) : ~g[i].saved,
           in_handler => ~k.saved /\ (g # << >> => ~g[1].saved),
           k.op # "none" /\ g # << >> => ~k.saved,
           k.op = "spin_lock" => k.mutex \notin MutexesOf(g),
           \A i, j \in 1 .. Len(g) :
               i # j /\ g[i].mutex # NoMutex => g[i].mutex # g[j].mutex
    PROVE  IInv'
<1>1. Current' = Current /\ Current \in Contexts
  BY OnContext DEF Current, IInv
<1>2. /\ guards'[Current] = g /\ call'[Current] = k
      /\ \A c \in Contexts \ {Current} : guards'[c] = guards[c] /\ call'[c] = call[c]
  BY <1>1 DEF IInv, TypeOK
<1>3. TypeOK'
  BY <1>1 DEF IInv, TypeOK
<1>4. HeldHere'
  <2>1. Held(Current)' = MutexesOf(g)
    BY <1>1, <1>2 DEF Held
  <2>2. \A c \in Contexts \ {Current} : Held(c)' = {} /\ call'[c] = NoCall
    BY <1>2 DEF IInv, HeldHere, Held
  <2>3. l # {} => g # << >>
    BY DEF MutexesOf
  <2> QED
    BY <1>1, <2>1, <2>2, <2>3 DEF HeldHere
<1>5. FlagsNest'
  <2> SUFFICES ASSUME NEW c \in Contexts
      PROVE  /\ \A i \in 2 .. Len(guards'[c]) : ~guards'[c][i].saved
             /\ c = Handler => ~call'[c].saved /\ (guards'[c] # << >> => ~guards'[c][1].saved)
             /\ c = Current' /\ (guards'[c] # << >> \/ call'[c].op # "none") => ~IF_'
             /\ call'[c].op # "none" /\ guards'[c] # << >> => ~call'[c].saved
    BY DEF FlagsNest
  <2>1. CASE c = Current
    <3>1. c = Handler => in_handler
      BY <2>1 DEF IInv, TypeOK, Current, MutexAssumption
    <3> QED
      BY <1>1, <1>2, <2>1, <3>1
  <2>2. CASE c # Current
    BY <1>1, <1>2, <2>2 DEF IInv, FlagsNest
  <2> QED
    BY <2>1, <2>2
<1>6. Distinct'
  <2> SUFFICES ASSUME NEW c \in Contexts
      PROVE  /\ call'[c].op = "spin_lock" => call'[c].mutex \notin MutexesOf(guards'[c])
             /\ \A i, j \in 1 .. Len(guards'[c]) :
                   i # j /\ guards'[c][i].mutex # NoMutex
                       => guards'[c][i].mutex # guards'[c][j].mutex
    BY DEF Distinct, Held
  <2>1. CASE c = Current
    BY <1>2, <2>1
  <2>2. CASE c # Current
    BY <1>2, <2>2 DEF IInv, Distinct, Held
  <2> QED
    BY <2>1, <2>2
<1>7. Suspended'
  <2>1. in_handler => guards'[running] = guards[running]
    BY <1>2, OnContext DEF IInv, TypeOK, Current, MutexAssumption
  <2>2. \A t \in Tasks \ {running} : guards'[t] = guards[t]
    BY <1>2 DEF Current, Contexts, MutexAssumption
  <2> QED
    BY <2>1, <2>2 DEF IInv, Suspended
<1> QED
  BY <1>3, <1>4, <1>5, <1>6, <1>7 DEF IInv

(* What the invariant says of the context on the processor.                *)
LEMMA CurrentFacts ==
    ASSUME IInv
    PROVE  /\ guards[Current] \in Seq(Sections) /\ Len(guards[Current]) \in Nat
           /\ call[Current] \in Calls \cup {NoCall}
           /\ locked = MutexesOf(guards[Current])
           /\ locked \subseteq Mutexes /\ IF_ \in BOOLEAN
           /\ guards[Current] # << >> \/ call[Current].op # "none" => ~IF_
           /\ in_handler => ~IF_
           /\ \A i \in 2 .. Len(guards[Current]) : ~guards[Current][i].saved
           /\ in_handler => /\ ~call[Current].saved
                            /\ guards[Current] # << >> => ~guards[Current][1].saved
           /\ call[Current].op # "none" /\ guards[Current] # << >> => ~call[Current].saved
           /\ \A i, j \in 1 .. Len(guards[Current]) :
                 i # j /\ guards[Current][i].mutex # NoMutex
                     => guards[Current][i].mutex # guards[Current][j].mutex
           /\ guards = [guards EXCEPT ![Current] = guards[Current]]
           /\ call = [call EXCEPT ![Current] = call[Current]]
<1>1. Current \in Contexts
  BY OnContext DEF IInv
<1>2. in_handler => Current = Handler
  BY DEF Current
<1>3. /\ guards[Current] \in Seq(Sections) /\ Len(guards[Current]) \in Nat
      /\ call[Current] \in Calls \cup {NoCall}
  BY <1>1, OnContext DEF IInv
<1>4. /\ locked = MutexesOf(guards[Current])
      /\ locked \subseteq Mutexes /\ IF_ \in BOOLEAN
      /\ in_handler => ~IF_
  BY DEF IInv, TypeOK, HeldHere, Held, Suspended
<1>5. /\ guards[Current] # << >> \/ call[Current].op # "none" => ~IF_
      /\ \A i \in 2 .. Len(guards[Current]) : ~guards[Current][i].saved
      /\ in_handler => /\ ~call[Current].saved
                       /\ guards[Current] # << >> => ~guards[Current][1].saved
      /\ call[Current].op # "none" /\ guards[Current] # << >> => ~call[Current].saved
  BY <1>1, <1>2 DEF IInv, FlagsNest
<1>6. \A i, j \in 1 .. Len(guards[Current]) :
         i # j /\ guards[Current][i].mutex # NoMutex
             => guards[Current][i].mutex # guards[Current][j].mutex
  BY <1>1 DEF IInv, Distinct
<1>7. /\ guards = [guards EXCEPT ![Current] = guards[Current]]
      /\ call = [call EXCEPT ![Current] = call[Current]]
  BY <1>1 DEF IInv, TypeOK
<1> QED
  BY <1>3, <1>4, <1>5, <1>6, <1>7

(* The processor changes contexts only where the one it leaves holds no    *)
(* mutex, and the one it comes to is in no section if its flag is on.      *)
LEMMA Switches ==
    ASSUME MutexAssumption, IInv,
           \/ interrupt \/ iretq
           \/ \E t \in Tasks : preempt_sched(t) \/ switch_to(t)
    PROVE  IInv'
<1>1. /\ UNCHANGED <<guards, call, locked>>
      /\ \A c \in Contexts : call[c] = NoCall /\ Held(c) = {}
      /\ locked = {}
      /\ TypeOK'
  <2>1. UNCHANGED <<guards, call, locked>>
    BY DEF interrupt, iretq, preempt_sched, switch_to
  <2>2. TypeOK'
    BY <2>1, ZenonT(30) DEF interrupt, iretq, preempt_sched, switch_to, IInv, TypeOK
  <2>3. call[Current] = NoCall /\ Held(Current) = {}
    <3>1. CASE interrupt
      <4>1. IF_ /\ Current \in Contexts
        BY <3>1, OnContext DEF interrupt, IInv
      <4>2. locked = {} /\ call[Current].op = "none"
        BY <4>1 DEF IInv, HeldHere, FlagsNest
      <4>3. call[Current] \in Calls \cup {NoCall}
        BY CurrentFacts
      <4>4. call[Current] \notin Calls
        BY <4>2 DEF Calls
      <4> QED
        BY <4>2, <4>3, <4>4 DEF IInv, HeldHere
    <3>2. CASE HandlerDone
      <4>1. Current = Handler /\ guards[Handler] = << >> /\ call[Current] = NoCall
        BY <3>2 DEF HandlerDone, Current, Idle
      <4> QED
        BY <4>1 DEF Held, MutexesOf
    <3>3. ASSUME NEW t \in Tasks, switch_to(t) PROVE call[Current] = NoCall /\ Held(Current) = {}
      BY <3>3 DEF switch_to, Current, Idle
    <3> QED
      BY <3>1, <3>2, <3>3 DEF iretq, preempt_sched
  <2> QED
    BY <2>1, <2>2, <2>3 DEF IInv, HeldHere
<1>2. HeldHere' /\ Distinct'
  <2>1. Current' \in Contexts
    BY <1>1 DEF TypeOK, Current, Contexts
  <2>2. \A c \in Contexts : call'[c] = NoCall /\ MutexesOf(guards'[c]) = {}
    BY <1>1 DEF Held
  <2>3. HeldHere'
    BY <1>1, <2>1, <2>2 DEF HeldHere, Held
  <2>4. Distinct'
    BY <1>1 DEF IInv, Distinct, Held
  <2> QED
    BY <2>3, <2>4
<1>3. IF_' => guards[Current'] = << >>
  <2>1. CASE interrupt
    BY <2>1 DEF interrupt
  <2>2. CASE iretq
    BY <2>2 DEF iretq, HandlerDone, Current, IInv, Suspended
  <2>3. ASSUME NEW t \in Tasks, preempt_sched(t) \/ switch_to(t)
        PROVE  IF_' => guards[Current'] = << >>
    <3>1. Current' = t /\ t # running /\ IF_' = rflags[t]
      BY <2>3 DEF preempt_sched, switch_to, Current
    <3> QED
      BY <3>1, ZenonT(30) DEF IInv, Suspended
  <2> QED
    BY <2>1, <2>2, <2>3
<1>4. FlagsNest'
  <2>1. NoCall.op = "none"
    BY DEF NoCall
  <2> QED
    BY <1>1, <1>3, <2>1 DEF IInv, FlagsNest
<1>5. Suspended'
  <2>1. CASE interrupt
    <3>1. Current = running /\ IF_
      BY <2>1 DEF interrupt, Current
    <3>2. guards[running] = << >>
      BY <3>1, CurrentFacts
    <3> QED
      BY <2>1, <3>2 DEF interrupt, IInv, Suspended
  <2>2. CASE iretq
    BY <2>2 DEF iretq, IInv, Suspended
  <2>3. ASSUME NEW t \in Tasks, preempt_sched(t) \/ switch_to(t) PROVE Suspended'
    <3>1. /\ running' = t /\ in_handler' = FALSE /\ guards' = guards
          /\ running \in Tasks /\ rflags \in [Tasks -> BOOLEAN]
      BY <2>3 DEF preempt_sched, switch_to, IInv, TypeOK
    <3>2. rflags'[running] => guards[running] = << >>
      <4>1. CASE preempt_sched(t)
        BY <4>1 DEF preempt_sched, HandlerDone, IInv, Suspended
      <4>2. CASE switch_to(t)
        <5>1. Current = running /\ guards[running] # << >> /\ rflags'[running] = IF_
          BY <3>1, <4>2 DEF switch_to, Current
        <5> QED
          BY <5>1, CurrentFacts
      <4> QED
        BY <2>3, <4>1, <4>2
    <3>3. \A u \in Tasks \ {running, t} : rflags'[u] = rflags[u]
      BY <2>3, <3>1 DEF preempt_sched, switch_to
    <3> QED
      BY <3>1, <3>2, <3>3 DEF IInv, Suspended
  <2> QED
    BY <2>1, <2>2, <2>3
<1> QED
  BY <1>1, <1>2, <1>4, <1>5 DEF IInv

----------------------------------------------------------------------------
(* Each action of the context on the processor keeps the invariant.        *)
LEMMA OwnActions ==
    ASSUME MutexAssumption, IInv,
           \/ \E m \in Mutexes : read_with_cli("try_lock", m) \/ read_with_cli("spin_lock", m)
           \/ acquire \/ fail \/ drop \/ restore \/ disable \/ enable \/ stihlt
    PROVE  IInv'
<1> DEFINE g == guards[Current]
           k == call[Current]
           n == Len(g)
           h == SubSeq(g, 1, n - 1)
<1>1. ASSUME NEW m \in Mutexes, NEW op \in {"try_lock", "spin_lock"}, read_with_cli(op, m)
      PROVE  IInv'
  <2> DEFINE k2 == [op |-> op, mutex |-> m, saved |-> IF_]
  <2>1. k2 \in Calls \cup {NoCall}
    BY CurrentFacts DEF Calls
  <2>2. /\ UNCHANGED <<running, in_handler, rflags>>
        /\ call' = [call EXCEPT ![Current] = k2]
        /\ IF_' = FALSE /\ locked' = locked
        /\ guards' = [guards EXCEPT ![Current] = g]
    BY <1>1, CurrentFacts DEF read_with_cli, Unchanged
  <2>3. op = "spin_lock" => m \notin MutexesOf(g)
    BY <1>1 DEF read_with_cli, Held
  <2> QED
    BY <2>1, <2>2, <2>3, CurrentFacts, OwnStep, ZenonT(30)
<1>2. CASE acquire
  <2> DEFINE s == [mutex |-> k.mutex, saved |-> k.saved]
  <2>1. /\ k \in Calls /\ k.mutex \in Mutexes /\ s \in Sections /\ k.mutex \notin locked
        /\ k.mutex # NoMutex /\ k.op # "none"
    BY <1>2, CurrentFacts DEF acquire, Calls, NoCall, Sections, MutexAssumption
  <2>2. /\ UNCHANGED <<running, in_handler, rflags>>
        /\ call' = [call EXCEPT ![Current] = NoCall]
        /\ IF_' = IF_ /\ locked' = locked \cup {k.mutex}
        /\ guards' = [guards EXCEPT ![Current] = Append(g, s)]
    BY <1>2 DEF acquire, Unchanged
  <2> HIDE DEF s
  <2>3. /\ Append(g, s) \in Seq(Sections)
        /\ Len(Append(g, s)) = n + 1
        /\ \A i \in 1 .. n : Append(g, s)[i] = g[i]
        /\ Append(g, s)[n + 1] = s
        /\ MutexesOf(Append(g, s)) = (MutexesOf(g) \cup {s.mutex}) \ {NoMutex}
    BY <2>1, CurrentFacts, Enter
  <2>4. s.mutex = k.mutex /\ s.saved = k.saved
    BY DEF s
  <2> DEFINE a == Append(g, s)
  <2> HIDE DEF a
  <2>5. locked \cup {k.mutex} = MutexesOf(a)
    BY <2>1, <2>3, <2>4, CurrentFacts DEF a, MutexesOf
  <2>6. \A i \in 2 .. Len(a) : ~a[i].saved
    <3> TAKE i \in 2 .. Len(a)
    <3>1. CASE i \in 1 .. n
      BY <2>3, <3>1, CurrentFacts DEF a
    <3>2. CASE i = n + 1
      <4>1. n # 0 /\ g # << >>
        BY <3>2, CurrentFacts
      <4> QED
        BY <2>1, <2>3, <2>4, <3>2, <4>1, CurrentFacts DEF a
    <3> QED
      BY <2>3, <3>1, <3>2, CurrentFacts DEF a
  <2>7. in_handler => ~a[1].saved
    <3>1. CASE n = 0
      BY <2>3, <2>4, <3>1, CurrentFacts DEF a
    <3>2. CASE n # 0
      BY <2>3, <3>2, CurrentFacts DEF a
    <3> QED
      BY <3>1, <3>2
  <2>8. \A i, j \in 1 .. Len(a) :
           i # j /\ a[i].mutex # NoMutex => a[i].mutex # a[j].mutex
    <3>1. \A i \in 1 .. n : g[i].mutex # k.mutex
      BY <2>1, CurrentFacts DEF MutexesOf
    <3>2. \A i \in 1 .. Len(a) : (i \in 1 .. n /\ a[i] = g[i]) \/ (i = n + 1 /\ a[i] = s)
      BY <2>3, CurrentFacts DEF a
    <3> QED
      BY <2>4, <3>1, <3>2, CurrentFacts
  <2>9. /\ a \in Seq(Sections) /\ NoCall \in Calls \cup {NoCall}
        /\ NoCall.op = "none" /\ ~NoCall.saved
        /\ IF_ \in BOOLEAN /\ ~IF_
        /\ locked \cup {k.mutex} \in SUBSET Mutexes
    BY <2>1, <2>3, CurrentFacts DEF a, NoCall
  <2>10. guards' = [guards EXCEPT ![Current] = a]
    BY <2>2 DEF a
  <2> QED
    BY <2>2, <2>5, <2>6, <2>7, <2>8, <2>9, <2>10, OwnStep, ZenonT(30)
<1>3. CASE fail \/ restore
  <2>1. /\ k \in Calls /\ k.saved \in BOOLEAN /\ k.op # "none"
    BY <1>3, CurrentFacts DEF fail, restore, Calls, NoCall
  <2>2. /\ UNCHANGED <<running, in_handler, rflags>>
        /\ call' = [call EXCEPT ![Current] = NoCall]
        /\ IF_' = k.saved /\ locked' = locked
        /\ guards' = [guards EXCEPT ![Current] = g]
    BY <1>3, CurrentFacts DEF fail, restore, Unchanged
  <2>3. NoCall.op = "none" /\ ~NoCall.saved
    BY DEF NoCall
  <2> QED
    BY <2>1, <2>2, <2>3, CurrentFacts, OwnStep, ZenonT(30)
<1>4. CASE drop
  <2> DEFINE k2 == [op |-> "drop", mutex |-> NoMutex, saved |-> g[n].saved]
  <2>1. /\ g # << >>
        /\ h \in Seq(Sections) /\ Len(h) = n - 1
        /\ n \in Nat \ {0} /\ g[n] \in Sections
        /\ \A i \in 1 .. n - 1 : h[i] = g[i]
        /\ MutexesOf(h) = MutexesOf(g) \ {g[n].mutex}
    BY <1>4, CurrentFacts, Leave, ZenonT(30) DEF drop
  <2>2. k2 \in Calls
    BY <2>1 DEF Calls, Sections
  <2>3. /\ UNCHANGED <<running, in_handler, rflags>>
        /\ call' = [call EXCEPT ![Current] = k2]
        /\ IF_' = IF_ /\ locked' = locked \ {g[n].mutex}
        /\ guards' = [guards EXCEPT ![Current] = h]
    BY <1>4 DEF drop, Unchanged
  <2>4. h # << >> => n # 1 /\ ~g[n].saved
    BY <2>1, CurrentFacts
  <2>5. in_handler => ~g[n].saved
    BY <2>1, CurrentFacts
  <2> HIDE DEF h
  <2>6. /\ \A i \in 2 .. Len(h) : ~h[i].saved
        /\ in_handler /\ h # << >> => ~h[1].saved
        /\ \A i, j \in 1 .. Len(h) :
              i # j /\ h[i].mutex # NoMutex => h[i].mutex # h[j].mutex
    <3>1. /\ g \in Seq(Sections)
          /\ \A i \in 2 .. n : ~g[i].saved
          /\ in_handler => ~g[1].saved
          /\ \A i, j \in 1 .. n : i # j /\ g[i].mutex # NoMutex => g[i].mutex # g[j].mutex
      BY <2>1, CurrentFacts
    <3>2. n = Len(g)
      OBVIOUS
    <3>3. /\ h \in Seq(Sections) /\ n \in Nat \ {0} /\ Len(h) = n - 1
          /\ \A i \in 1 .. n - 1 : h[i] = g[i]
      BY <2>1
    <3> HIDE DEF g, n
    <3>4. /\ \A i \in 2 .. Len(h) : ~h[i].saved
          /\ h # << >> => h[1] = g[1]
          /\ \A i, j \in 1 .. Len(h) :
                i # j /\ h[i].mutex # NoMutex => h[i].mutex # h[j].mutex
      BY <3>1, <3>2, <3>3, LeaveNests, ZenonT(30)
    <3> QED
      BY <3>1, <3>4
  <2>7. locked \ {g[n].mutex} = MutexesOf(h) /\ locked \ {g[n].mutex} \subseteq Mutexes
    BY <2>1, CurrentFacts
  <2>8. /\ k2.op = "drop" /\ k2.saved = g[n].saved /\ ~IF_ /\ IF_ \in BOOLEAN
        /\ k2 \in Calls \cup {NoCall} /\ h \in Seq(Sections)
    BY <2>1, <2>2, CurrentFacts
  <2> HIDE DEF k2, g, n
  <2> QED
    BY <2>3, <2>4, <2>5, <2>6, <2>7, <2>8, OwnStep, ZenonT(30)
<1>5. CASE disable
  <2> DEFINE s == [mutex |-> NoMutex, saved |-> IF_]
  <2>1. s \in Sections /\ s.mutex = NoMutex /\ s.saved = IF_
    BY CurrentFacts DEF Sections
  <2>2. /\ UNCHANGED <<running, in_handler, rflags>>
        /\ call' = [call EXCEPT ![Current] = k]
        /\ k = NoCall
        /\ IF_' = FALSE /\ locked' = locked
        /\ guards' = [guards EXCEPT ![Current] = Append(g, s)]
    BY <1>5, CurrentFacts DEF disable, Unchanged, Idle
  <2> HIDE DEF s
  <2>3. /\ Append(g, s) \in Seq(Sections)
        /\ Len(Append(g, s)) = n + 1
        /\ \A i \in 1 .. n : Append(g, s)[i] = g[i]
        /\ Append(g, s)[n + 1] = s
        /\ MutexesOf(Append(g, s)) = (MutexesOf(g) \cup {s.mutex}) \ {NoMutex}
    BY <2>1, CurrentFacts, Enter
  <2> DEFINE a == Append(g, s)
  <2> HIDE DEF a
  <2>4. locked = MutexesOf(a)
    BY <2>1, <2>3, CurrentFacts DEF a, MutexesOf
  <2>5. \A i \in 1 .. Len(a) : (i \in 1 .. n /\ a[i] = g[i]) \/ (i = n + 1 /\ a[i] = s)
    BY <2>3, CurrentFacts DEF a
  <2>6. \A i \in 2 .. Len(a) : ~a[i].saved
    <3> TAKE i \in 2 .. Len(a)
    <3>1. CASE i \in 1 .. n /\ a[i] = g[i]
      BY <3>1, CurrentFacts
    <3>2. CASE i = n + 1 /\ a[i] = s
      <4>1. g # << >>
        BY <3>2, CurrentFacts
      <4> QED
        BY <2>1, <3>2, <4>1, CurrentFacts
    <3> QED
      BY <2>5, <3>1, <3>2, CurrentFacts
  <2>7. in_handler => ~a[1].saved
    <3>1. CASE n = 0
      BY <2>1, <2>3, <3>1, CurrentFacts DEF a
    <3>2. CASE n # 0
      BY <2>3, <3>2, CurrentFacts DEF a
    <3> QED
      BY <3>1, <3>2
  <2>8. \A i, j \in 1 .. Len(a) :
           i # j /\ a[i].mutex # NoMutex => a[i].mutex # a[j].mutex
    BY <2>1, <2>5, CurrentFacts
  <2>9. a \in Seq(Sections) /\ NoCall.op = "none" /\ ~NoCall.saved
    BY <2>3 DEF a, NoCall
  <2> QED
    BY <2>2, <2>4, <2>6, <2>7, <2>8, <2>9, CurrentFacts, OwnStep, ZenonT(30) DEF a
<1>6. CASE enable
  <2>1. /\ g # << >> /\ g[n].mutex = NoMutex /\ k = NoCall
        /\ h \in Seq(Sections) /\ Len(h) = n - 1
        /\ n \in Nat \ {0} /\ g[n] \in Sections
        /\ \A i \in 1 .. n - 1 : h[i] = g[i]
        /\ MutexesOf(h) = MutexesOf(g) \ {g[n].mutex}
    BY <1>6, CurrentFacts, Leave, ZenonT(30) DEF enable, Idle
  <2>2. g[n].saved \in BOOLEAN /\ ~IF_
    BY <2>1, CurrentFacts DEF Sections
  <2>3. /\ UNCHANGED <<running, in_handler, rflags>>
        /\ call' = [call EXCEPT ![Current] = k]
        /\ IF_' = g[n].saved /\ locked' = locked
        /\ guards' = [guards EXCEPT ![Current] = h]
    BY <1>6, <2>2, CurrentFacts DEF enable, Unchanged
  <2>4. (h # << >> => ~g[n].saved) /\ (in_handler => ~g[n].saved)
    BY <2>1, CurrentFacts
  <2> HIDE DEF h
  <2>5. /\ \A i \in 2 .. Len(h) : ~h[i].saved
        /\ in_handler /\ h # << >> => ~h[1].saved
        /\ \A i, j \in 1 .. Len(h) :
              i # j /\ h[i].mutex # NoMutex => h[i].mutex # h[j].mutex
    <3>1. /\ g \in Seq(Sections)
          /\ \A i \in 2 .. n : ~g[i].saved
          /\ in_handler => ~g[1].saved
          /\ \A i, j \in 1 .. n : i # j /\ g[i].mutex # NoMutex => g[i].mutex # g[j].mutex
      BY <2>1, CurrentFacts
    <3>2. n = Len(g)
      OBVIOUS
    <3>3. /\ h \in Seq(Sections) /\ n \in Nat \ {0} /\ Len(h) = n - 1
          /\ \A i \in 1 .. n - 1 : h[i] = g[i]
      BY <2>1
    <3> HIDE DEF g, n
    <3>4. /\ \A i \in 2 .. Len(h) : ~h[i].saved
          /\ h # << >> => h[1] = g[1]
          /\ \A i, j \in 1 .. Len(h) :
                i # j /\ h[i].mutex # NoMutex => h[i].mutex # h[j].mutex
      BY <3>1, <3>2, <3>3, LeaveNests, ZenonT(30)
    <3> QED
      BY <3>1, <3>4
  <2>6. locked = MutexesOf(h)
    BY <2>1, CurrentFacts DEF MutexesOf
  <2>7. /\ k.op = "none" /\ ~k.saved /\ k \in Calls \cup {NoCall}
        /\ h \in Seq(Sections) /\ locked \in SUBSET Mutexes
    BY <2>1, CurrentFacts DEF NoCall
  <2> HIDE DEF k, g, n
  <2> QED
    BY <2>2, <2>3, <2>4, <2>5, <2>6, <2>7, OwnStep, ZenonT(30)
<1>7. CASE stihlt
  <2>1. /\ UNCHANGED <<running, in_handler, rflags>>
        /\ call' = [call EXCEPT ![Current] = k]
        /\ k = NoCall /\ g = << >> /\ ~in_handler
        /\ IF_' = TRUE /\ locked' = locked
        /\ guards' = [guards EXCEPT ![Current] = g]
    BY <1>7, CurrentFacts DEF stihlt, Unchanged, Idle, Current
  <2>2. NoCall.op = "none"
    BY DEF NoCall
  <2> QED
    BY <2>1, <2>2, CurrentFacts, OwnStep, ZenonT(30)
<1> QED
  BY <1>1, <1>2, <1>3, <1>4, <1>5, <1>6, <1>7

(* The locks of sync/mutex.rs: a locked mutex is held by the context on    *)
(* the processor, with the interrupts off, so that spin_lock never spins   *)
(* and try_lock fails only for its holder; and the flag comes back.        *)
THEOREM LockHolderRuns ==
    ASSUME MutexAssumption PROVE Spec => []HolderRuns
<1>1. Init => IInv
  <2> SUFFICES ASSUME Init PROVE IInv
    OBVIOUS
  <2>1. TypeOK
    <3>1. << >> \in Seq(Sections) /\ NoCall \in Calls \cup {NoCall}
      OBVIOUS
    <3> QED
      BY <3>1, ZenonT(30) DEF Init, TypeOK
  <2>4. \A c \in Contexts : guards[c] = << >> /\ call[c] = NoCall /\ Held(c) = {}
    BY DEF Init, Held, MutexesOf
  <2>2. Current \in Contexts
    BY <2>1, OnContext
  <2>3. NoCall.op = "none" /\ ~NoCall.saved
    BY DEF NoCall
  <2>5. HeldHere /\ Distinct
    BY <2>2, <2>3, <2>4 DEF Init, HeldHere, Distinct
  <2>6. FlagsNest
    BY <2>3, <2>4 DEF FlagsNest
  <2>7. Suspended
    BY <2>4 DEF Init, Suspended, Contexts
  <2> QED
    BY <2>1, <2>5, <2>6, <2>7 DEF IInv
<1>2. IInv /\ [Next]_vars => IInv'
  <2> SUFFICES ASSUME IInv, [Next]_vars PROVE IInv'
    OBVIOUS
  <2>1. CASE UNCHANGED vars
    BY <2>1 DEF vars, IInv, TypeOK, HeldHere, FlagsNest, Distinct, Suspended, Current, Held
  <2>2. CASE Next
    BY <2>2, OwnActions, Switches DEF Next
  <2> QED
    BY <2>1, <2>2
<1>3. IInv => HolderRuns
  <2> SUFFICES ASSUME IInv PROVE HeldHere /\ NeverSpins
    BY DEF HolderRuns, IInv
  <2>1. HeldHere
    BY DEF IInv
  <2> QED
    BY CurrentFacts, OnContext, ZenonT(30) DEF IInv, NeverSpins, HeldHere, Distinct, Held
<1> QED
  BY <1>1, <1>2, <1>3, PTL DEF Spec

----------------------------------------------------------------------------
(* The elements of a queue after push_back.                                *)
LEMMA AppendElements ==
    \A S : \A q \in Seq(S), x \in S :
        /\ Append(q, x) \in Seq(S)
        /\ Len(Append(q, x)) = Len(q) + 1
        /\ \A i \in 1 .. Len(q) : Append(q, x)[i] = q[i]
        /\ Append(q, x)[Len(q) + 1] = x
OBVIOUS

(* The elements of a queue after pop_front and, for a pending task,        *)
(* push_back (Executor::poll).                                             *)
LEMMA RequeuedElements ==
    ASSUME NEW S, NEW q \in Seq(S), Len(q) > 0, NEW pending \in BOOLEAN,
           NEW w, w = requeued(Tail(q), Head(q), pending)
    PROVE  /\ w \in Seq(S)
           /\ Len(w) = IF pending THEN Len(q) ELSE Len(q) - 1
           /\ \A i \in 1 .. Len(q) - 1 : w[i] = q[i + 1]
           /\ pending => w[Len(q)] = q[1]
<1>1. /\ Tail(q) \in Seq(S) /\ Len(Tail(q)) = Len(q) - 1 /\ Head(q) = q[1] /\ q[1] \in S
      /\ \A i \in 1 .. Len(q) - 1 : Tail(q)[i] = q[i + 1]
    OBVIOUS
<1>2. CASE pending
    <2>1. w = Append(Tail(q), q[1])
        BY <1>1, <1>2 DEF requeued
    <2>2. /\ Append(Tail(q), q[1]) \in Seq(S)
          /\ Len(Append(Tail(q), q[1])) = Len(Tail(q)) + 1
          /\ \A i \in 1 .. Len(Tail(q)) : Append(Tail(q), q[1])[i] = Tail(q)[i]
          /\ Append(Tail(q), q[1])[Len(Tail(q)) + 1] = q[1]
        BY <1>1, AppendElements, Zenon
    <2>3. Len(Tail(q)) + 1 = Len(q)
        BY <1>1
    <2>4. /\ w \in Seq(S) /\ Len(w) = Len(q) /\ w[Len(q)] = q[1]
          /\ \A i \in 1 .. Len(q) - 1 : w[i] = q[i + 1]
        BY <1>1, <2>1, <2>2, <2>3, Zenon
    <2>. QED
        BY <1>2, <2>4, Zenon
<1>3. CASE ~pending
    BY <1>1, <1>3 DEF requeued
<1>. QED
    BY <1>2, <1>3

(* A queue that holds no task twice is no longer than its priority has     *)
(* tasks.                                                                  *)
LEMMA QueueFits ==
    ASSUME NEW p, NEW q \in Seq(DriverTasks),
           \A i \in 1 .. Len(q) : priority[q[i]] = p,
           \A i, j \in 1 .. Len(q) : q[i] = q[j] => i = j
    PROVE  Cardinality(OfPriority(p)) \in Nat /\ Len(q) <= Cardinality(OfPriority(p))
<1>1. IsFiniteSet(OfPriority(p)) /\ Cardinality(OfPriority(p)) \in Nat
    <2>1. OfPriority(p) \in SUBSET DriverTasks
        BY DEF OfPriority
    <2>. QED
        BY <2>1, ExecutorAssumption, FS_Subset, FS_CardinalityType
<1>2. q \in Injection(1 .. Len(q), OfPriority(p))
    BY DEF Injection, OfPriority, IsInjective
<1>3. Cardinality(1 .. Len(q)) <= Cardinality(OfPriority(p))
    BY <1>1, <1>2, FS_Injection
<1>4. Len(q) \in Nat
    OBVIOUS
<1>5. Cardinality(1 .. Len(q)) = Len(q)
    <2>1. 1 \in Int /\ Len(q) \in Int
        BY <1>4
    <2>2. Cardinality(1 .. Len(q)) = IF 1 > Len(q) THEN 0 ELSE Len(q) - 1 + 1
        BY <2>1, FS_Interval, Zenon
    <2>3. (IF 1 > Len(q) THEN 0 ELSE Len(q) - 1 + 1) = Len(q)
        BY <1>4
    <2>. QED
        BY <2>2, <2>3
<1>. QED
    BY <1>1, <1>3, <1>5

(* push_back of a new task keeps a queue in order.                         *)
LEMMA HoldsAppend ==
    ASSUME NEW p, NEW W, NEW q \in Seq(DriverTasks), Holds(q, p, W),
           NEW t \in DriverTasks, t \notin W, priority[t] = p
    PROVE  Holds(Append(q, t), p, W \cup {t})
<1>1. PICK w : w = Append(q, t)
    BY Zenon
<1>2. /\ Len(w) = Len(q) + 1 /\ Len(q) \in Nat /\ w[Len(q) + 1] = t
      /\ \A i \in 1 .. Len(q) : w[i] = q[i]
    BY <1>1
<1>3. \A i \in 1 .. Len(w) : i \in 1 .. Len(q) \/ i = Len(q) + 1
    BY <1>2
<1>4. \A i \in 1 .. Len(w) : w[i] \in W \cup {t} /\ priority[w[i]] = p
    BY <1>2, <1>3 DEF Holds
<1>5. \A i, j \in 1 .. Len(w) : w[i] = w[j] => i = j
    BY <1>2, <1>3 DEF Holds
<1>6. \A u \in W \cup {t} : priority[u] = p => \E i \in 1 .. Len(w) : w[i] = u
    <2>1. Len(q) + 1 \in 1 .. Len(w) /\ \A i \in 1 .. Len(q) : i \in 1 .. Len(w)
        BY <1>2
    <2>. QED
        BY <1>2, <2>1 DEF Holds
<1>. QED
    BY <1>1, <1>4, <1>5, <1>6 DEF Holds

(* pop_front, and push_back of a pending task, keep a queue in order.      *)
LEMMA HoldsRequeued ==
    ASSUME NEW p, NEW W, NEW q \in Seq(DriverTasks), Holds(q, p, W), Len(q) > 0,
           NEW pending \in BOOLEAN
    PROVE  Holds(requeued(Tail(q), Head(q), pending), p, IF pending THEN W ELSE W \ {q[1]})
<1>1. PICK w : w = requeued(Tail(q), Head(q), pending)
    OBVIOUS
<1>2. /\ Len(q) \in Nat
      /\ Len(w) = IF pending THEN Len(q) ELSE Len(q) - 1
      /\ \A i \in 1 .. Len(q) - 1 : w[i] = q[i + 1]
      /\ pending => w[Len(q)] = q[1]
    BY <1>1, RequeuedElements
<1>3. PICK V : V = IF pending THEN W ELSE W \ {q[1]}
    BY Zenon
<1>4. 1 \in 1 .. Len(q) /\ \A i \in 1 .. Len(q) - 1 : i + 1 \in 1 .. Len(q) /\ i + 1 # 1
    <2>1. Len(q) \in Nat
        BY <1>2
    <2>. QED
        BY <2>1
<1>5. \A i \in 1 .. Len(w) : i \in 1 .. Len(q) - 1 \/ (pending /\ i = Len(q))
    BY <1>2
<1>6. \A i \in 1 .. Len(w) : w[i] \in V /\ priority[w[i]] = p
    BY <1>2, <1>3, <1>4, <1>5 DEF Holds
<1>7. \A i, j \in 1 .. Len(w) : w[i] = w[j] => i = j
    BY <1>2, <1>4, <1>5 DEF Holds
<1>8. ASSUME NEW u \in V, priority[u] = p PROVE \E i \in 1 .. Len(w) : w[i] = u
    <2>1. PICK k \in 1 .. Len(q) : q[k] = u
        BY <1>3, <1>8 DEF Holds
    <2>2. CASE k = 1
        <3>1. pending
            BY <1>3, <2>1, <2>2
        <3>. QED
            BY <1>2, <2>1, <2>2, <3>1
    <2>3. CASE k # 1
        <3>1. k - 1 \in 1 .. Len(q) - 1 /\ (k - 1) + 1 = k /\ k - 1 \in 1 .. Len(w)
            BY <1>2, <2>3
        <3>. QED
            BY Zenon, <1>2, <2>1, <3>1
    <2>. QED
        BY <2>2, <2>3
<1>9. Holds(w, p, V)
    BY <1>6, <1>7, <1>8 DEF Holds
<1>. QED
    BY <1>1, <1>3, <1>9

(* Tasks of other priorities do not matter to a queue.                     *)
LEMMA HoldsOther ==
    ASSUME NEW p, NEW q, NEW W, NEW V, Holds(q, p, W),
           \A u : priority[u] = p => (u \in V <=> u \in W)
    PROVE  Holds(q, p, V)
BY DEF Holds

(* Taking turns also goes on when poll_count wraps.                        *)
LEMMA NextCount ==
    ASSUME poll_count \in 0 .. CountWrap - 1, NEW s \in {2, 4}
    PROVE  /\ next_count \in 0 .. CountWrap - 1
           /\ poll_count % s \in 0 .. s - 1
           /\ next_count % s = IF poll_count % s = s - 1 THEN 0 ELSE (poll_count % s) + 1
<1>1. CountWrap \in Nat /\ CountWrap > 0 /\ CountWrap % 4 = 0
    BY ExecutorAssumption
<1>2. next_count = IF poll_count + 1 = CountWrap THEN 0 ELSE poll_count + 1
    BY <1>1 DEF next_count
<1>3. CountWrap % 2 = 0
    BY <1>1
<1>4. CASE s = 2
    BY <1>1, <1>2, <1>3, <1>4
<1>5. CASE s = 4
    BY <1>1, <1>2, <1>5
<1>. QED
    BY <1>4, <1>5

(* Arithmetic of the turns: a call that goes by, and one place gained.     *)
LEMMA TurnArithmetic ==
    ASSUME NEW a \in Nat, NEW i \in Nat, NEW n \in Nat, NEW c \in Nat, NEW s \in {2, 4}
    PROVE  /\ a + i * s <= s * n + c => (a + 1) + i * s <= s * n + (c + 1)
           /\ a + (i + 1) * s <= s * n + s => a + i * s <= s * n + 0
<1>1. CASE s = 2
    BY <1>1
<1>2. CASE s = 4
    BY <1>2
<1>. QED
    BY <1>1, <1>2

(* Only one call of poll may be missing between two visits of a queue.     *)
LEMMA SinceBounds ==
    ASSUME ExecTypeOK, NEW p \in {"Normal", "Low"}
    PROVE  /\ Stride(p) \in {2, 4}
           /\ since(p) \in 0 .. Stride(p)
           /\ ~ahead(p) => since(p) < Stride(p)
<1>1. Stride(p) \in {2, 4}
    BY DEF Stride
<1>2. poll_count \in Nat
    BY ExecutorAssumption DEF ExecTypeOK
<1>3. poll_count % 2 \in 0 .. 1 /\ poll_count % 4 \in 0 .. 3
    BY <1>2
<1>. QED
    BY <1>1, <1>3 DEF since

(* The waiting tasks of a queue, in a form that the steps below use.       *)
LEMMA QueueFacts ==
    ASSUME ExecTypeOK, QueuesHold, NEW p \in Priority
    PROVE  /\ task_queues[p] \in Seq(DriverTasks)
           /\ Len(task_queues[p]) \in Nat
           /\ Cardinality(OfPriority(p)) \in Nat
           /\ Len(task_queues[p]) <= Cardinality(OfPriority(p))
           /\ \A i \in 1 .. Len(task_queues[p]) :
                 /\ task_queues[p][i] \in DriverTasks
                 /\ age[task_queues[p][i]] \in Nat
                 /\ priority[task_queues[p][i]] = p
<1>1. task_queues[p] \in Seq(DriverTasks) /\ Len(task_queues[p]) \in Nat
    BY DEF ExecTypeOK
<1>2. \A i \in 1 .. Len(task_queues[p]) :
          task_queues[p][i] \in DriverTasks /\ priority[task_queues[p][i]] = p
    BY DEF QueuesHold, Holds, ExecTypeOK
<1>3. \A i \in 1 .. Len(task_queues[p]) : age[task_queues[p][i]] \in Nat
    BY <1>2 DEF ExecTypeOK
<1>4. \A i, j \in 1 .. Len(task_queues[p]) : task_queues[p][i] = task_queues[p][j] => i = j
    BY DEF QueuesHold, Holds
<1>5. /\ Cardinality(OfPriority(p)) \in Nat
      /\ Len(task_queues[p]) <= Cardinality(OfPriority(p))
    BY <1>1, <1>2, <1>4, QueueFits, Zenon
<1>. QED
    BY <1>1, <1>2, <1>3, <1>5, Zenon

(* The executor starts with nothing to poll.                               *)
LEMMA ExecInitInv == ExecInit => ExecInv
<1>. SUFFICES ASSUME ExecInit PROVE ExecInv
    OBVIOUS
<1>1. ExecTypeOK
    <2>1. task_queues \in [Priority -> Seq(DriverTasks)]
        BY DEF ExecInit
    <2>2. poll_count \in 0 .. CountWrap - 1
        BY ExecutorAssumption DEF ExecInit
    <2>. QED
        BY Zenon, <2>1, <2>2 DEF ExecInit, ExecTypeOK
<1>2. \A p \in Priority : Len(task_queues[p]) = 0
    BY DEF ExecInit
<1>3. QueuesHold
    BY <1>2 DEF ExecInit, QueuesHold, Holds
<1>4. WaitBounded
    BY <1>2 DEF WaitBounded, Priority
<1>5. HighPolled
    BY <1>2 DEF HighPolled, Priority
<1>. QED
    BY <1>1, <1>3, <1>4, <1>5 DEF ExecInit, ExecInv

(* A spawned task is the last of its queue and has waited for no call.     *)
LEMMA SpawnKeeps ==
    ASSUME ExecInv, NEW t \in DriverTasks, spawn(t)
    PROVE  ExecInv'
<1>. DEFINE p0 == priority[t]
            q == task_queues[p0]
            q1 == task_queues'[p0]
<1>1. ExecTypeOK /\ QueuesHold /\ WaitBounded /\ HighPolled /\ age[t] = 0
    BY DEF ExecInv, spawn
<1>2. p0 \in Priority
    BY ExecutorAssumption
<1>3. q \in Seq(DriverTasks) /\ Len(q) \in Nat
    BY <1>1, <1>2 DEF ExecTypeOK
<1>4. /\ q1 = Append(q, t)
      /\ \A p \in Priority : p # p0 => task_queues'[p] = task_queues[p]
    BY <1>1, <1>2 DEF spawn, ExecTypeOK
<1>5. /\ q1 \in Seq(DriverTasks) /\ Len(q1) = Len(q) + 1 /\ q1[Len(q) + 1] = t
      /\ \A i \in 1 .. Len(q) : q1[i] = q[i]
    <2>. HIDE DEF q, q1
    <2>. QED
        BY <1>3, <1>4, AppendElements
<1>6. \A i \in 1 .. Len(q1) : i \in 1 .. Len(q) \/ i = Len(q) + 1
    BY <1>3, <1>5
<1>7. t \notin spawned /\ spawned' = spawned \cup {t} /\ done' = done /\ age' = age
    BY DEF spawn
<1>8. is_ready' = is_ready /\ poll_count' = poll_count /\ queue' = queue /\ left' = left /\ queue = "none"
    BY DEF spawn, unlocked
<1>9. ExecTypeOK'
    <2>1. task_queues' \in [Priority -> Seq(DriverTasks)]
        BY <1>1, <1>2, <1>4, <1>5 DEF spawn, ExecTypeOK
    <2>. QED
        BY <1>1, <1>7, <1>8, <2>1 DEF ExecTypeOK
<1>10. t \notin done /\ spawned' \ done' = (spawned \ done) \cup {t}
    BY <1>1, <1>7 DEF ExecTypeOK
<1>11. QueuesHold'
    <2>1. Holds(q1, p0, (spawned \ done) \cup {t})
        <3>1. Holds(q, p0, spawned \ done) /\ t \notin spawned \ done
            BY <1>1, <1>2, <1>7 DEF QueuesHold
        <3>. QED
            BY <1>3, <1>4, <3>1, HoldsAppend
    <2>2. ASSUME NEW p \in Priority, p # p0
          PROVE  Holds(task_queues[p], p, (spawned \ done) \cup {t})
        <3>1. Holds(task_queues[p], p, spawned \ done)
            BY <1>1 DEF QueuesHold
        <3>2. \A u : priority[u] = p => (u \in (spawned \ done) \cup {t} <=> u \in spawned \ done)
            BY <2>2
        <3>. QED
            BY <3>1, <3>2, HoldsOther
    <2>. QED
        BY <1>4, <1>10, <2>1, <2>2, Zenon DEF QueuesHold
<1>12. \A p \in Priority : since(p)' = since(p)
    BY <1>8 DEF since, ahead
<1>13. WaitBounded'
    <2>. SUFFICES ASSUME NEW p \in {"Normal", "Low"}, NEW i \in 1 .. Len(task_queues'[p])
         PROVE  age[task_queues'[p][i]] + i * Stride(p)
                    <= Stride(p) * Cardinality(OfPriority(p)) + since(p)
        BY <1>7, <1>12 DEF WaitBounded, Priority
    <2>1. CASE p # p0 \/ i \in 1 .. Len(q)
        <3>1. i \in 1 .. Len(task_queues[p]) /\ task_queues'[p][i] = task_queues[p][i]
            BY <1>4, <1>5, <2>1 DEF Priority
        <3>. QED
            BY <1>1, <3>1 DEF WaitBounded
    <2>2. CASE p = p0 /\ i = Len(q) + 1
        <3>1. age[task_queues'[p][i]] = 0
            BY <1>1, <1>5, <2>2
        <3>2. Cardinality(OfPriority(p)) \in Nat /\ i <= Cardinality(OfPriority(p))
            <4>1. Holds(q1, p0, spawned' \ done')
                BY <1>2, <1>11 DEF QueuesHold
            <4>2. Cardinality(OfPriority(p0)) \in Nat /\ Len(q1) <= Cardinality(OfPriority(p0))
                <5>. HIDE DEF p0, q1
                <5>. QED
                    BY <1>5, <4>1, QueueFits DEF Holds
            <4>. QED
                BY <1>5, <2>2, <4>2
        <3>3. Stride(p) \in {2, 4} /\ since(p) \in 0 .. Stride(p)
            BY <1>1, SinceBounds
        <3>4. PICK n \in Nat : n = Cardinality(OfPriority(p))
            BY <3>2
        <3>5. i * Stride(p) <= Stride(p) * n
            BY <3>2, <3>3, <3>4
        <3>. QED
            BY <3>1, <3>3, <3>4, <3>5
    <2>. QED
        BY <1>6, <2>1, <2>2
<1>14. HighPolled'
    <2>. SUFFICES ASSUME NEW i \in 1 .. Len(task_queues'["High"])
         PROVE  age[task_queues'["High"][i]] <= 0
        BY <1>7, <1>8 DEF HighPolled
    <2>1. CASE p0 # "High" \/ i \in 1 .. Len(q)
        <3>1. i \in 1 .. Len(task_queues["High"]) /\ task_queues'["High"][i] = task_queues["High"][i]
            <4>1. CASE p0 # "High"
                <5>1. task_queues'["High"] = task_queues["High"]
                    BY <1>4, <4>1, Zenon DEF Priority
                <5>. QED
                    BY <5>1, Zenon
            <4>2. CASE p0 = "High"
                BY <1>5, <2>1, <4>2, Zenon
            <4>. QED
                BY <4>1, <4>2, Zenon
        <3>. QED
            BY <1>1, <1>8, <3>1 DEF HighPolled
    <2>2. CASE p0 = "High" /\ i = Len(q) + 1
        BY <1>1, <1>5, <2>2
    <2>. QED
        BY <1>6, <2>1, <2>2
<1>. QED
    BY <1>7, <1>8, <1>9, <1>11, <1>13, <1>14 DEF ExecInv

(* ready finds a poll_count that has not moved.                            *)
LEMMA ReadyKeeps ==
    ASSUME ExecInv, ready
    PROVE  ExecInv'
<1>1. poll_count' = poll_count /\ queue' = queue /\ left' = left /\ queue = "none"
    BY DEF ExecInv, ready, unlocked
<1>2. task_queues' = task_queues /\ spawned' = spawned /\ done' = done /\ age' = age /\ is_ready' = TRUE
    BY DEF ready
<1>3. \A p : since(p)' = since(p)
    BY <1>1, Zenon DEF since, ahead
<1>4. ExecTypeOK' /\ QueuesHold' /\ WaitBounded' /\ HighPolled'
    BY <1>1, <1>2, <1>3, Zenon DEF ExecInv, ExecTypeOK, QueuesHold, WaitBounded, HighPolled
<1>. QED
    BY <1>1, <1>2, <1>4, Zenon DEF ExecInv

(* When a call begins every waiting task is one call older, and every      *)
(* queue is ahead.                                                         *)
LEMMA PollKeeps ==
    ASSUME ExecInv, poll
    PROVE  ExecInv'
<1>1. ExecTypeOK /\ QueuesHold /\ WaitBounded /\ HighPolled /\ queue = "none"
    BY DEF ExecInv, poll, unlocked
<1>2. /\ task_queues' = task_queues /\ is_ready' = is_ready /\ is_ready
      /\ spawned' = spawned /\ done' = done /\ poll_count' = next_count
    BY DEF poll
<1>3. left' = Len(task_queues["High"]) /\ left' \in Nat /\ queue' = "High"
    <2>1. CountWrap \in Nat /\ CountWrap > 0 /\ poll_count \in Nat
        BY <1>1, ExecutorAssumption DEF ExecTypeOK
    <2>2. next_count \in Nat
        BY <2>1 DEF next_count
    <2>3. next_count % 1 = 0
        BY <2>2
    <2>4. Len(task_queues["High"]) \in Nat
        BY <1>1, QueueFacts DEF Priority
    <2>. QED
        BY <2>3, <2>4 DEF poll, count, Stride
<1>4. /\ age' \in [DriverTasks -> Nat]
      /\ \A t \in spawned \ done : age'[t] = age[t] + 1
      /\ \A t \in DriverTasks \ spawned : age'[t] = age[t]
    BY <1>1 DEF poll, ExecTypeOK
<1>5. ExecTypeOK'
    <2>1. next_count \in 0 .. CountWrap - 1
        BY <1>1, NextCount DEF ExecTypeOK
    <2>. QED
        BY <1>1, <1>2, <1>3, <1>4, <2>1 DEF ExecTypeOK, Priority
<1>6. QueuesHold'
    BY <1>1, <1>2, Zenon DEF QueuesHold
<1>7. WaitBounded'
    <2>. SUFFICES ASSUME NEW p \in {"Normal", "Low"}, NEW i \in 1 .. Len(task_queues[p])
         PROVE  age'[task_queues[p][i]] + i * Stride(p)
                    <= Stride(p) * Cardinality(OfPriority(p)) + since(p)'
        BY <1>2 DEF WaitBounded
    <2>1. age'[task_queues[p][i]] = age[task_queues[p][i]] + 1
        BY <1>1, <1>4 DEF QueuesHold, Holds, Priority
    <2>2. Stride(p) \in {2, 4}
        BY <1>1, SinceBounds
    <2>3. /\ poll_count % Stride(p) \in 0 .. Stride(p) - 1
          /\ next_count % Stride(p) =
                IF poll_count % Stride(p) = Stride(p) - 1 THEN 0 ELSE (poll_count % Stride(p)) + 1
        BY Zenon, <1>1, <2>2, NextCount DEF ExecTypeOK
    <2>4. since(p) = poll_count % Stride(p)
        BY <1>1 DEF since, ahead
    <2>5. since(p)' = IF next_count % Stride(p) = 0 THEN Stride(p) ELSE next_count % Stride(p)
        BY <1>2, <1>3 DEF since, ahead
    <2>6. since(p)' = since(p) + 1 /\ since(p) \in Nat
        BY <2>2, <2>3, <2>4, <2>5
    <2>7. /\ age[task_queues[p][i]] \in Nat /\ Cardinality(OfPriority(p)) \in Nat /\ i \in Nat
        BY <1>1, QueueFacts DEF Priority
    <2>8. age[task_queues[p][i]] + i * Stride(p) <= Stride(p) * Cardinality(OfPriority(p)) + since(p)
        BY <1>1 DEF WaitBounded
    <2>. QED
        BY <2>1, <2>2, <2>6, <2>7, <2>8, TurnArithmetic, Zenon
<1>8. HighPolled'
    <2>. SUFFICES ASSUME NEW i \in 1 .. Len(task_queues["High"])
         PROVE  age'[task_queues["High"][i]] <= 1
        BY <1>2, <1>3 DEF HighPolled
    <2>1. age'[task_queues["High"][i]] = age[task_queues["High"][i]] + 1
        BY <1>1, <1>4 DEF QueuesHold, Holds, Priority
    <2>2. age[task_queues["High"][i]] \in Nat /\ age[task_queues["High"][i]] <= 0
        BY <1>1, QueueFacts DEF HighPolled, Priority
    <2>. QED
        BY <2>1, <2>2
<1>9. \A t \in DriverTasks \ spawned' : age'[t] = 0
    BY <1>2, <1>4 DEF ExecInv
<1>10. left' <= Len(task_queues'[queue'])
    BY <1>2, <1>3
<1>. QED
    BY <1>2, <1>3, <1>5, <1>6, <1>7, <1>8, <1>9, <1>10 DEF ExecInv

(* The polled task goes to the back or is done, those behind it move up,   *)
(* and the other queues stay as they are.                                  *)
LEMMA PollTaskKeeps ==
    ASSUME ExecInv, NEW pending \in BOOLEAN, poll_task(pending)
    PROVE  ExecInv'
<1>. DEFINE q == task_queues[queue]
            q1 == task_queues'[queue]
<1>1. ExecTypeOK /\ QueuesHold /\ WaitBounded /\ HighPolled
    BY DEF ExecInv
<1>2. queue \in Priority /\ queue # "none" /\ left \in Nat /\ left > 0 /\ left' = left - 1
    BY <1>1 DEF poll_task, unlocked, ExecTypeOK
<1>3. /\ left <= Len(q)
      /\ queue # "High" => left = 1 /\ poll_count % Stride(queue) = 0
    BY <1>2 DEF ExecInv, Priority
<1>4. q \in Seq(DriverTasks) /\ Len(q) \in Nat /\ Len(q) > 0
    BY <1>1, <1>2, <1>3, QueueFacts
<1>5. Head(q) = q[1] /\ 1 \in 1 .. Len(q)
    BY <1>4
<1>6. /\ q1 = requeued(Tail(q), Head(q), pending)
      /\ \A p \in Priority : p # queue => task_queues'[p] = task_queues[p]
    BY <1>1, <1>2 DEF poll_task, ExecTypeOK
<1>7. /\ q1 \in Seq(DriverTasks)
      /\ Len(q1) = IF pending THEN Len(q) ELSE Len(q) - 1
      /\ \A i \in 1 .. Len(q) - 1 : q1[i] = q[i + 1]
      /\ pending => q1[Len(q)] = q[1]
    <2>. HIDE DEF q, q1
    <2>. QED
        BY <1>4, <1>6, RequeuedElements
<1>8. Holds(q, queue, spawned \ done)
    BY <1>1, <1>2 DEF QueuesHold
<1>9. /\ q[1] \in DriverTasks /\ q[1] \in spawned \ done /\ priority[q[1]] = queue
    BY <1>1, <1>5, <1>8 DEF Holds, ExecTypeOK
<1>10. /\ is_ready' = is_ready /\ poll_count' = poll_count /\ queue' = queue /\ spawned' = spawned
       /\ done' = IF pending THEN done ELSE done \cup {q[1]}
       /\ age' = [age EXCEPT ![q[1]] = 0]
    BY <1>5 DEF poll_task
<1>11. /\ age' \in [DriverTasks -> Nat]
       /\ age'[q[1]] = 0
       /\ \A u \in DriverTasks : u # q[1] => age'[u] = age[u]
    BY <1>1, <1>9, <1>10 DEF ExecTypeOK
<1>12. spawned' \ done' = IF pending THEN spawned \ done ELSE (spawned \ done) \ {q[1]}
    BY <1>10
<1>13. ExecTypeOK'
    <2>1. task_queues' \in [Priority -> Seq(DriverTasks)]
        BY <1>1, <1>2, <1>6, <1>7 DEF poll_task, ExecTypeOK
    <2>2. done' \subseteq spawned' /\ spawned' \subseteq DriverTasks
        BY <1>1, <1>9, <1>10 DEF ExecTypeOK
    <2>. QED
        BY <1>1, <1>2, <1>10, <1>11, <2>1, <2>2 DEF ExecTypeOK
<1>14. QueuesHold'
    <2>1. Holds(q1, queue, spawned' \ done')
        <3>. HIDE DEF q, q1
        <3>. QED
            BY <1>4, <1>6, <1>8, <1>12, HoldsRequeued, Zenon
    <2>2. ASSUME NEW p \in Priority, p # queue
          PROVE  Holds(task_queues[p], p, spawned' \ done')
        <3>1. Holds(task_queues[p], p, spawned \ done)
            BY <1>1 DEF QueuesHold
        <3>2. \A u : priority[u] = p => (u \in spawned' \ done' <=> u \in spawned \ done)
            BY <1>9, <1>12, <2>2
        <3>. QED
            BY <3>1, <3>2, HoldsOther
    <2>. QED
        BY Zenon, <1>6, <1>10, <2>1, <2>2 DEF QueuesHold
<1>15. ASSUME NEW p \in Priority, p # queue, NEW i \in 1 .. Len(task_queues'[p])
       PROVE  /\ i \in 1 .. Len(task_queues[p]) /\ task_queues'[p][i] = task_queues[p][i]
              /\ age'[task_queues'[p][i]] = age[task_queues[p][i]]
    <2>1. task_queues'[p] = task_queues[p] /\ i \in 1 .. Len(task_queues[p])
        BY <1>6, <1>15
    <2>2. task_queues[p][i] \in DriverTasks /\ priority[task_queues[p][i]] = p
        BY <1>1, <2>1, QueueFacts
    <2>. QED
        BY <1>9, <1>11, <1>15, <2>1, <2>2
<1>16. ASSUME NEW i \in 1 .. Len(q1)
       PROVE  \/ /\ i \in 1 .. Len(q) - 1 /\ i + 1 \in 1 .. Len(q)
                 /\ q1[i] = q[i + 1] /\ age'[q1[i]] = age[q[i + 1]]
              \/ i = Len(q) /\ age'[q1[i]] = 0
    <2>1. i \in 1 .. Len(q) - 1 \/ (pending /\ i = Len(q))
        BY <1>4, <1>7
    <2>2. CASE i \in 1 .. Len(q) - 1
        <3>1. i + 1 \in 1 .. Len(q) /\ i + 1 # 1
            BY <1>4, <2>2
        <3>2. q[i + 1] # q[1] /\ q[i + 1] \in DriverTasks
            BY <1>1, <1>5, <1>8, <3>1 DEF Holds, ExecTypeOK
        <3>. QED
            BY Zenon, <1>7, <1>11, <2>2, <3>1, <3>2
    <2>3. CASE pending /\ i = Len(q)
        BY <1>7, <1>11, <2>3
    <2>. QED
        BY <2>1, <2>2, <2>3
<1>17. WaitBounded'
    <2>. SUFFICES ASSUME NEW p \in {"Normal", "Low"}, NEW i \in 1 .. Len(task_queues'[p])
         PROVE  age'[task_queues'[p][i]] + i * Stride(p)
                    <= Stride(p) * Cardinality(OfPriority(p)) + since(p)'
        BY DEF WaitBounded
    <2>0. p \in Priority
        BY DEF Priority
    <2>1. CASE p # queue
        <3>1. since(p)' = since(p)
            BY <1>10, <2>1 DEF since, ahead
        <3>. QED
            BY <1>1, <1>15, <2>0, <2>1, <3>1 DEF WaitBounded
    <2>2. CASE p = queue
        <3>1. left = 1 /\ left' = 0 /\ poll_count % Stride(p) = 0
            BY <1>2, <1>3, <2>2
        <3>2. since(p) = Stride(p) /\ since(p)' = 0
            BY <1>10, <2>2, <3>1 DEF since, ahead
        <3>3. PICK n \in Nat : n = Cardinality(OfPriority(p)) /\ Len(q) <= n
            BY <1>1, <2>0, <2>2, QueueFacts
        <3>4. Stride(p) \in {2, 4}
            BY <1>1, SinceBounds
        <3>5. CASE i = Len(q) /\ age'[q1[i]] = 0
            <4>1. i \in Nat /\ i <= n
                BY <1>4, <3>3, <3>5
            <4>2. i * Stride(p) <= Stride(p) * n
                BY <3>4, <4>1
            <4>. QED
                BY <2>2, <3>2, <3>3, <3>4, <3>5, <4>1, <4>2
        <3>6. CASE i + 1 \in 1 .. Len(q) /\ age'[q1[i]] = age[q[i + 1]]
            <4>1. age[q[i + 1]] + (i + 1) * Stride(p) <= Stride(p) * n + Stride(p)
                BY <1>1, <2>2, <3>2, <3>3, <3>6 DEF WaitBounded
            <4>2. age[q[i + 1]] \in Nat /\ i \in Nat
                BY <1>1, <1>2, <3>6, QueueFacts
            <4>3. age[q[i + 1]] + i * Stride(p) <= Stride(p) * n + 0
                BY <3>4, <4>1, <4>2, TurnArithmetic, Zenon
            <4>. QED
                BY <2>2, <3>2, <3>3, <3>6, <4>3, Zenon
        <3>. QED
            BY <1>16, <2>2, <3>5, <3>6
    <2>. QED
        BY <2>1, <2>2
<1>18. HighPolled'
    <2>. SUFFICES ASSUME NEW i \in 1 .. Len(task_queues'["High"])
         PROVE  age'[task_queues'["High"][i]] <= IF queue = "High" /\ i <= left' THEN 1 ELSE 0
        BY <1>10 DEF HighPolled
    <2>1. CASE queue # "High"
        BY <1>1, <1>15, <2>1 DEF HighPolled, Priority
    <2>2. CASE queue = "High"
        <3>1. CASE i = Len(q) /\ age'[q1[i]] = 0
            BY <2>2, <3>1
        <3>2. CASE i + 1 \in 1 .. Len(q) /\ age'[q1[i]] = age[q[i + 1]]
            <4>1. age[q[i + 1]] <= IF i + 1 <= left THEN 1 ELSE 0
                BY <1>1, <2>2, <3>2 DEF HighPolled
            <4>2. i + 1 <= left <=> i <= left'
                BY <1>2
            <4>. QED
                BY <2>2, <3>2, <4>1, <4>2
        <3>. QED
            BY <1>16, <2>2, <3>1, <3>2
    <2>. QED
        BY <2>1, <2>2
<1>19. left' <= Len(task_queues'[queue'])
    BY <1>2, <1>3, <1>4, <1>7, <1>10
<1>20. \A u \in DriverTasks \ spawned' : age'[u] = 0
    BY <1>9, <1>10, <1>11 DEF ExecInv
<1>21. is_ready
    BY <1>2 DEF ExecInv
<1>22. queue' \in {"Normal", "Low"} => left' = 0
    BY <1>2, <1>3, <1>10
<1>. QED
    BY <1>2, <1>10, <1>13, <1>14, <1>17, <1>18, <1>19, <1>20, <1>21, <1>22 DEF ExecInv

(* A queue that is skipped, or empty, is behind at once.                   *)
LEMMA NextQueueKeeps ==
    ASSUME ExecInv, next_queue
    PROVE  ExecInv'
<1>1. ExecTypeOK /\ QueuesHold /\ WaitBounded /\ HighPolled
    BY DEF ExecInv
<1>2. /\ task_queues' = task_queues /\ is_ready' = is_ready /\ poll_count' = poll_count
      /\ spawned' = spawned /\ done' = done /\ age' = age
    BY DEF next_queue
<1>3. left = 0 /\ queue \in Priority
    BY <1>1 DEF next_queue, unlocked, ExecTypeOK
<1>4. \/ queue = "High" /\ queue' = "Normal" /\ left' = count("Normal", poll_count)
      \/ queue = "Normal" /\ queue' = "Low" /\ left' = count("Low", poll_count)
      \/ queue = "Low" /\ queue' = "none" /\ left' = 0
    BY <1>3 DEF next_queue, Priority
<1>5. ASSUME NEW p \in {"Normal", "Low"}
      PROVE  \/ count(p, poll_count) = 0 /\ (poll_count % Stride(p) # 0 \/ Len(task_queues[p]) = 0)
             \/ count(p, poll_count) = 1 /\ poll_count % Stride(p) = 0 /\ Len(task_queues[p]) > 0
    <2>1. Len(task_queues[p]) \in Nat
        BY <1>1, QueueFacts DEF Priority
    <2>. QED
        BY <2>1 DEF count
<1>6. left' \in Nat /\ (queue' # "none" => left' <= Len(task_queues[queue']))
    <2>1. \A p \in Priority : Len(task_queues[p]) \in Nat
        BY <1>1, QueueFacts
    <2>. QED
        BY <1>4, <1>5, <2>1 DEF Priority
<1>7. ExecTypeOK'
    BY <1>1, <1>2, <1>4, <1>6 DEF ExecTypeOK, Priority
<1>8. QueuesHold'
    BY <1>1, <1>2, Zenon DEF QueuesHold
<1>9. HighPolled'
    <2>1. queue' # "High"
        BY <1>4
    <2>2. ASSUME NEW i \in 1 .. Len(task_queues["High"])
          PROVE  age[task_queues["High"][i]] <= 0
        BY <1>1, <1>3 DEF HighPolled
    <2>. QED
        BY <1>2, <2>1, <2>2 DEF HighPolled
<1>10. WaitBounded'
    <2>. SUFFICES ASSUME NEW p \in {"Normal", "Low"}, NEW i \in 1 .. Len(task_queues[p])
         PROVE  since(p)' = since(p)
        BY <1>1, <1>2 DEF WaitBounded
    <2>1. Len(task_queues[p]) # 0
        BY <1>1, QueueFacts DEF Priority
    <2>2. CASE queue' = p
        <3>1. ahead(p) /\ left' = count(p, poll_count)
            BY <1>4, <2>2 DEF ahead
        <3>2. CASE poll_count % Stride(p) # 0
            BY <1>2, <3>2 DEF since
        <3>3. CASE count(p, poll_count) = 1
            BY <1>2, <2>2, <3>1, <3>3 DEF since, ahead
        <3>. QED
            BY <1>5, <2>1, <3>2, <3>3
    <2>3. CASE queue' # p
        <3>1. ahead(p)' <=> ahead(p)
            BY <1>3, <1>4, <2>3 DEF ahead
        <3>. QED
            BY <1>2, <3>1 DEF since
    <2>. QED
        BY <2>2, <2>3
<1>11. queue' \in {"Normal", "Low"} /\ left' > 0 => left' = 1 /\ poll_count' % Stride(queue') = 0
    BY <1>2, <1>4, <1>5
<1>12. is_ready
    BY <1>3 DEF ExecInv, Priority
<1>. QED
    BY <1>2, <1>4, <1>6, <1>7, <1>8, <1>9, <1>10, <1>11, <1>12 DEF ExecInv

(* Between two calls the invariant says that the turns are kept.           *)
LEMMA InTurn == ExecInv => TasksInTurn
<1>. SUFFICES ASSUME ExecInv PROVE TasksInTurn
    OBVIOUS
<1>1. ExecTypeOK /\ QueuesHold /\ WaitBounded /\ HighPolled
    BY DEF ExecInv
<1>2. EveryTaskOnce
    <2>. SUFFICES ASSUME NEW t \in DriverTasks, NEW p \in Priority
         PROVE  Cardinality({i \in 1 .. Len(task_queues[p]) : task_queues[p][i] = t})
                    = IF p = priority[t] /\ t \in spawned \ done THEN 1 ELSE 0
        BY <1>1, QueueFacts DEF EveryTaskOnce
    <2>. DEFINE At == {i \in 1 .. Len(task_queues[p]) : task_queues[p][i] = t}
    <2>1. Holds(task_queues[p], p, spawned \ done)
        BY <1>1 DEF QueuesHold
    <2>2. CASE p = priority[t] /\ t \in spawned \ done
        <3>1. PICK k \in 1 .. Len(task_queues[p]) : task_queues[p][k] = t
            BY <2>1, <2>2 DEF Holds
        <3>2. At = {k}
            BY <2>1, <3>1 DEF Holds
        <3>3. Cardinality({k}) = 1
            BY FS_Singleton, Zenon
        <3>. QED
            BY <2>2, <3>2, <3>3, Zenon
    <2>3. CASE ~(p = priority[t] /\ t \in spawned \ done)
        <3>1. At = {}
            BY <2>1, <2>3 DEF Holds
        <3>. QED
            BY <2>3, <3>1, FS_EmptySet, Zenon
    <2>. QED
        BY <2>2, <2>3
<1>3. NotStarved
    <2>. SUFFICES ASSUME queue = "none", NEW t \in spawned \ done
         PROVE  age[t] < Stride(priority[t]) *
                    IF priority[t] = "High" THEN 1 ELSE Cardinality(OfPriority(priority[t]))
        BY DEF NotStarved, unlocked
    <2>1. priority[t] \in Priority
        BY <1>1, ExecutorAssumption DEF ExecTypeOK
    <2>2. PICK p \in Priority : p = priority[t]
        BY <2>1
    <2>3. PICK i \in 1 .. Len(task_queues[p]) : task_queues[p][i] = t
        BY <1>1, <2>2 DEF QueuesHold, Holds
    <2>4. age[t] \in Nat /\ Cardinality(OfPriority(p)) \in Nat
        BY <1>1, <2>3, QueueFacts
    <2>5. CASE p = "High"
        <3>1. age[t] <= 0
            BY <1>1, <2>3, <2>5 DEF HighPolled
        <3>. QED
            BY <2>2, <2>4, <2>5, <3>1 DEF Stride
    <2>6. CASE p # "High"
        <3>1. p \in {"Normal", "Low"}
            BY <2>6 DEF Priority
        <3>2. Stride(p) \in {2, 4} /\ since(p) \in 0 .. Stride(p) /\ since(p) < Stride(p)
            BY <1>1, <3>1, SinceBounds DEF ahead
        <3>3. age[t] + i * Stride(p) <= Stride(p) * Cardinality(OfPriority(p)) + since(p)
            BY <1>1, <2>3, <3>1 DEF WaitBounded
        <3>4. PICK n \in Nat : n = Cardinality(OfPriority(p))
            BY <2>4
        <3>5. i \in Nat /\ i >= 1
            BY <1>1, QueueFacts
        <3>6. age[t] < Stride(p) * n
            BY <2>4, <3>2, <3>3, <3>4, <3>5
        <3>. QED
            BY <2>2, <2>6, <3>4, <3>6
    <2>. QED
        BY <2>5, <2>6
<1>. QED
    BY <1>1, <1>2, <1>3 DEF TasksInTurn

(* Whatever is spawned, and however the futures answer: no future is lost  *)
(* or queued twice, and none waits longer than its priority allows.        *)
THEOREM TasksTakeTurns == ExecSpec => []TasksInTurn
<1>1. ExecInv /\ [ExecNext]_execVars => ExecInv'
    <2>. SUFFICES ASSUME ExecInv, [ExecNext]_execVars PROVE ExecInv'
        OBVIOUS
    <2>1. CASE UNCHANGED execVars
        BY <2>1, Zenon DEF execVars, ExecInv, ExecTypeOK, QueuesHold, WaitBounded, HighPolled, since, ahead
    <2>2. CASE ExecNext
        BY <2>2, SpawnKeeps, ReadyKeeps, PollKeeps, PollTaskKeeps, NextQueueKeeps, Zenon DEF ExecNext
    <2>. QED
        BY <2>1, <2>2
<1>. QED
    BY <1>1, ExecInitInv, InTurn, PTL DEF ExecSpec
=============================================================================
