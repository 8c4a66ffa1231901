--------------------------- MODULE TaskGraphProofs ---------------------------
(***************************************************************************)
(* The task graph for any number of tasks, workers and resources, and any  *)
(* nesting: the states of events count their edges exactly, every task is  *)
(* executed once at most, and destroyed when nothing leads to it any more. *)
(* A task may name a resource twice; it then follows itself, is held back  *)
(* by that edge for ever, and all of this still holds.                     *)
(***************************************************************************)
EXTENDS TaskGraph, FiniteSetTheorems, SequenceTheorems, TLAPS

(***************************************************************************)
(* The frames of all stacks, numbered from the oldest one of a thread, so  *)
(* that a call or a return changes one slot.                               *)
(***************************************************************************)
Slot == Thread \X Nat

NoFrame == [task |-> Root, pc |-> "none", i |-> 0]

fr == [x \in Slot |->
        IF x[2] \in 1..Len(stack[x[1]]) THEN stack[x[1]][Len(stack[x[1]]) + 1 - x[2]]
                                        ELSE NoFrame]

TopSlot(th) == <<th, Len(stack[th])>>

top == [th \in Thread |-> fr[TopSlot(th)]]

\* Slot x has the notification that takes the post-event of q, which has been
\* reached, to its resources and followers ...
Carries(x, q) ==
  /\ fr[x].task = q
  /\ fr[x].pc \in {"delete", "followers", "activate"} \/ (fr[x].pc = "waker" /\ fr[x].i = 0)

\* ... and has not come to follower n yet.
StillTo(x, n) ==
  /\ fr[x].pc = "followers" => n <= fr[x].i
  /\ fr[x].pc = "activate" => n < fr[x].i

\* The edge to the n-th follower of q is not notified yet.
Pending(q, n) ==
  /\ n \in DOMAIN followers[q]
  /\ post[q] = 0 => \E x \in Slot : Carries(x, q) /\ StillTo(x, n)

Edges(e) == {y \in Task \X Nat : Pending(y[1], y[2]) /\ followers[y[1]][y[2]] = e}

PostDone(q) == post[q] = 0 /\ \A x \in Slot : ~ Carries(x, q)

GetDone(q) == result_get[q] = 0 /\ \A x \in Slot : ~ (fr[x].task = q /\ fr[x].pc = "countdown")

-----------------------------------------------------------------------------
(***************************************************************************)
(* The inductive invariant.                                                *)
(***************************************************************************)
Types ==
  /\ life \in [Task -> {"unborn", "alive", "freed"}]
  /\ parent \in [Task -> Task \union {Root}]
  /\ access \in [Task -> AccessSeq]
  /\ pre \in [Task -> Int] /\ post \in [Task -> Int]
  /\ result_set \in [Task -> Int] /\ result_get \in [Task -> Int]
  /\ followers \in [Task -> Seq([task : Task, event : {"pre", "post"}])]
  /\ removal_countdown \in [Task -> Int]
  /\ future \in [Task -> {"none", "held", "gone"}]
  /\ users \in [Resource -> Seq(Task \X Nat)]
  /\ users_mutex \in [Resource -> Worker \union {NoThread}]
  /\ emplaced \subseteq Task
  /\ ready \in [Task -> Nat]
  /\ job \in [Thread -> Job]
  /\ stack \in [Thread -> Seq(Frame)]
  /\ started \subseteq Task

\* Under the innermost notification all others wait for it at the end of their
\* follower lists: the parent is the first follower and comes last.
StackShape ==
  \A th \in Thread : \A d \in Nat :
    0 < d /\ d < Len(stack[th]) => fr[<<th, d>>].pc = "followers" /\ fr[<<th, d>>].i = 0

FrameMatches(f) ==
  /\ f.pc = "followers" => f.i <= Len(followers[f.task])
  /\ f.pc = "activate" => f.i \in 1..Len(followers[f.task]) /\ followers[f.task][f.i].event = "pre"
  /\ f.pc = "delete" => f.i \in 1..Len(access[f.task])
  /\ f.pc = "waker" => f.i \in {0, 1}
  /\ f.pc # "none" => f.task \in Task /\ life[f.task] # "unborn"

FramesMatch == \A x \in Slot : FrameMatches(fr[x])

\* The first follower of a child is its parent; all others come after it.
FollowersMatch ==
  \A q \in Task :
    /\ life[q] = "unborn" => followers[q] = <<>>
    /\ \A n \in DOMAIN followers[q] :
         LET e == followers[q][n]
         IN  /\ life[e.task] # "unborn"
             /\ e.event = "post" => n = 1 /\ parent[q] # Root /\ e.task = parent[q]
             /\ e.event = "pre" => q <= e.task

\* A post-event is reached once, and one thread notifies its followers.
CarriedOnce ==
  /\ \A q \in Task : \A x, y \in Slot : Carries(x, q) /\ Carries(y, q) => x = y
  /\ \A q \in Task : \A x \in Slot : Carries(x, q) => post[q] = 0

\* The result-get-event is notified once, when the Future has gone.
FutureMatches ==
  \A q \in Task :
    /\ life[q] = "unborn" => future[q] = "none"
    /\ future[q] # "gone" => result_get[q] = 1
    /\ result_get[q] \in {0, 1}
    /\ \A x \in Slot : fr[x].task = q =>
         /\ fr[x].pc = "get" => future[q] = "gone" /\ result_get[q] = 1
         /\ fr[x].pc = "countdown" => result_get[q] = 0
         /\ fr[x].pc \in {"get", "countdown"} =>
              \A y \in Slot : fr[y].task = q /\ fr[y].pc \in {"get", "countdown"} => x = y

\* removal_countdown counts the two events that are not done with.
RemovalCounts ==
  \A q \in Task :
    /\ removal_countdown[q] = (IF GetDone(q) THEN 0 ELSE 1) + (IF PostDone(q) THEN 0 ELSE 1)
    /\ life[q] = "freed" => GetDone(q) /\ PostDone(q)
    /\ \A x \in Slot : fr[x].task = q /\ fr[x].pc = "free" =>
         /\ GetDone(q) /\ PostDone(q) /\ life[q] = "alive"
         /\ \A y \in Slot : fr[y].task = q /\ fr[y].pc = "free" => x = y

InitPcs == {"init", "scan", "link"}

\* What a thread has in hand follows from where it is.
JobMatches(th) ==
  /\ th = Main => job[th].pc \in {"top", "get", "barrier", "done", "register"}
                  /\ job[th].cur = Root
  /\ th # Main => job[th].pc \in {"gather", "init", "scan", "link", "up", "exec", "body",
                                  "register"}
                  /\ (job[th].pc = "gather" <=> job[th].cur = Root)
  /\ stack[th] # <<>> => job[th].pc \in {"top", "gather", "body"}
  /\ job[th].pc = "register" =>
       /\ job[th].new \in Task /\ life[job[th].new] # "unborn"
       /\ parent[job[th].new] = job[th].cur /\ future[job[th].new] = "none"
       /\ job[th].k <= Len(access[job[th].new])
  /\ job[th].pc = "get" => job[th].new \in Task /\ future[job[th].new] = "held"
                           /\ parent[job[th].new] = Root
  /\ job[th].pc \in InitPcs \union {"up"} => job[th].k <= Len(access[job[th].cur])

\* A worker that searches for predecessors has the users_mutex, and looks at
\* entries before its own.
Searches(w) ==
  LET t == job[w].cur
      r == ResourceOf(t, job[w].k)
  IN  job[w].pc \in {"scan", "link", "up"} =>
        /\ job[w].k > 0 /\ users_mutex[r] = w
        /\ \E n \in DOMAIN users[r] : job[w].it < n /\ users[r][n] = <<t, job[w].k>>
        /\ job[w].pc \in {"link", "up"} => job[w].it > 0 /\ parent[Predecessor(w)] = parent[t]
        /\ job[w].pc = "up" => \E n \in Nat : /\ Pending(Predecessor(w), n)
                                              /\ followers[Predecessor(w)][n] = PreOf(t)

ThreadsMatch == (\A th \in Thread : JobMatches(th)) /\ (\A w \in Worker : Searches(w))

\* Where a task is until it runs, and while its body runs.
InPlace(kind, th, t) ==
  \/ kind = "register" /\ th \in Thread /\ job[th].pc = "register" /\ job[th].new = t
  \/ kind = "emplaced" /\ th = NoThread /\ t \in emplaced
  \/ kind = "cur" /\ th \in Worker /\ job[th].cur = t
  \/ kind = "ready" /\ th = NoThread /\ ready[t] > 0
  \/ kind = "activate" /\ th \in Thread /\ top[th].pc = "activate"
     /\ followers[top[th].task][top[th].i] = PreOf(t)

PlaceKind == {"register", "emplaced", "cur", "ready", "activate"}
Holder == Thread \union {NoThread}

OnePlace ==
  \A t \in Task :
    /\ ready[t] \in {0, 1}
    /\ \A k1, k2 \in PlaceKind, h1, h2 \in Holder :
         InPlace(k1, h1, t) /\ InPlace(k2, h2, t) => k1 = k2 /\ h1 = h2

\* Whether it has run follows from where it is.
StatusMatches ==
  \A t \in Task :
    /\ \A k \in PlaceKind, h \in Holder : InPlace(k, h, t) =>
         /\ life[t] # "unborn"
         /\ k # "cur" \/ job[h].pc = "exec" => t \notin started /\ pre[t] = 1
         /\ k = "cur" /\ job[h].pc \in InitPcs \union {"up"} => t \notin started
         /\ k = "cur" /\ job[h].pc \in {"body", "register"} => t \in started
    /\ t \in started => pre[t] = 0
    /\ life[t] = "unborn" => t \notin started /\ pre[t] = 1

Initialised(t) == \E w \in Worker : job[w].cur = t /\ job[w].pc \in InitPcs

PreCounts ==
  \A t \in Task :
    /\ IsFiniteSet(Edges(PreOf(t)))
    /\ pre[t] = (IF t \in started THEN 0 ELSE 1) + (IF Initialised(t) THEN 1 ELSE 0)
                + Cardinality(Edges(PreOf(t)))

Running(t) == \E w \in Worker : job[w].cur = t /\ job[w].pc \in {"body", "register"}

PostFrames(t) ==
  {x \in Thread \X {1} : top[x[1]].pc = "post" /\ top[x[1]].task = t}

PostCounts ==
  \A t \in Task :
    /\ IsFiniteSet(Edges(PostOf(t))) /\ IsFiniteSet(PostFrames(t))
    /\ post[t] = (IF t \notin started \/ Running(t) THEN 1 ELSE 0)
                 + Cardinality(PostFrames(t)) + Cardinality(Edges(PostOf(t)))
    /\ result_set[t] = (IF t \notin started \/ Running(t) THEN 1 ELSE 0)

\* A task stays in the users lists until its post-event is reached and it has
\* deleted itself; its followers get to know after that.
Listed(q, k) ==
  /\ post[q] = 0 => \E x \in Slot : /\ Carries(x, q)
                                    /\ fr[x].pc \in {"waker", "delete"}
                                    /\ fr[x].pc = "delete" => k <= fr[x].i
  /\ \A th \in Thread : InPlace("register", th, q) => job[th].k < k

EntriesMatch ==
  \A r \in Resource : \A n \in DOMAIN users[r] :
    LET q == users[r][n][1]
        k == users[r][n][2]
    IN  k \in 1..Len(access[q]) /\ ResourceOf(q, k) = r /\ life[q] # "unborn" /\ Listed(q, k)

Entered ==
  \A t \in Task : \A k \in 1..Len(access[t]) :
    life[t] # "unborn" /\ Listed(t, k) =>
      \E n \in DOMAIN users[ResourceOf(t, k)] : users[ResourceOf(t, k)][n] = <<t, k>>

\* Entry e is of an older task than f, or of another argument of the same one.
Precedes(e, f) == e[1] < f[1] \/ (e[1] = f[1] /\ e[2] # f[2])

\* The users of a resource from one task space are in the order of creation.
UsersOrdered ==
  /\ \A r \in Resource : \A m, n \in DOMAIN users[r] :
       m < n /\ parent[users[r][m][1]] = parent[users[r][n][1]] =>
         Precedes(users[r][m], users[r][n])
  /\ \A th \in Thread : \A t, u \in Task :
       InPlace("register", th, t) /\ life[u] # "unborn" /\ parent[u] = parent[t] => u <= t

IInv ==
  /\ Types /\ StackShape /\ FramesMatch /\ FollowersMatch /\ CarriedOnce /\ FutureMatches
  /\ RemovalCounts /\ ThreadsMatch /\ OnePlace /\ StatusMatches /\ PreCounts /\ PostCounts
  /\ EntriesMatch /\ Entered /\ UsersOrdered

LEMMA RemoveAtIs ==
  ASSUME NEW S, NEW s \in Seq(S), NEW i \in 1..Len(s)
  PROVE  /\ Seqs!RemoveAt(s, i) \in Seq(S)
         /\ Len(Seqs!RemoveAt(s, i)) = Len(s) - 1
         /\ \A n \in 1..(Len(s) - 1) :
              Seqs!RemoveAt(s, i)[n] = IF n < i THEN s[n] ELSE s[n + 1]
<1> DEFINE a == SubSeq(s, 1, i - 1)
           b == SubSeq(s, i + 1, Len(s))
<1>1. Seqs!RemoveAt(s, i) = a \o b
  BY DEF Seqs!RemoveAt
<1>2. a \in Seq(S) /\ Len(a) = i - 1 /\ \A n \in 1..(i - 1) : a[n] = s[n]
  OBVIOUS
<1>3. b \in Seq(S) /\ Len(b) = Len(s) - i /\ \A n \in 1..(Len(s) - i) : b[n] = s[i + n]
  OBVIOUS
<1> HIDE DEF a, b
<1>4. a \o b \in Seq(S) /\ Len(a \o b) = Len(s) - 1
  <2>1. a \o b \in Seq(S) /\ Len(a \o b) = Len(a) + Len(b)
    BY <1>2, <1>3, ConcatProperties
  <2> QED
    BY <1>2, <1>3, <2>1
<1>5. \A n \in 1..(Len(s) - 1) : (a \o b)[n] = IF n < i THEN s[n] ELSE s[n + 1]
  <2> TAKE n \in 1..(Len(s) - 1)
  <2>1. CASE n < i
    BY <1>2, <1>3, <2>1
  <2>2. CASE ~ (n < i)
    <3>1. (a \o b)[n] = b[n - Len(a)]
      BY SMTT(60), <1>2, <1>3, <2>2
    <3> QED
      BY SMTT(60), <1>2, <1>3, <2>2, <3>1
  <2> QED
    BY <2>1, <2>2
<1> QED
  BY Zenon, <1>1, <1>4, <1>5

-----------------------------------------------------------------------------
(***************************************************************************)
(* Stacks: a call or a return changes one slot.                            *)
(***************************************************************************)

\* Tasks are numbers, the root space is none, no thread has a reserved name.
LEMMA Constants ==
  /\ MaxTask \in Nat /\ Task = 1..MaxTask /\ Root = 0 /\ Root \notin Task
  /\ Main \in Thread /\ Main \notin Worker /\ NoThread \notin Thread
  /\ \A w \in Worker : w \in Thread /\ w # Main
  /\ \A th \in Thread : th \in Worker \/ th = Main
BY GraphAssumption DEF GraphAssumption, Task, Root, Main, NoThread, Thread

\* The frame in the top slot is the innermost notification.
LEMMA TopFrame ==
  ASSUME stack \in [Thread -> Seq(Frame)]
  PROVE  /\ \A x \in Slot : fr[x] \in Frame \union {NoFrame}
         /\ \A th \in Thread : /\ Len(stack[th]) \in Nat /\ TopSlot(th) \in Slot
                               /\ top[th] = fr[TopSlot(th)]
                               /\ stack[th] # <<>> => /\ top[th] = Top(th) /\ top[th] \in Frame
                                                      /\ Len(stack[th]) > 0
                               /\ stack[th] = <<>> => top[th] = NoFrame /\ Len(stack[th]) = 0
<1>1. ASSUME NEW x \in Slot PROVE fr[x] \in Frame \union {NoFrame}
  <2>1. x[1] \in Thread /\ x[2] \in Nat
    BY DEF Slot
  <2>2. stack[x[1]] \in Seq(Frame)
    BY <2>1
  <2>3. CASE x[2] \in 1..Len(stack[x[1]])
    <3>1. Len(stack[x[1]]) + 1 - x[2] \in 1..Len(stack[x[1]])
      BY SMTT(60), <2>1, <2>2, <2>3
    <3> QED
      BY SMTT(60), <2>2, <2>3, <3>1 DEF fr
  <2>4. CASE x[2] \notin 1..Len(stack[x[1]])
    BY <2>4 DEF fr
  <2> QED
    BY <2>3, <2>4
<1>2. ASSUME NEW th \in Thread
      PROVE  /\ Len(stack[th]) \in Nat /\ TopSlot(th) \in Slot
             /\ top[th] = fr[TopSlot(th)]
             /\ stack[th] # <<>> => /\ top[th] = Top(th) /\ top[th] \in Frame
                                    /\ Len(stack[th]) > 0
             /\ stack[th] = <<>> => top[th] = NoFrame /\ Len(stack[th]) = 0
  <2>1. stack[th] \in Seq(Frame)
    OBVIOUS
  <2>2. Len(stack[th]) \in Nat /\ TopSlot(th) \in Slot /\ top[th] = fr[TopSlot(th)]
    BY <2>1 DEF TopSlot, Slot, top
  <2>3. TopSlot(th)[1] = th /\ TopSlot(th)[2] = Len(stack[th])
    BY DEF TopSlot
  <2>4. CASE stack[th] # <<>>
    <3>1. Len(stack[th]) > 0 /\ Top(th) = stack[th][1] /\ Top(th) \in Frame
      BY <2>1, <2>4 DEF Top
    <3>2. fr[TopSlot(th)] = stack[th][1]
      BY <2>2, <2>3, <3>1 DEF fr
    <3> QED
      BY <2>2, <2>4, <3>1, <3>2
  <2>5. CASE stack[th] = <<>>
    BY <2>2, <2>3, <2>5 DEF fr
  <2> QED
    BY <2>2, <2>4, <2>5
<1> QED
  BY <1>1, <1>2

\* A frame with another index.
LEMMA FrameIndex ==
  ASSUME NEW h \in Frame, NEW i
  PROVE  [h EXCEPT !.i = i] = [task |-> h.task, pc |-> h.pc, i |-> i]
BY DEF Frame

\* A stack that is replaced in one thread; what is below its new top slots stays.
LEMMA OtherSlots ==
  ASSUME stack \in [Thread -> Seq(Frame)], NEW th \in Thread, NEW s \in Seq(Frame),
         stack' = [stack EXCEPT ![th] = s]
  PROVE  /\ stack' \in [Thread -> Seq(Frame)]
         /\ stack'[th] = s
         /\ \A u \in Thread : u # th => stack'[u] = stack[u] /\ TopSlot(u)' = TopSlot(u)
         /\ \A x \in Slot : x[1] # th => fr'[x] = fr[x]
         /\ \A u \in Thread : u # th => top'[u] = top[u]
<1>1. stack' \in [Thread -> Seq(Frame)] /\ stack'[th] = s
  OBVIOUS
<1>2. \A u \in Thread : u # th => stack'[u] = stack[u]
  OBVIOUS
<1>3. \A x \in Slot : x[1] # th => fr'[x] = fr[x]
  BY <1>2 DEF fr, Slot
<1>4. \A u \in Thread : u # th => TopSlot(u)' = TopSlot(u) /\ TopSlot(u) \in Slot /\ TopSlot(u)[1] = u
  BY <1>2 DEF TopSlot, Slot
<1>5. \A u \in Thread : u # th => top'[u] = top[u]
  BY <1>3, <1>4 DEF top
<1> QED
  BY <1>1, <1>2, <1>3, <1>4, <1>5

\* Continue changes the top slot.
LEMMA StackContinue ==
  ASSUME stack \in [Thread -> Seq(Frame)], NEW th \in Thread, stack[th] # <<>>,
         NEW pc \in FramePcs, NEW i \in Nat, Continue(th, pc, i)
  PROVE  LET f == [task |-> Top(th).task, pc |-> pc, i |-> i]
         IN  /\ stack' \in [Thread -> Seq(Frame)]
             /\ \A x \in Slot : fr'[x] = IF x = TopSlot(th) THEN f ELSE fr[x]
             /\ \A u \in Thread : Len(stack'[u]) = Len(stack[u]) /\ (stack'[u] = <<>> <=> stack[u] = <<>>)
             /\ \A u \in Thread : top'[u] = IF u = th THEN f ELSE top[u]
<1> DEFINE f == [task |-> Top(th).task, pc |-> pc, i |-> i]
           L == Len(stack[th])
           s == <<f>> \o Tail(stack[th])
<1>1. stack[th] \in Seq(Frame) /\ Top(th) \in Frame /\ L \in Nat /\ L > 0
  BY TopFrame
<1>2. [Top(th) EXCEPT !.pc = pc, !.i = i] = f /\ f \in Frame
  <2>1. ASSUME NEW g \in Frame PROVE [g EXCEPT !.pc = pc, !.i = i] = [task |-> g.task, pc |-> pc, i |-> i]
    <3>1. [g EXCEPT !.pc = pc, !.i = i] =
            [k \in {"task", "pc", "i"} |-> IF k = "i" THEN i ELSE IF k = "pc" THEN pc ELSE g.task]
      BY Zenon DEF Frame
    <3> QED
      BY <3>1
  <2>2. Top(th).task \in Task
    BY <1>1 DEF Frame
  <2> QED
    BY Zenon, <1>1, <2>1, <2>2 DEF Frame
<1>3. stack' = [stack EXCEPT ![th] = s]
  BY <1>2 DEF Continue
<1> HIDE DEF f
<1>4. s \in Seq(Frame) /\ Len(s) = L /\ s[1] = f /\ \A n \in 2..L : s[n] = stack[th][n]
  <2>1. /\ Tail(stack[th]) \in Seq(Frame) /\ Len(Tail(stack[th])) = L - 1
        /\ \A n \in 1..(L - 1) : Tail(stack[th])[n] = stack[th][n + 1]
    BY <1>1
  <2>2. <<f>> \in Seq(Frame) /\ Len(<<f>>) = 1 /\ <<f>>[1] = f
    BY <1>2
  <2>3. /\ s \in Seq(Frame) /\ Len(s) = 1 + (L - 1)
        /\ \A n \in 1..L : s[n] = IF n <= 1 THEN f ELSE Tail(stack[th])[n - 1]
    BY <1>1, <2>1, <2>2, ConcatProperties
  <2>4. \A n \in 2..L : s[n] = stack[th][n]
    <3> TAKE n \in 2..L
    <3>1. s[n] = Tail(stack[th])[n - 1] /\ n - 1 \in 1..(L - 1)
      BY <1>1, <2>3
    <3>2. Tail(stack[th])[n - 1] = stack[th][(n - 1) + 1]
      BY <2>1, <3>1
    <3> QED
      BY <3>1, <3>2
  <2> QED
    BY <1>1, <2>3, <2>4
<1> HIDE DEF s
<1>5. /\ stack' \in [Thread -> Seq(Frame)] /\ stack'[th] = s
      /\ \A u \in Thread : u # th => stack'[u] = stack[u] /\ TopSlot(u)' = TopSlot(u)
      /\ \A x \in Slot : x[1] # th => fr'[x] = fr[x]
      /\ \A u \in Thread : u # th => top'[u] = top[u]
  BY <1>3, <1>4, OtherSlots
<1>6. \A u \in Thread : Len(stack'[u]) = Len(stack[u]) /\ (stack'[u] = <<>> <=> stack[u] = <<>>)
  <2>1. stack'[th] # <<>>
    BY <1>1, <1>4, <1>5
  <2> QED
    BY <1>1, <1>4, <1>5, <2>1
<1>7. ASSUME NEW x \in Slot PROVE fr'[x] = IF x = TopSlot(th) THEN f ELSE fr[x]
  <2>1. CASE x[1] # th
    BY <1>5, <2>1 DEF TopSlot
  <2>2. CASE x[1] = th
    <3>1. x = <<th, x[2]>> /\ x[2] \in Nat
      BY <2>2 DEF Slot
    <3>2. /\ fr'[x] = IF x[2] \in 1..L THEN s[L + 1 - x[2]] ELSE NoFrame
          /\ fr[x] = IF x[2] \in 1..L THEN stack[th][L + 1 - x[2]] ELSE NoFrame
      BY <1>4, <1>5, <2>2 DEF fr
    <3>3. CASE x[2] = L
      <4>1. x = TopSlot(th) /\ L + 1 - x[2] = 1
        BY <1>1, <3>1, <3>3 DEF TopSlot
      <4> QED
        BY <1>1, <1>4, <3>2, <3>3, <4>1
    <3>4. CASE x[2] # L
      <4>1. x # TopSlot(th)
        BY <3>1, <3>4 DEF TopSlot
      <4>2. x[2] \in 1..L => L + 1 - x[2] \in 2..L
        BY <1>1, <3>1, <3>4
      <4> QED
        BY <1>4, <3>2, <4>1, <4>2
    <3> QED
      BY <3>3, <3>4
  <2> QED
    BY <2>1, <2>2
<1>8. top'[th] = f
  <2>1. TopSlot(th) \in Slot /\ TopSlot(th)' = TopSlot(th)
    BY <1>1, <1>6 DEF TopSlot, Slot
  <2> QED
    BY <1>7, <2>1 DEF top
<1> QED
  BY <1>5, <1>6, <1>7, <1>8 DEF f

\* Return empties the top slot; under it is a notification at its end, or none.
LEMMA StackReturn ==
  ASSUME stack \in [Thread -> Seq(Frame)], StackShape, NEW th \in Thread, stack[th] # <<>>,
         Return(th)
  PROVE  /\ stack' \in [Thread -> Seq(Frame)]
         /\ \A x \in Slot : fr'[x] = IF x = TopSlot(th) THEN NoFrame ELSE fr[x]
         /\ \A u \in Thread : /\ Len(stack'[u]) = IF u = th THEN Len(stack[u]) - 1 ELSE Len(stack[u])
                              /\ stack'[u] # <<>> => stack[u] # <<>>
         /\ \A u \in Thread : u # th => top'[u] = top[u]
         /\ top'[th].pc \in {"none", "followers"}
<1> DEFINE L == Len(stack[th])
           s == Tail(stack[th])
<1>1. stack[th] \in Seq(Frame) /\ Top(th) \in Frame /\ L \in Nat /\ L > 0
  BY TopFrame
<1>2. stack' = [stack EXCEPT ![th] = s]
  BY DEF Return
<1>3. s \in Seq(Frame) /\ Len(s) = L - 1 /\ \A n \in 1..(L - 1) : s[n] = stack[th][n + 1]
  BY <1>1
<1> HIDE DEF s
<1>4. /\ stack' \in [Thread -> Seq(Frame)] /\ stack'[th] = s
      /\ \A u \in Thread : u # th => stack'[u] = stack[u] /\ TopSlot(u)' = TopSlot(u)
      /\ \A x \in Slot : x[1] # th => fr'[x] = fr[x]
      /\ \A u \in Thread : u # th => top'[u] = top[u]
  BY <1>2, <1>3, OtherSlots
<1>5. ASSUME NEW x \in Slot PROVE fr'[x] = IF x = TopSlot(th) THEN NoFrame ELSE fr[x]
  <2>1. CASE x[1] # th
    BY <1>4, <2>1 DEF TopSlot
  <2>2. CASE x[1] = th
    <3>1. x = <<th, x[2]>> /\ x[2] \in Nat
      BY <2>2 DEF Slot
    <3>2. /\ fr'[x] = IF x[2] \in 1..(L - 1) THEN s[(L - 1) + 1 - x[2]] ELSE NoFrame
          /\ fr[x] = IF x[2] \in 1..L THEN stack[th][L + 1 - x[2]] ELSE NoFrame
      BY <1>3, <1>4, <2>2 DEF fr
    <3>3. CASE x[2] = L
      <4>1. x = TopSlot(th)
        BY <3>1, <3>3 DEF TopSlot
      <4> QED
        BY <1>1, <3>2, <3>3, <4>1
    <3>4. CASE x[2] # L
      <4>1. x # TopSlot(th)
        BY <3>1, <3>4 DEF TopSlot
      <4>2. CASE x[2] \in 1..(L - 1)
        <5>1. L - x[2] \in 1..(L - 1) /\ (L - x[2]) + 1 = L + 1 - x[2] /\ x[2] \in 1..L
              /\ (L - 1) + 1 - x[2] = L - x[2]
          BY <1>1, <3>1, <4>2
        <5>2. s[L - x[2]] = stack[th][L + 1 - x[2]]
          BY <1>3, <5>1
        <5> QED
          BY <3>2, <4>1, <4>2, <5>1, <5>2
      <4>3. CASE x[2] \notin 1..(L - 1)
        <5>1. x[2] \notin 1..L
          BY <1>1, <3>1, <3>4, <4>3
        <5> QED
          BY <3>2, <4>1, <4>3, <5>1
      <4> QED
        BY <4>2, <4>3
    <3> QED
      BY <3>3, <3>4
  <2> QED
    BY <2>1, <2>2
<1>6. top'[th].pc \in {"none", "followers"}
  <2>1. TopSlot(th)' = <<th, L - 1>> /\ <<th, L - 1>> \in Slot /\ <<th, L - 1>> # TopSlot(th)
    BY <1>1, <1>3, <1>4 DEF TopSlot, Slot
  <2>2. top'[th] = fr[<<th, L - 1>>]
    BY <1>5, <2>1 DEF top
  <2>3. CASE L - 1 > 0
    BY <1>1, <2>2, <2>3 DEF StackShape
  <2>4. CASE ~ (L - 1 > 0)
    <3>0. \A n \in Nat : n > 0 /\ ~ (n - 1 > 0) => n - 1 = 0
      OBVIOUS
    <3>1. L - 1 = 0
      BY <1>1, <2>4, <3>0
    <3>2. fr[<<th, L - 1>>] = NoFrame
      BY <2>1, <3>1 DEF fr
    <3> QED
      BY <2>2, <3>2 DEF NoFrame
  <2> QED
    BY <2>3, <2>4
<1> QED
  BY <1>1, <1>3, <1>4, <1>5, <1>6

\* Call fills the first slot of a thread that is outside of notify.
LEMMA StackCall ==
  ASSUME stack \in [Thread -> Seq(Frame)], NEW th \in Thread, stack[th] = <<>>,
         NEW t \in Task, NEW pc \in FramePcs, Call(th, t, pc)
  PROVE  LET f == [task |-> t, pc |-> pc, i |-> 0]
         IN  /\ stack' \in [Thread -> Seq(Frame)]
             /\ <<th, 1>> \in Slot /\ fr[<<th, 1>>] = NoFrame
             /\ \A x \in Slot : fr'[x] = IF x = <<th, 1>> THEN f ELSE fr[x]
             /\ \A u \in Thread : u # th => stack'[u] = stack[u] /\ top'[u] = top[u]
             /\ Len(stack'[th]) = 1 /\ top'[th] = f /\ stack'[th] # <<>>
<1> DEFINE f == [task |-> t, pc |-> pc, i |-> 0]
           s == <<f>>
<1>1. f \in Frame
  BY DEF Frame
<1>2. stack' = [stack EXCEPT ![th] = s]
  BY <1>1 DEF Call
<1> HIDE DEF f
<1>3. s \in Seq(Frame) /\ Len(s) = 1 /\ s[1] = f /\ s # <<>>
  BY <1>1
<1> HIDE DEF s
<1>4. /\ stack' \in [Thread -> Seq(Frame)] /\ stack'[th] = s
      /\ \A u \in Thread : u # th => stack'[u] = stack[u] /\ TopSlot(u)' = TopSlot(u)
      /\ \A x \in Slot : x[1] # th => fr'[x] = fr[x]
      /\ \A u \in Thread : u # th => top'[u] = top[u]
  BY <1>2, <1>3, OtherSlots
<1>5. <<th, 1>> \in Slot
  BY DEF Slot
<1>6. ASSUME NEW x \in Slot, x[1] = th
      PROVE  fr'[x] = (IF x = <<th, 1>> THEN f ELSE NoFrame) /\ fr[x] = NoFrame
  <2>1. x = <<th, x[2]>> /\ x[2] \in Nat
    BY <1>6 DEF Slot
  <2>2. /\ fr'[x] = IF x[2] \in 1..1 THEN s[1 + 1 - x[2]] ELSE NoFrame
        /\ fr[x] = IF x[2] \in 1..0 THEN stack[th][0 + 1 - x[2]] ELSE NoFrame
    BY <1>3, <1>4, <1>6 DEF fr
  <2> QED
    BY <1>3, <2>1, <2>2
<1>7. \A x \in Slot : fr'[x] = IF x = <<th, 1>> THEN f ELSE fr[x]
  <2> TAKE x \in Slot
  <2>1. CASE x[1] # th
    BY <1>4, <2>1
  <2> QED
    BY <1>6, <2>1
<1>8. top'[th] = f
  <2>1. TopSlot(th)' = <<th, 1>>
    BY <1>3, <1>4 DEF TopSlot
  <2> QED
    BY <1>5, <1>7, <2>1 DEF top
<1>9. fr[<<th, 1>>] = NoFrame
  BY <1>5, <1>6
<1> QED
  BY <1>3, <1>4, <1>5, <1>7, <1>8, <1>9 DEF f

\* A follower that is a post-event: its notification gets a slot of its own.
LEMMA StackNest ==
  ASSUME stack \in [Thread -> Seq(Frame)], NEW th \in Thread, stack[th] # <<>>,
         NEW t \in Task, Top(th).i - 1 \in Nat,
         stack' = [stack EXCEPT ![th] =
            <<[task |-> t, pc |-> "post", i |-> 0], [Top(th) EXCEPT !.i = Top(th).i - 1]>> \o Tail(@)]
  PROVE  LET f == [task |-> Top(th).task, pc |-> Top(th).pc, i |-> Top(th).i - 1]
             g == [task |-> t, pc |-> "post", i |-> 0]
             y == <<th, Len(stack[th]) + 1>>
         IN  /\ stack' \in [Thread -> Seq(Frame)]
             /\ y \in Slot /\ y # TopSlot(th) /\ fr[y] = NoFrame
             /\ \A x \in Slot : fr'[x] = IF x = y THEN g ELSE IF x = TopSlot(th) THEN f ELSE fr[x]
             /\ \A u \in Thread : u # th => stack'[u] = stack[u]
             /\ Len(stack'[th]) = Len(stack[th]) + 1 /\ stack'[th] # <<>>
             /\ \A u \in Thread : top'[u] = IF u = th THEN g ELSE top[u]
<1> DEFINE f == [task |-> Top(th).task, pc |-> Top(th).pc, i |-> Top(th).i - 1]
           g == [task |-> t, pc |-> "post", i |-> 0]
           L == Len(stack[th])
           y == <<th, L + 1>>
           s == <<g, f>> \o Tail(stack[th])
<1>1. stack[th] \in Seq(Frame) /\ Top(th) \in Frame /\ L \in Nat /\ L > 0
  BY TopFrame
<1>2. [Top(th) EXCEPT !.i = Top(th).i - 1] = f /\ f \in Frame /\ g \in Frame
  <2>1. Top(th).task \in Task /\ Top(th).pc \in FramePcs
    BY <1>1 DEF Frame
  <2> QED
    BY <1>1, <2>1, FrameIndex DEF Frame, FramePcs
<1>3. stack' = [stack EXCEPT ![th] = s]
  BY <1>2
<1> HIDE DEF f, g
<1>4. /\ s \in Seq(Frame) /\ Len(s) = L + 1 /\ s[1] = g /\ s[2] = f
      /\ \A n \in 2..L : s[n + 1] = stack[th][n]
  <2>1. /\ Tail(stack[th]) \in Seq(Frame) /\ Len(Tail(stack[th])) = L - 1
        /\ \A n \in 1..(L - 1) : Tail(stack[th])[n] = stack[th][n + 1]
    BY <1>1
  <2>2. <<g, f>> \in Seq(Frame) /\ Len(<<g, f>>) = 2 /\ <<g, f>>[1] = g /\ <<g, f>>[2] = f
    BY <1>2
  <2>3. /\ s \in Seq(Frame) /\ Len(s) = 2 + (L - 1)
        /\ \A n \in 1..(2 + (L - 1)) : s[n] = IF n <= 2 THEN <<g, f>>[n] ELSE Tail(stack[th])[n - 2]
    BY <1>1, <2>1, <2>2, ConcatProperties
  <2>4. \A n \in 2..L : s[n + 1] = stack[th][n]
    <3> TAKE n \in 2..L
    <3>1. s[n + 1] = Tail(stack[th])[(n + 1) - 2] /\ (n + 1) - 2 = n - 1 /\ n - 1 \in 1..(L - 1)
      BY <1>1, <2>3
    <3>2. Tail(stack[th])[n - 1] = stack[th][(n - 1) + 1]
      BY <2>1, <3>1
    <3> QED
      BY SMTT(60), <3>1, <3>2
  <2> QED
    BY <1>1, <2>2, <2>3, <2>4
<1> HIDE DEF s
<1>5. /\ stack' \in [Thread -> Seq(Frame)] /\ stack'[th] = s
      /\ \A u \in Thread : u # th => stack'[u] = stack[u] /\ TopSlot(u)' = TopSlot(u)
      /\ \A x \in Slot : x[1] # th => fr'[x] = fr[x]
      /\ \A u \in Thread : u # th => top'[u] = top[u]
  BY <1>3, <1>4, OtherSlots
<1>6. y \in Slot /\ y # TopSlot(th) /\ y[1] = th /\ y[2] = L + 1
  BY <1>1 DEF Slot, TopSlot
<1>7. ASSUME NEW x \in Slot
      PROVE  fr'[x] = IF x = y THEN g ELSE IF x = TopSlot(th) THEN f ELSE fr[x]
  <2>1. CASE x[1] # th
    BY <1>5, <2>1 DEF TopSlot
  <2>2. CASE x[1] = th
    <3>1. x = <<th, x[2]>> /\ x[2] \in Nat
      BY <2>2 DEF Slot
    <3>2. /\ fr'[x] = IF x[2] \in 1..(L + 1) THEN s[(L + 1) + 1 - x[2]] ELSE NoFrame
          /\ fr[x] = IF x[2] \in 1..L THEN stack[th][L + 1 - x[2]] ELSE NoFrame
      BY <1>4, <1>5, <2>2 DEF fr
    <3>3. CASE x[2] = L + 1
      <4>1. x = y /\ (L + 1) + 1 - x[2] = 1 /\ x[2] \in 1..(L + 1)
        BY <1>1, <3>1, <3>3
      <4> QED
        BY <1>4, <3>2, <4>1
    <3>4. CASE x[2] = L
      <4>1. x = TopSlot(th) /\ x # y /\ (L + 1) + 1 - x[2] = 2 /\ x[2] \in 1..(L + 1)
        BY <1>1, <1>6, <3>1, <3>4 DEF TopSlot
      <4> QED
        BY <1>4, <3>2, <4>1
    <3>5. CASE x[2] # L /\ x[2] # L + 1
      <4>1. x # TopSlot(th) /\ x # y
        BY <3>1, <3>5 DEF TopSlot
      <4>2. CASE x[2] \in 1..L
        <5>1. L + 1 - x[2] \in 2..L /\ (L + 1 - x[2]) + 1 = (L + 1) + 1 - x[2] /\ x[2] \in 1..(L + 1)
          BY <1>1, <3>1, <3>5, <4>2
        <5>2. s[(L + 1 - x[2]) + 1] = stack[th][L + 1 - x[2]]
          BY <1>4, <5>1
        <5> QED
          BY <3>2, <4>1, <4>2, <5>1, <5>2
      <4>3. CASE x[2] \notin 1..L
        <5>1. x[2] \notin 1..(L + 1)
          BY <1>1, <3>1, <3>5, <4>3
        <5> QED
          BY <3>2, <4>1, <4>3, <5>1
      <4> QED
        BY <4>2, <4>3
    <3> QED
      BY <3>3, <3>4, <3>5
  <2> QED
    BY <2>1, <2>2
<1>8. top'[th] = g
  <2>1. TopSlot(th)' = y
    BY <1>4, <1>5 DEF TopSlot
  <2> QED
    BY <1>6, <1>7, <2>1 DEF top
<1>9. fr[y] = NoFrame
  BY <1>1, <1>6 DEF fr
<1>10. stack'[th] # <<>>
  BY <1>1, <1>4, <1>5
<1> QED
  BY <1>4, <1>5, <1>6, <1>7, <1>8, <1>9, <1>10 DEF f, g

-----------------------------------------------------------------------------
(***************************************************************************)
(* What each action of EventPtr::notify does to the stacks.                *)
(***************************************************************************)
AFrame(t, pc, i) == [task |-> t, pc |-> pc, i |-> i]

\* The innermost notification of th becomes h, or returns.
Turns(th, h) ==
  /\ stack' \in [Thread -> Seq(Frame)]
  /\ \A x \in Slot : fr'[x] = IF x = TopSlot(th) THEN h ELSE fr[x]
  /\ \A u \in Thread : u # th => top'[u] = top[u] /\ Len(stack'[u]) = Len(stack[u])
  /\ \A u \in Thread : stack'[u] # <<>> => stack[u] # <<>>
  /\ h # NoFrame => top'[th] = h /\ Len(stack'[th]) = Len(stack[th])
  /\ h = NoFrame => top'[th].pc \in {"none", "followers"} /\ Len(stack'[th]) = Len(stack[th]) - 1

\* The notification of th waits for one of the post-event of t.
Nests(th, t) ==
  LET f == top[th]
      y == <<th, Len(stack[th]) + 1>>
  IN  /\ stack' \in [Thread -> Seq(Frame)]
      /\ y \in Slot /\ y # TopSlot(th) /\ fr[y] = NoFrame
      /\ \A x \in Slot : fr'[x] = IF x = y THEN AFrame(t, "post", 0)
                                  ELSE IF x = TopSlot(th) THEN AFrame(f.task, "followers", f.i - 1)
                                  ELSE fr[x]
      /\ \A u \in Thread : u # th => top'[u] = top[u] /\ Len(stack'[u]) = Len(stack[u])
      /\ \A u \in Thread : stack'[u] # <<>> => stack[u] # <<>>
      /\ top'[th] = AFrame(t, "post", 0) /\ Len(stack'[th]) = Len(stack[th]) + 1

\* A thread that is in a notification has it in its top slot.
LEMMA InTop ==
  ASSUME Types, NEW th \in Thread, NEW pc, InFrame(th, pc)
  PROVE  /\ stack[th] # <<>> /\ TopSlot(th) \in Slot /\ Len(stack[th]) > 0
         /\ top[th] = Top(th) /\ top[th] = fr[TopSlot(th)] /\ top[th] \in Frame
         /\ top[th].pc = pc /\ top[th].task \in Task /\ top[th].i \in Nat
<1>1. stack[th] # <<>> /\ Top(th).pc = pc
  BY DEF InFrame
<1>2. /\ TopSlot(th) \in Slot /\ top[th] = fr[TopSlot(th)] /\ top[th] = Top(th)
      /\ top[th] \in Frame /\ Len(stack[th]) > 0
  BY <1>1, TopFrame DEF Types
<1> QED
  BY <1>1, <1>2 DEF Frame

\* Continue and Return, as Turns.
LEMMA ContinueTurns ==
  ASSUME Types, NEW th \in Thread, stack[th] # <<>>,
         NEW pc \in FramePcs, NEW i \in Nat, Continue(th, pc, i)
  PROVE  Turns(th, AFrame(top[th].task, pc, i))
<1> DEFINE h == AFrame(top[th].task, pc, i)
<1>1. /\ stack' \in [Thread -> Seq(Frame)]
      /\ \A x \in Slot : fr'[x] = IF x = TopSlot(th) THEN h ELSE fr[x]
      /\ \A u \in Thread : Len(stack'[u]) = Len(stack[u]) /\ (stack'[u] = <<>> <=> stack[u] = <<>>)
      /\ \A u \in Thread : top'[u] = IF u = th THEN h ELSE top[u]
  <2>1. top[th] = Top(th)
    BY TopFrame DEF Types
  <2> QED
    BY <2>1, StackContinue DEF Types, AFrame
<1>2. h.pc = pc /\ NoFrame.pc = "none" /\ pc # "none"
  BY DEF AFrame, NoFrame, FramePcs
<1> HIDE DEF h
<1>3. h # NoFrame
  BY <1>2
<1>4. Turns(th, h)
  BY <1>1, <1>3 DEF Turns
<1> QED
  BY <1>4 DEF h

\* A return leaves what waits below, at its end.
LEMMA ReturnTurns ==
  ASSUME Types, StackShape, NEW th \in Thread, stack[th] # <<>>, Return(th)
  PROVE  Turns(th, NoFrame)
BY StackReturn DEF Types, Turns

\* A finite set with an element has a positive size.
LEMMA NonEmptySize ==
  ASSUME NEW S, IsFiniteSet(S)
  PROVE  /\ Cardinality(S) \in Nat
         /\ \A x \in S : Cardinality(S) >= 1
<1>1. Cardinality(S) \in Nat
  BY FS_CardinalityType
<1>2. ASSUME NEW x \in S PROVE Cardinality(S) # 0
  BY FS_EmptySet
<1> QED
  BY <1>1, <1>2

\* A post-event is not reached before the body has ended, while it is being
\* notified, or while a child still has to notify it.
LEMMA PostPositive ==
  ASSUME Types, PostCounts, NEW t \in Task
  PROVE  /\ post[t] \in Nat
         /\ t \notin started \/ Running(t) => post[t] >= 1
         /\ \A th \in Thread : top[th].pc = "post" /\ top[th].task = t => post[t] >= 1
         /\ \A y \in Edges(PostOf(t)) : post[t] >= 1
<1> DEFINE a == Cardinality(PostFrames(t))
           b == Cardinality(Edges(PostOf(t)))
           c == IF t \notin started \/ Running(t) THEN 1 ELSE 0
<1>1. /\ a \in Nat /\ \A x \in PostFrames(t) : a >= 1
      /\ b \in Nat /\ \A y \in Edges(PostOf(t)) : b >= 1
  BY NonEmptySize DEF PostCounts
<1>2. post[t] = c + a + b /\ c \in {0, 1} /\ (t \notin started \/ Running(t) => c = 1)
  BY DEF PostCounts
<1>3. \A th \in Thread : top[th].pc = "post" /\ top[th].task = t => <<th, 1>> \in PostFrames(t)
  BY DEF PostFrames
<1> HIDE DEF a, b, c
<1>4. \A th \in Thread : top[th].pc = "post" /\ top[th].task = t => a >= 1
  BY <1>1, <1>3
<1> QED
  BY <1>1, <1>2, <1>4

\* notify on a post-event: fetch_sub, and on if the state becomes one or zero.
LEMMA NotifyPostIs ==
  ASSUME IInv, NEW th \in Thread, NotifyPost(th)
  PROVE  LET t == top[th].task
         IN  /\ top[th].pc = "post" /\ t \in Task /\ post[t] \in Nat /\ post[t] >= 1
             /\ post' = [post EXCEPT ![t] = post[t] - 1]
             /\ post[t] > 2 => Turns(th, NoFrame)
             /\ ~ (post[t] > 2) => Turns(th, AFrame(t, "waker", post[t] - 1))
<1> DEFINE t == top[th].task
<1>1. /\ stack[th] # <<>> /\ top[th] = Top(th) /\ top[th].pc = "post" /\ t \in Task
  BY InTop DEF NotifyPost, IInv
<1>2. post[t] \in Nat /\ post[t] >= 1
  BY <1>1, PostPositive DEF IInv
<1>3. post' = [post EXCEPT ![t] = post[t] - 1]
  BY <1>1 DEF NotifyPost
<1>4. ASSUME post[t] > 2 PROVE Turns(th, NoFrame)
  BY <1>1, <1>4, ReturnTurns DEF NotifyPost, IInv
<1>5. ASSUME ~ (post[t] > 2) PROVE Turns(th, AFrame(t, "waker", post[t] - 1))
  <2>1. Continue(th, "waker", post[t] - 1) /\ post[t] - 1 \in Nat
    BY <1>1, <1>2, <1>5 DEF NotifyPost
  <2> QED
    BY <1>1, <2>1, ContinueTurns DEF IInv, FramePcs
<1> QED
  BY <1>1, <1>2, <1>3, <1>4, <1>5

\* notify on a result-get-event.
LEMMA NotifyGetIs ==
  ASSUME IInv, NEW th \in Thread, NotifyGet(th)
  PROVE  LET t == top[th].task
         IN  /\ top[th].pc = "get" /\ t \in Task
             /\ result_get' = [result_get EXCEPT ![t] = result_get[t] - 1]
             /\ Turns(th, AFrame(t, "countdown", 0))
<1>1. /\ stack[th] # <<>> /\ top[th] = Top(th) /\ top[th].pc = "get" /\ top[th].task \in Task
  BY InTop DEF NotifyGet, IInv
<1>2. Continue(th, "countdown", 0)
  BY DEF NotifyGet
<1>3. Turns(th, AFrame(top[th].task, "countdown", 0))
  BY <1>1, <1>2, ContinueTurns DEF IInv, FramePcs
<1> QED
  BY <1>1, <1>3 DEF NotifyGet

\* The read of waker_id, and then the resources, the followers or the end.
LEMMA ReadWakerIs ==
  ASSUME IInv, NEW th \in Thread, ReadWaker(th)
  PROVE  LET f == top[th]
         IN  /\ f.pc = "waker" /\ f.task \in Task
             /\ \/ f.i = 1 /\ Turns(th, NoFrame)
                \/ /\ f.i = 0 /\ access[f.task] # <<>>
                   /\ Turns(th, AFrame(f.task, "delete", Len(access[f.task])))
                \/ /\ f.i = 0 /\ access[f.task] = <<>>
                   /\ Turns(th, AFrame(f.task, "followers", Len(followers[f.task])))
<1> DEFINE f == top[th]
<1>1. /\ stack[th] # <<>> /\ f = Top(th) /\ f.pc = "waker" /\ f.task \in Task
      /\ TopSlot(th) \in Slot /\ f = fr[TopSlot(th)]
  BY InTop DEF ReadWaker, IInv
<1>2. f.i \in {0, 1}
  BY <1>1 DEF IInv, FramesMatch, FrameMatches
<1>3. Len(access[f.task]) \in Nat /\ Len(followers[f.task]) \in Nat
  <2>1. access[f.task] \in AccessSeq
    BY <1>1 DEF IInv, Types
  <2>2. access[f.task] \in Seq(Range(access[f.task]))
    BY <2>1, GraphAssumption DEF GraphAssumption
  <2> QED
    BY SMTT(60), <1>1, <2>2 DEF IInv, Types
<1>4. CASE f.i = 1
  BY <1>1, <1>4, ReturnTurns DEF ReadWaker, IInv
<1>5. CASE f.i = 0 /\ access[f.task] # <<>>
  <2>1. Continue(th, "delete", Len(access[f.task]))
    BY <1>1, <1>5 DEF ReadWaker
  <2> QED
    BY <1>1, <1>3, <1>5, <2>1, ContinueTurns DEF IInv, FramePcs
<1>6. CASE f.i = 0 /\ access[f.task] = <<>>
  <2>1. Continue(th, "followers", Len(followers[f.task]))
    BY <1>1, <1>6 DEF ReadWaker
  <2> QED
    BY <1>1, <1>3, <1>6, <2>1, ContinueTurns DEF IInv, FramePcs
<1> QED
  BY <1>1, <1>2, <1>4, <1>5, <1>6

\* Access lists are sequences of accesses to resources.
LEMMA AccessIs ==
  ASSUME Types, NEW t \in Task
  PROVE  /\ Len(access[t]) \in Nat /\ DOMAIN access[t] = 1..Len(access[t])
         /\ access[t] = <<>> <=> Len(access[t]) = 0
         /\ \A k \in 1..Len(access[t]) : ResourceOf(t, k) \in Resource
<1>1. access[t] \in AccessSeq
  BY DEF Types
<1>2. access[t] \in Seq(Range(access[t])) /\ \A a \in Range(access[t]) : a.res \in Resource
  BY <1>1, GraphAssumption DEF GraphAssumption, IsAccess
<1>3. Len(access[t]) \in Nat /\ DOMAIN access[t] = 1..Len(access[t])
      /\ (access[t] = <<>> <=> Len(access[t]) = 0)
  BY <1>2
<1>4. \A k \in 1..Len(access[t]) : access[t][k] \in Range(access[t])
  BY <1>3 DEF Range
<1> QED
  BY <1>2, <1>3, <1>4 DEF ResourceOf

\* Before its body has run a task is not finished.
LEMMA ReachedIsStarted ==
  ASSUME Types, PostCounts, StatusMatches, NEW q \in Task, post[q] = 0
  PROVE  /\ q \in started /\ ~ Running(q) /\ result_set[q] = 0
         /\ \A th \in Thread : ~ InPlace("register", th, q)
<1>1. q \in started /\ ~ Running(q)
  BY PostPositive
<1>2. result_set[q] = 0
  BY <1>1 DEF PostCounts
<1>3. \A th \in Thread : ~ InPlace("register", th, q)
  BY <1>1 DEF StatusMatches, PlaceKind, Holder
<1> QED
  BY <1>1, <1>2, <1>3

\* delete_from_resources finds the entry that submit made.
LEMMA DeleteIs ==
  ASSUME IInv, NEW th \in Thread, DeleteFromResource(th)
  PROVE  LET f == top[th]
             r == ResourceOf(f.task, f.i)
         IN  /\ f.pc = "delete" /\ f.task \in Task /\ f.i \in 1..Len(access[f.task])
             /\ r \in Resource /\ users_mutex[r] = NoThread
             /\ \E n \in DOMAIN users[r] :
                  /\ users[r][n] = <<f.task, f.i>>
                  /\ users' = [users EXCEPT ![r] = Seqs!RemoveAt(users[r], n)]
             /\ f.i > 1 => Turns(th, AFrame(f.task, "delete", f.i - 1))
             /\ f.i = 1 => Turns(th, AFrame(f.task, "followers", Len(followers[f.task])))
<1> DEFINE f == top[th]
           r == ResourceOf(f.task, f.i)
           n == EntryOf(r, f.task, f.i)
<1>1. /\ stack[th] # <<>> /\ f = Top(th) /\ f.pc = "delete" /\ f.task \in Task
      /\ TopSlot(th) \in Slot /\ f = fr[TopSlot(th)] /\ f.i \in Nat
  BY InTop DEF DeleteFromResource, IInv
<1>2. f.i \in 1..Len(access[f.task]) /\ life[f.task] # "unborn"
  BY <1>1 DEF IInv, FramesMatch, FrameMatches
<1>3. r \in Resource /\ users_mutex[r] = NoThread
  BY <1>1, <1>2, AccessIs DEF DeleteFromResource, IInv
<1>4. Listed(f.task, f.i)
  <2>1. Carries(TopSlot(th), f.task)
    BY <1>1 DEF Carries
  <2>2. post[f.task] = 0
    BY <1>1, <2>1 DEF IInv, CarriedOnce
  <2>3. \A u \in Thread : ~ InPlace("register", u, f.task)
    BY <1>1, <2>2, ReachedIsStarted DEF IInv
  <2> QED
    BY <1>1, <2>1, <2>3 DEF Listed
<1>5. \E m \in DOMAIN users[r] : users[r][m] = <<f.task, f.i>>
  BY <1>1, <1>2, <1>4 DEF IInv, Entered
<1>6. n \in DOMAIN users[r] /\ users[r][n] = <<f.task, f.i>>
  BY Zenon, <1>5 DEF EntryOf
<1>7. users' = [users EXCEPT ![r] = Seqs!RemoveAt(users[r], n)]
  BY <1>1 DEF DeleteFromResource
<1>8. ASSUME f.i > 1 PROVE Turns(th, AFrame(f.task, "delete", f.i - 1))
  <2>1. Continue(th, "delete", f.i - 1) /\ f.i - 1 \in Nat
    BY <1>1, <1>8 DEF DeleteFromResource
  <2> QED
    BY <1>1, <2>1, ContinueTurns DEF IInv, FramePcs
<1>9. ASSUME f.i = 1 PROVE Turns(th, AFrame(f.task, "followers", Len(followers[f.task])))
  <2>1. Continue(th, "followers", Len(followers[f.task]))
    BY <1>1, <1>9 DEF DeleteFromResource
  <2>2. Len(followers[f.task]) \in Nat
    BY <1>1 DEF IInv, Types
  <2> QED
    BY <1>1, <2>1, <2>2, ContinueTurns DEF IInv, FramePcs
<1> HIDE DEF n
<1> QED
  BY Zenon, <1>1, <1>2, <1>3, <1>6, <1>7, <1>8, <1>9

\* A follower is a pre-event or a post-event of a task.
LEMMA FollowerIs ==
  ASSUME Types, NEW q \in Task
  PROVE  /\ Len(followers[q]) \in Nat /\ DOMAIN followers[q] = 1..Len(followers[q])
         /\ \A n \in DOMAIN followers[q] :
              LET e == followers[q][n]
              IN  /\ e.task \in Task
                  /\ \/ e.event = "pre" /\ e = PreOf(e.task)
                     \/ e.event = "post" /\ e = PostOf(e.task)
<1> DEFINE R == [task : Task, event : {"pre", "post"}]
<1>1. followers[q] \in Seq(R)
  BY DEF Types
<1>2. ASSUME NEW e \in R
      PROVE  /\ e.task \in Task
             /\ \/ e.event = "pre" /\ e = PreOf(e.task)
                \/ e.event = "post" /\ e = PostOf(e.task)
  BY DEF PreOf, PostOf
<1> HIDE DEF R
<1>3. /\ Len(followers[q]) \in Nat /\ DOMAIN followers[q] = 1..Len(followers[q])
      /\ \A n \in DOMAIN followers[q] : followers[q][n] \in R
  BY <1>1
<1> QED
  BY <1>2, <1>3

\* notify_followers: one follower, which is a pre-event or the parent.
LEMMA NotifyFollowerIs ==
  ASSUME IInv, NEW th \in Thread, NotifyFollower(th)
  PROVE  LET f == top[th]
             g == followers[f.task][f.i]
         IN  /\ f.pc = "followers" /\ f.task \in Task /\ f.i \in Nat /\ f.i \in DOMAIN followers[f.task]
             /\ g.task \in Task
             /\ \/ /\ g = PreOf(g.task) /\ pre' = [pre EXCEPT ![g.task] = pre[g.task] - 1]
                   /\ pre[g.task] = 2 => Turns(th, AFrame(f.task, "activate", f.i))
                   /\ pre[g.task] # 2 => Turns(th, AFrame(f.task, "followers", f.i - 1))
                \/ /\ g = PostOf(g.task) /\ pre' = pre
                   /\ f.i = 1 /\ g.task = parent[f.task] /\ Nests(th, g.task)
<1> DEFINE f == top[th]
           g == followers[f.task][f.i]
<1>1. /\ stack[th] # <<>> /\ f = Top(th) /\ f.pc = "followers" /\ f.task \in Task
      /\ TopSlot(th) \in Slot /\ f = fr[TopSlot(th)] /\ f.i \in Nat
  BY Zenon, InTop DEF NotifyFollower, IInv
<1>2. f.i <= Len(followers[f.task]) /\ f.i > 0
  BY Zenon, <1>1 DEF IInv, FramesMatch, FrameMatches, NotifyFollower
<1>3. f.i \in DOMAIN followers[f.task]
  <2>1. Len(followers[f.task]) \in Nat /\ DOMAIN followers[f.task] = 1..Len(followers[f.task])
    BY <1>1, FollowerIs DEF IInv
  <2> QED
    BY <1>1, <1>2, <2>1
<1>4. /\ g.task \in Task
      /\ g.event = "pre" => g = PreOf(g.task)
      /\ g.event = "post" => g = PostOf(g.task)
      /\ g.event = "pre" \/ g.event = "post"
  BY <1>1, <1>3, FollowerIs DEF IInv
<1>5. f.i - 1 \in Nat
  BY <1>1, <1>2
<1>6. CASE g.event = "pre"
  <2>1. /\ pre' = [pre EXCEPT ![g.task] = pre[g.task] - 1]
        /\ pre[g.task] = 2 => Continue(th, "activate", f.i)
        /\ pre[g.task] # 2 => Continue(th, "followers", f.i - 1)
    BY Zenon, <1>1, <1>6 DEF NotifyFollower
  <2>2. pre[g.task] = 2 => Turns(th, AFrame(f.task, "activate", f.i))
    BY <1>1, <2>1, ContinueTurns DEF IInv, FramePcs
  <2>3. pre[g.task] # 2 => Turns(th, AFrame(f.task, "followers", f.i - 1))
    BY Zenon, <1>1, <1>5, <2>1, ContinueTurns DEF IInv, FramePcs
  <2>4. g = PreOf(g.task)
    BY <1>4, <1>6
  <2> QED
    BY Zenon, <1>1, <1>3, <1>4, <2>1, <2>2, <2>3, <2>4
<1>7. CASE g.event = "post"
  <2>1. /\ pre' = pre
        /\ stack' = [stack EXCEPT ![th] =
             <<[task |-> g.task, pc |-> "post", i |-> 0], [Top(th) EXCEPT !.i = Top(th).i - 1]>>
               \o Tail(@)]
    BY Zenon, <1>1, <1>7 DEF NotifyFollower
  <2>2. Nests(th, g.task)
    <3> DEFINE u == g.task
    <3>1. Top(th).i - 1 \in Nat /\ u \in Task
      BY <1>1, <1>4, <1>5
    <3>3. stack' = [stack EXCEPT ![th] =
             <<[task |-> u, pc |-> "post", i |-> 0], [Top(th) EXCEPT !.i = Top(th).i - 1]>>
               \o Tail(@)]
      BY <2>1
    <3>4. stack \in [Thread -> Seq(Frame)]
      BY DEF IInv, Types
    <3> HIDE DEF u, f, g
    <3>2. /\ stack' \in [Thread -> Seq(Frame)]
          /\ <<th, Len(stack[th]) + 1>> \in Slot /\ <<th, Len(stack[th]) + 1>> # TopSlot(th)
          /\ fr[<<th, Len(stack[th]) + 1>>] = NoFrame
          /\ \A x \in Slot : fr'[x] = IF x = <<th, Len(stack[th]) + 1>> THEN AFrame(u, "post", 0)
                               ELSE IF x = TopSlot(th) THEN AFrame(Top(th).task, Top(th).pc, Top(th).i - 1)
                               ELSE fr[x]
          /\ \A v \in Thread : v # th => stack'[v] = stack[v]
          /\ Len(stack'[th]) = Len(stack[th]) + 1 /\ stack'[th] # <<>>
          /\ \A v \in Thread : top'[v] = IF v = th THEN AFrame(u, "post", 0) ELSE top[v]
      BY ZenonT(60), <1>1, <3>1, <3>3, <3>4, StackNest DEF AFrame
    <3>5. top[th].pc = "followers" /\ top[th] = Top(th)
      BY <1>1 DEF f
    <3>6. Nests(th, u)
      BY <1>1, <3>2, <3>5 DEF Nests
    <3> QED
      BY <3>6 DEF u
  <2>3. g = PostOf(g.task)
    BY <1>4, <1>7
  <2>4. f.i = 1 /\ g.task = parent[f.task]
    BY <1>1, <1>3, <1>7 DEF IInv, FollowersMatch
  <2> QED
    BY <1>1, <1>3, <1>4, <2>1, <2>2, <2>3, <2>4
<1> QED
  BY Zenon, <1>4, <1>6, <1>7

\* The scheduler gets a follower whose pre-event became ready.
LEMMA ActivateTaskIs ==
  ASSUME IInv, NEW th \in Thread, ActivateTask(th)
  PROVE  LET f == top[th]
             g == followers[f.task][f.i]
         IN  /\ f.pc = "activate" /\ f.task \in Task /\ f.i \in Nat /\ f.i \in DOMAIN followers[f.task]
             /\ g.task \in Task /\ g = PreOf(g.task)
             /\ ready' = [ready EXCEPT ![g.task] = ready[g.task] + 1]
             /\ Turns(th, AFrame(f.task, "followers", f.i - 1))
<1> DEFINE f == top[th]
           g == followers[f.task][f.i]
<1>1. /\ stack[th] # <<>> /\ f = Top(th) /\ f.pc = "activate" /\ f.task \in Task
      /\ TopSlot(th) \in Slot /\ f = fr[TopSlot(th)] /\ f.i \in Nat
  BY InTop DEF ActivateTask, IInv
<1>2. f.i \in 1..Len(followers[f.task]) /\ g.event = "pre"
  BY <1>1 DEF IInv, FramesMatch, FrameMatches
<1>3. f.i \in DOMAIN followers[f.task] /\ f.i - 1 \in Nat
  <2>1. Len(followers[f.task]) \in Nat /\ DOMAIN followers[f.task] = 1..Len(followers[f.task])
    BY <1>1, FollowerIs DEF IInv
  <2> QED
    BY <1>1, <1>2, <2>1
<1>4. g.task \in Task /\ g = PreOf(g.task)
  <2>1. g.task \in Task /\ (g = PreOf(g.task) \/ g.event = "post")
    BY <1>1, <1>3, FollowerIs DEF IInv
  <2> QED
    BY <1>2, <2>1
<1>5. ready' = [ready EXCEPT ![g.task] = ready[g.task] + 1] /\ Continue(th, "followers", f.i - 1)
  BY <1>1 DEF ActivateTask
<1>6. Turns(th, AFrame(f.task, "followers", f.i - 1))
  BY Zenon, <1>1, <1>3, <1>5, ContinueTurns DEF IInv, FramePcs
<1> QED
  BY Zenon, <1>1, <1>3, <1>4, <1>5, <1>6

\* The post-event or the result-get-event is done with.
LEMMA CountDownIs ==
  ASSUME IInv, NEW th \in Thread, CountDown(th)
  PROVE  LET f == top[th]
         IN  /\ f.task \in Task /\ (f.pc = "countdown" \/ (f.pc = "followers" /\ f.i = 0))
             /\ removal_countdown' = [removal_countdown EXCEPT ![f.task] = removal_countdown[f.task] - 1]
             /\ removal_countdown[f.task] = 1 => Turns(th, AFrame(f.task, "free", 0))
             /\ removal_countdown[f.task] # 1 => Turns(th, NoFrame)
<1> DEFINE f == top[th]
<1>1. InFrame(th, "countdown") \/ (InFrame(th, "followers") /\ Top(th).i = 0)
  BY DEF CountDown
<1>2. /\ stack[th] # <<>> /\ f = Top(th) /\ f.task \in Task
      /\ (f.pc = "countdown" \/ (f.pc = "followers" /\ f.i = 0))
  BY <1>1, InTop DEF IInv
<1>3. /\ removal_countdown' = [removal_countdown EXCEPT ![f.task] = removal_countdown[f.task] - 1]
      /\ removal_countdown[f.task] = 1 => Continue(th, "free", 0)
      /\ removal_countdown[f.task] # 1 => Return(th)
  BY <1>2 DEF CountDown
<1>4. removal_countdown[f.task] = 1 => Turns(th, AFrame(f.task, "free", 0))
  BY <1>2, <1>3, ContinueTurns DEF IInv, FramePcs
<1>5. removal_countdown[f.task] # 1 => Turns(th, NoFrame)
  BY <1>2, <1>3, ReturnTurns DEF IInv
<1> QED
  BY <1>2, <1>3, <1>4, <1>5

\* free_task.
LEMMA FreeTaskIs ==
  ASSUME IInv, NEW th \in Thread, FreeTask(th)
  PROVE  LET t == top[th].task
         IN  /\ top[th].pc = "free" /\ t \in Task
             /\ life' = [life EXCEPT ![t] = "freed"]
             /\ Turns(th, AFrame(t, "depth", 0))
<1>1. /\ stack[th] # <<>> /\ top[th] = Top(th) /\ top[th].pc = "free" /\ top[th].task \in Task
  BY InTop DEF FreeTask, IInv
<1>2. Continue(th, "depth", 0)
  BY DEF FreeTask
<1>3. Turns(th, AFrame(top[th].task, "depth", 0))
  BY <1>1, <1>2, ContinueTurns DEF IInv, FramePcs
<1> QED
  BY <1>1, <1>3 DEF FreeTask

\* The last thing free_task does.
LEMMA ReadDepthIs ==
  ASSUME IInv, NEW th \in Thread, ReadDepth(th)
  PROVE  top[th].pc = "depth" /\ top[th].task \in Task /\ Turns(th, NoFrame)
<1>1. stack[th] # <<>> /\ top[th].pc = "depth" /\ top[th].task \in Task
  BY InTop DEF ReadDepth, IInv
<1> QED
  BY <1>1, ReturnTurns DEF ReadDepth, IInv

-----------------------------------------------------------------------------
(***************************************************************************)
(* What each action outside of notify does.                                *)
(***************************************************************************)

\* The thread goes on with this job.
Sets(th, pc, cur, new, k, it) ==
  /\ job' \in [Thread -> Job]
  /\ \A u \in Thread : u # th => job'[u] = job[u]
  /\ job'[th].pc = pc /\ job'[th].cur = cur /\ job'[th].new = new
  /\ job'[th].k = k /\ job'[th].it = it

\* A thread that is outside of notify has no notification.
LEMMA AtIs ==
  ASSUME Types, NEW th \in Thread, NEW pc, At(th, pc)
  PROVE  /\ stack[th] = <<>> /\ top[th] = NoFrame /\ job[th].pc = pc
         /\ job[th] \in Job /\ job[th].cur \in Task \union {Root} /\ job[th].new \in Task \union {Root}
         /\ job[th].k \in Nat /\ job[th].it \in Nat
<1>1. stack[th] = <<>> /\ job[th].pc = pc
  BY DEF At
<1>2. top[th] = NoFrame
  BY <1>1, TopFrame DEF Types
<1>3. job[th] \in Job
  BY DEF Types
<1> QED
  BY <1>1, <1>2, <1>3 DEF Job

\* The main program and a task body create tasks in their own space.
LEMMA InProgramIs ==
  ASSUME IInv, NEW th \in Thread, InProgram(th)
  PROVE  /\ stack[th] = <<>> /\ top[th] = NoFrame /\ job[th] \in Job
         /\ \/ th = Main /\ job[th].pc = "top" /\ job[th].cur = Root
            \/ th \in Worker /\ th # Main /\ job[th].pc = "body" /\ job[th].cur \in Task
<1>1. CASE th = Main
  <2>1. At(th, "top")
    BY <1>1 DEF InProgram
  <2>2. JobMatches(th)
    BY DEF IInv, ThreadsMatch
  <2> QED
    BY <1>1, <2>1, <2>2, AtIs DEF IInv, JobMatches
<1>2. CASE th # Main
  <2>1. At(th, "body") /\ th \in Worker
    BY <1>2, Constants DEF InProgram
  <2>2. JobMatches(th)
    BY DEF IInv, ThreadsMatch
  <2>3. job[th] \in Job /\ job[th].pc = "body" /\ job[th].cur \in Task \union {Root}
        /\ stack[th] = <<>> /\ top[th] = NoFrame
    BY <2>1, AtIs DEF IInv
  <2>4. job[th].cur # Root
    BY <1>2, <2>2, <2>3 DEF JobMatches
  <2> QED
    BY <1>2, <2>1, <2>3, <2>4
<1> QED
  BY <1>1, <1>2

\* emplace_task and submit up to the registration.
LEMMA CreateTaskIs ==
  ASSUME IInv, NEW th \in Thread, NEW t \in Task, NEW a \in AccessSeq, CreateTask(th, t, a)
  PROVE  LET p == job[th].cur
         IN  /\ InProgram(th)
             /\ \A u \in Task : life[u] = "unborn" <=> u >= t
             /\ life[t] = "unborn" /\ life' = [life EXCEPT ![t] = "alive"]
             /\ parent' = [parent EXCEPT ![t] = p] /\ access' = [access EXCEPT ![t] = a]
             /\ followers[t] = <<>>
             /\ p = Root => followers' = followers /\ post' = post
             /\ p # Root => /\ followers' = [followers EXCEPT ![t] = <<PostOf(p)>>]
                            /\ post' = [post EXCEPT ![p] = post[p] + 1]
             /\ Len(a) \in Nat
             /\ Sets(th, "register", p, t, Len(a), job[th].it)
<1> DEFINE p == job[th].cur
<1>1. InProgram(th) /\ \A u \in Task : life[u] = "unborn" <=> u >= t
  BY DEF CreateTask
<1>2. life[t] = "unborn"
  BY <1>1, Constants
<1>3. followers[t] = <<>>
  BY <1>2 DEF IInv, FollowersMatch
<1>4. Append(<<>>, PostOf(p)) = <<PostOf(p)>>
  BY DEF PostOf
<1>5. Len(a) \in Nat
  <2>1. a \in Seq(Range(a))
    BY GraphAssumption DEF GraphAssumption
  <2> QED
    BY <2>1
<1>6. p # Root => /\ followers' = [followers EXCEPT ![t] = <<PostOf(p)>>]
                  /\ post' = [post EXCEPT ![p] = post[p] + 1]
  <2>1. p # Root => followers' = [followers EXCEPT ![t] = Append(followers[t], PostOf(p))]
    BY DEF CreateTask
  <2> QED
    BY <1>3, <1>4, <2>1 DEF CreateTask
<1>7. Sets(th, "register", p, t, Len(a), job[th].it)
  <2>1. job' = [job EXCEPT ![th].pc = "register", ![th].new = t, ![th].k = Len(a)]
    BY DEF CreateTask
  <2>2. job \in [Thread -> Job]
    BY DEF IInv, Types
  <2> QED
    BY ZenonT(60), <1>5, <2>1, <2>2 DEF Sets, Job, Pcs
<1> QED
  BY <1>1, <1>2, <1>3, <1>5, <1>6, <1>7 DEF CreateTask

\* One entry in a users list.
LEMMA RegisterIs ==
  ASSUME IInv, NEW th \in Thread, Register(th)
  PROVE  LET t == job[th].new
             k == job[th].k
         IN  /\ At(th, "register") /\ job[th].pc = "register" /\ t \in Task /\ life[t] # "unborn"
             /\ k \in 1..Len(access[t]) /\ ResourceOf(t, k) \in Resource
             /\ users' = [users EXCEPT ![ResourceOf(t, k)] = Append(users[ResourceOf(t, k)], <<t, k>>)]
             /\ Sets(th, "register", job[th].cur, t, k - 1, job[th].it)
<1> DEFINE t == job[th].new
           k == job[th].k
<1>1. At(th, "register") /\ k > 0 /\ job[th].pc = "register" /\ k \in Nat
  BY AtIs DEF Register, IInv
<1>2. t \in Task /\ life[t] # "unborn" /\ k <= Len(access[t])
  BY <1>1 DEF IInv, ThreadsMatch, JobMatches
<1>3. k \in 1..Len(access[t]) /\ ResourceOf(t, k) \in Resource
  BY <1>1, <1>2, AccessIs DEF IInv
<1>4. Sets(th, "register", job[th].cur, t, k - 1, job[th].it)
  <2>1. job' = [job EXCEPT ![th].k = k - 1] /\ k - 1 \in Nat
    BY <1>1 DEF Register
  <2>2. job \in [Thread -> Job]
    BY DEF IInv, Types
  <2> QED
    BY <1>1, <2>1, <2>2 DEF Sets, Job
<1> QED
  BY <1>1, <1>2, <1>3, <1>4 DEF Register

\* The new task goes to the scheduler.
LEMMA EmplaceTaskIs ==
  ASSUME IInv, NEW th \in Thread, EmplaceTask(th)
  PROVE  LET t == job[th].new
         IN  /\ At(th, "register") /\ job[th].pc = "register" /\ t \in Task /\ life[t] # "unborn"
             /\ parent[t] = job[th].cur /\ job[th].k = 0 /\ future[t] = "none"
             /\ emplaced' = emplaced \union {t} /\ future' = [future EXCEPT ![t] = "held"]
             /\ Sets(th, IF th = Main THEN "top" ELSE "body", job[th].cur, Root, job[th].k, job[th].it)
<1> DEFINE t == job[th].new
<1>1. At(th, "register") /\ job[th].pc = "register" /\ job[th].k = 0
  BY AtIs DEF EmplaceTask, IInv
<1>2. t \in Task /\ life[t] # "unborn" /\ parent[t] = job[th].cur /\ future[t] = "none"
  BY <1>1 DEF IInv, ThreadsMatch, JobMatches
<1>3. Sets(th, IF th = Main THEN "top" ELSE "body", job[th].cur, Root, job[th].k, job[th].it)
  <2>1. job' = [job EXCEPT ![th].pc = IF th = Main THEN "top" ELSE "body", ![th].new = Root]
    BY DEF EmplaceTask
  <2>2. job \in [Thread -> Job]
    BY DEF IInv, Types
  <2>3. (IF th = Main THEN "top" ELSE "body") \in Pcs
    BY DEF Pcs
  <2> QED
    BY ZenonT(60), <2>1, <2>2, <2>3 DEF Sets, Job
<1> QED
  BY <1>1, <1>2, <1>3 DEF EmplaceTask

\* A thread outside of notify begins a notification.
Calls(th, t, pc) ==
  /\ stack' \in [Thread -> Seq(Frame)]
  /\ <<th, 1>> \in Slot /\ fr[<<th, 1>>] = NoFrame
  /\ \A x \in Slot : fr'[x] = IF x = <<th, 1>> THEN AFrame(t, pc, 0) ELSE fr[x]
  /\ \A u \in Thread : u # th => stack'[u] = stack[u] /\ top'[u] = top[u]
  /\ stack[th] = <<>> /\ top[th] = NoFrame
  /\ top'[th] = AFrame(t, pc, 0) /\ Len(stack'[th]) = 1

\* Call, as Calls.
LEMMA CallCalls ==
  ASSUME Types, NEW th \in Thread, stack[th] = <<>>,
         NEW t \in Task, NEW pc \in FramePcs, Call(th, t, pc)
  PROVE  Calls(th, t, pc)
<1>1. top[th] = NoFrame
  BY TopFrame DEF Types
<1>2. stack \in [Thread -> Seq(Frame)]
  BY DEF Types
<1> QED
  BY <1>1, <1>2, StackCall DEF Calls, AFrame

\* An action that leaves the stacks alone.
LEMMA SameStack ==
  ASSUME UNCHANGED stack
  PROVE  fr' = fr /\ top' = top /\ \A th \in Thread : TopSlot(th)' = TopSlot(th)
<1>1. fr' = fr
  BY DEF fr
<1> QED
  BY <1>1 DEF top, TopSlot

\* ~Future.
LEMMA DropFutureIs ==
  ASSUME IInv, NEW th \in Thread, NEW t \in Task, DropFuture(th, t)
  PROVE  /\ InProgram(th) /\ future[t] = "held" /\ life[t] # "unborn"
         /\ future' = [future EXCEPT ![t] = "gone"] /\ Calls(th, t, "get")
<1>1. InProgram(th) /\ future[t] = "held" /\ Call(th, t, "get")
  BY DEF DropFuture, Holds
<1>2. stack[th] = <<>>
  BY <1>1, InProgramIs
<1>3. Calls(th, t, "get")
  BY <1>1, <1>2, CallCalls DEF IInv, FramePcs
<1> QED
  BY <1>1, <1>3 DEF DropFuture, IInv, FutureMatches

\* The end of Future::get.
LEMMA EndGetIs ==
  ASSUME IInv, EndGet
  PROVE  LET t == job[Main].new
         IN  /\ job[Main].pc = "get" /\ t \in Task /\ future[t] = "held" /\ life[t] # "unborn"
             /\ job[Main].cur = Root /\ result_set[t] = 0
             /\ future' = [future EXCEPT ![t] = "gone"] /\ Calls(Main, t, "get")
             /\ Sets(Main, "top", Root, Root, job[Main].k, job[Main].it)
<1> DEFINE t == job[Main].new
<1>1. Main \in Thread
  BY Constants
<1>2. At(Main, "get") /\ job[Main].pc = "get" /\ stack[Main] = <<>>
  BY <1>1, AtIs DEF EndGet, IInv
<1>3. t \in Task /\ future[t] = "held" /\ job[Main].cur = Root
  BY <1>1, <1>2 DEF IInv, ThreadsMatch, JobMatches
<1>4. Calls(Main, t, "get")
  <2>1. Call(Main, t, "get")
    BY DEF EndGet
  <2> HIDE DEF t
  <2> QED
    BY <1>1, <1>2, <1>3, <2>1, CallCalls DEF IInv, FramePcs
<1>5. Sets(Main, "top", Root, Root, job[Main].k, job[Main].it)
  <2>1. job' = [job EXCEPT ![Main].pc = "top", ![Main].new = Root]
    BY DEF EndGet
  <2>2. job \in [Thread -> Job]
    BY DEF IInv, Types
  <2> QED
    BY ZenonT(60), <1>1, <1>3, <2>1, <2>2 DEF Sets, Job, Pcs
<1> QED
  BY <1>2, <1>3, <1>4, <1>5 DEF EndGet, IInv, FutureMatches

\* The main thread begins to wait, or leaves the barrier.
MainWaits ==
  /\ job[Main].pc \in {"top", "barrier"} /\ stack[Main] = <<>> /\ job[Main].cur = Root
  /\ \/ \E t \in Task : /\ Sets(Main, "get", Root, t, job[Main].k, job[Main].it)
                        /\ future[t] = "held" /\ parent[t] = Root
     \/ \E pc \in {"barrier", "done"} :
          Sets(Main, pc, Root, job[Main].new, job[Main].k, job[Main].it)
  /\ UNCHANGED <<objVars, pre, post, result_set, users, users_mutex, queueVars, stack, started>>

\* Future::get and barrier, up to their end.
LEMMA MainWaitsIs ==
  ASSUME IInv, (\E t \in Task : BeginGet(t)) \/ BeginBarrier \/ EndBarrier
  PROVE  MainWaits
<1>1. Main \in Thread /\ job \in [Thread -> Job]
  BY Constants DEF IInv, Types
<1>2. job[Main] \in Job /\ job[Main].cur = Root
  BY <1>1 DEF IInv, ThreadsMatch, JobMatches
<1>3. ASSUME NEW t \in Task, BeginGet(t) PROVE MainWaits
  <2>1. job[Main].pc = "top" /\ stack[Main] = <<>> /\ future[t] = "held" /\ parent[t] = Root
    BY Zenon, <1>1, <1>2, <1>3, InProgramIs, Constants DEF BeginGet, Holds
  <2>2. job' = [job EXCEPT ![Main].pc = "get", ![Main].new = t]
    BY <1>3 DEF BeginGet
  <2>3. Sets(Main, "get", Root, t, job[Main].k, job[Main].it)
    BY <1>1, <1>2, <2>2 DEF Sets, Job, Pcs
  <2> QED
    BY <1>2, <1>3, <2>1, <2>3 DEF MainWaits, BeginGet
<1>4. ASSUME BeginBarrier PROVE MainWaits
  <2>1. job[Main].pc = "top" /\ stack[Main] = <<>>
    BY <1>1, <1>4, InProgramIs, Constants DEF BeginBarrier
  <2>2. job' = [job EXCEPT ![Main].pc = "barrier"]
    BY <1>4 DEF BeginBarrier, Goto
  <2>3. Sets(Main, "barrier", Root, job[Main].new, job[Main].k, job[Main].it)
    BY <1>1, <1>2, <2>2 DEF Sets, Job, Pcs
  <2> QED
    BY <1>2, <1>4, <2>1, <2>3 DEF MainWaits, BeginBarrier
<1>5. ASSUME EndBarrier PROVE MainWaits
  <2>1. job[Main].pc = "barrier" /\ stack[Main] = <<>>
    BY <1>1, <1>5 DEF EndBarrier, At
  <2>2. job' = [job EXCEPT ![Main].pc = "done"]
    BY <1>5 DEF EndBarrier, Goto
  <2>3. Sets(Main, "done", Root, job[Main].new, job[Main].k, job[Main].it)
    BY <1>1, <1>2, <2>2 DEF Sets, Job, Pcs
  <2> QED
    BY <1>2, <1>5, <2>1, <2>3 DEF MainWaits, EndBarrier
<1> QED
  BY <1>3, <1>4, <1>5

\* The scheduler hands out a task to be initialised.
LEMMA PopNewIs ==
  ASSUME IInv, NEW w \in Worker, NEW t \in Task, PopNew(w, t)
  PROVE  /\ job[w].pc = "gather" /\ stack[w] = <<>> /\ t \in emplaced
         /\ emplaced' = emplaced \ {t} /\ pre' = [pre EXCEPT ![t] = pre[t] + 1]
         /\ Sets(w, "init", t, job[w].new, Len(access[t]), job[w].it)
<1>1. w \in Thread /\ job \in [Thread -> Job] /\ Len(access[t]) \in Nat
  BY Constants, AccessIs DEF IInv, Types
<1>2. job[w].pc = "gather" /\ stack[w] = <<>>
  BY DEF PopNew, At
<1>3. job' = [job EXCEPT ![w].pc = "init", ![w].cur = t, ![w].k = Len(access[t])]
  BY DEF PopNew
<1>4. Sets(w, "init", t, job[w].new, Len(access[t]), job[w].it)
  BY ZenonT(60), <1>1, <1>3 DEF Sets, Job, Pcs
<1> QED
  BY <1>2, <1>4 DEF PopNew

\* The scheduler hands out a task that is ready.
LEMMA PopReadyIs ==
  ASSUME IInv, NEW w \in Worker, NEW t \in Task, PopReady(w, t)
  PROVE  /\ job[w].pc = "gather" /\ stack[w] = <<>> /\ ready[t] > 0
         /\ ready' = [ready EXCEPT ![t] = ready[t] - 1]
         /\ Sets(w, "exec", t, job[w].new, job[w].k, job[w].it)
<1>1. w \in Thread /\ job \in [Thread -> Job]
  BY Constants DEF IInv, Types
<1>2. job[w].pc = "gather" /\ stack[w] = <<>>
  BY DEF PopReady, At
<1>3. job' = [job EXCEPT ![w].pc = "exec", ![w].cur = t]
  BY DEF PopReady
<1>4. Sets(w, "exec", t, job[w].new, job[w].k, job[w].it)
  BY ZenonT(60), <1>1, <1>3 DEF Sets, Job, Pcs
<1> QED
  BY <1>2, <1>4 DEF PopReady

\* The end of init_dependencies: the worker keeps the task or lets it go.
LEMMA EndInitIs ==
  ASSUME IInv, NEW w \in Worker, EndInit(w)
  PROVE  LET t == job[w].cur
         IN  /\ job[w].pc = "init" /\ stack[w] = <<>> /\ t \in Task
             /\ pre' = [pre EXCEPT ![t] = pre[t] - 1]
             /\ pre[t] = 2 => Sets(w, "exec", t, job[w].new, job[w].k, job[w].it)
             /\ pre[t] # 2 => Sets(w, "gather", Root, job[w].new, job[w].k, job[w].it)
<1>1. w \in Thread /\ job \in [Thread -> Job] /\ w # Main
  BY Constants DEF IInv, Types
<1>2. job[w].pc = "init" /\ stack[w] = <<>>
  BY DEF EndInit, At
<1>3. job[w].cur \in Task
  BY <1>1, <1>2 DEF IInv, ThreadsMatch, JobMatches, Job
<1>4. ASSUME pre[job[w].cur] = 2
      PROVE  Sets(w, "exec", job[w].cur, job[w].new, job[w].k, job[w].it)
  <2>1. job' = [job EXCEPT ![w].pc = "exec"]
    BY <1>4 DEF EndInit
  <2> QED
    BY <1>1, <2>1 DEF Sets, Job, Pcs
<1>5. ASSUME pre[job[w].cur] # 2
      PROVE  Sets(w, "gather", Root, job[w].new, job[w].k, job[w].it)
  <2>1. job' = [job EXCEPT ![w].pc = "gather", ![w].cur = Root]
    BY <1>5 DEF EndInit
  <2> QED
    BY ZenonT(60), <1>1, <2>1 DEF Sets, Job, Pcs
<1> QED
  BY <1>2, <1>3, <1>4, <1>5 DEF EndInit

\* The body begins ...
LEMMA ExecuteIs ==
  ASSUME IInv, NEW w \in Worker, Execute(w)
  PROVE  LET t == job[w].cur
         IN  /\ job[w].pc = "exec" /\ stack[w] = <<>> /\ t \in Task
             /\ pre' = [pre EXCEPT ![t] = pre[t] - 1] /\ started' = started \union {t}
             /\ Sets(w, "body", t, job[w].new, job[w].k, job[w].it)
<1>1. w \in Thread /\ job \in [Thread -> Job] /\ w # Main
  BY Constants DEF IInv, Types
<1>2. job[w].pc = "exec" /\ stack[w] = <<>>
  BY DEF Execute, At
<1>3. job[w].cur \in Task
  BY <1>1, <1>2 DEF IInv, ThreadsMatch, JobMatches, Job
<1>4. job' = [job EXCEPT ![w].pc = "body"]
  BY DEF Execute, Goto
<1>5. Sets(w, "body", job[w].cur, job[w].new, job[w].k, job[w].it)
  BY <1>1, <1>4 DEF Sets, Job, Pcs
<1> QED
  BY <1>2, <1>3, <1>5 DEF Execute

\* ... and returns.
LEMMA EndBodyIs ==
  ASSUME IInv, NEW w \in Worker, EndBody(w)
  PROVE  LET t == job[w].cur
         IN  /\ job[w].pc = "body" /\ t \in Task
             /\ result_set' = [result_set EXCEPT ![t] = result_set[t] - 1]
             /\ Sets(w, "gather", Root, job[w].new, job[w].k, job[w].it)
             /\ Calls(w, t, "post")
<1>1. w \in Thread /\ job \in [Thread -> Job] /\ w # Main
  BY Constants DEF IInv, Types
<1>2. job[w].pc = "body" /\ stack[w] = <<>> /\ job[w].cur \in Task
  BY <1>1, InProgramIs DEF EndBody
<1>3. job' = [job EXCEPT ![w].pc = "gather", ![w].cur = Root]
  BY DEF EndBody
<1>4. Sets(w, "gather", Root, job[w].new, job[w].k, job[w].it)
  BY ZenonT(60), <1>1, <1>3 DEF Sets, Job, Pcs
<1>5. Call(w, job[w].cur, "post")
  BY DEF EndBody
<1>6. Calls(w, job[w].cur, "post")
  BY <1>1, <1>2, <1>5, CallCalls DEF IInv, FramePcs
<1> QED
  BY <1>2, <1>4, <1>6 DEF EndBody

\* A task stays listed at its resources until it is finished.
LEMMA ListedBefore ==
  ASSUME IInv, NEW w \in Worker, job[w].pc \in InitPcs \union {"up"}
  PROVE  LET t == job[w].cur
         IN  /\ t \in Task /\ t \notin started /\ life[t] # "unborn" /\ post[t] # 0
             /\ job[w].k \in Nat /\ job[w].k <= Len(access[t]) /\ job[w].it \in Nat
             /\ \A k \in 1..Len(access[t]) : Listed(t, k)
<1> DEFINE t == job[w].cur
<1>1. w \in Thread /\ w # Main /\ job[w] \in Job /\ w \in Holder
  BY Constants DEF IInv, Types, Holder
<1>2. t \in Task /\ job[w].k \in Nat /\ job[w].k <= Len(access[t]) /\ job[w].it \in Nat
  BY <1>1 DEF IInv, ThreadsMatch, JobMatches, InitPcs, Job
<1>3. InPlace("cur", w, t)
  BY DEF InPlace
<1>4. t \notin started /\ life[t] # "unborn"
  BY <1>1, <1>2, <1>3 DEF IInv, StatusMatches, PlaceKind
<1>5. post[t] # 0
  BY <1>2, <1>4, ReachedIsStarted DEF IInv
<1>6. \A th \in Thread : ~ InPlace("register", th, t)
  BY <1>1, <1>2, <1>3 DEF IInv, OnePlace, PlaceKind, Holder
<1>7. \A k \in 1..Len(access[t]) : Listed(t, k)
  BY <1>5, <1>6 DEF Listed
<1> QED
  BY <1>2, <1>4, <1>5, <1>7

\* The search begins before the entry of the task.
LEMMA LockUsersIs ==
  ASSUME IInv, NEW w \in Worker, LockUsers(w)
  PROVE  LET t == job[w].cur
             k == job[w].k
             r == ResourceOf(t, k)
         IN  /\ job[w].pc = "init" /\ stack[w] = <<>> /\ t \in Task
             /\ k \in 1..Len(access[t]) /\ r \in Resource /\ users_mutex[r] = NoThread
             /\ users_mutex' = [users_mutex EXCEPT ![r] = w]
             /\ \E n \in DOMAIN users[r] : /\ users[r][n] = <<t, k>> /\ n - 1 \in Nat
                                           /\ Sets(w, "scan", t, job[w].new, k, n - 1)
<1> DEFINE t == job[w].cur
           k == job[w].k
           r == ResourceOf(t, k)
           n == EntryOf(r, t, k)
<1>1. w \in Thread /\ job \in [Thread -> Job] /\ w # Main
  BY Constants DEF IInv, Types
<1>2. job[w].pc = "init" /\ stack[w] = <<>> /\ k > 0 /\ users_mutex[r] = NoThread
  BY DEF LockUsers, At
<1>3. /\ t \in Task /\ life[t] # "unborn" /\ k \in Nat /\ k <= Len(access[t])
      /\ \A j \in 1..Len(access[t]) : Listed(t, j)
  BY <1>2, ListedBefore DEF InitPcs
<1>4. k \in 1..Len(access[t]) /\ r \in Resource
  BY <1>2, <1>3, AccessIs DEF IInv
<1>5. \E m \in DOMAIN users[r] : users[r][m] = <<t, k>>
  BY <1>3, <1>4 DEF IInv, Entered
<1>6. n \in DOMAIN users[r] /\ users[r][n] = <<t, k>>
  BY Zenon, <1>5 DEF EntryOf
<1>7. n - 1 \in Nat
  <2>1. users[r] \in Seq(Task \X Nat)
    BY <1>4 DEF IInv, Types
  <2> QED
    BY <1>6, <2>1
<1>8. Sets(w, "scan", t, job[w].new, k, n - 1)
  <2>1. job' = [job EXCEPT ![w].pc = "scan", ![w].it = n - 1]
    BY DEF LockUsers
  <2> HIDE DEF n
  <2> QED
    BY ZenonT(60), <1>1, <1>7, <2>1 DEF Sets, Job, Pcs
<1> HIDE DEF n
<1> QED
  BY Zenon, <1>2, <1>3, <1>4, <1>6, <1>7, <1>8 DEF LockUsers

\* The entries of a users list.
LEMMA EntryIs ==
  ASSUME Types, NEW r \in Resource
  PROVE  /\ Len(users[r]) \in Nat /\ DOMAIN users[r] = 1..Len(users[r])
         /\ \A n \in DOMAIN users[r] : /\ n \in Nat /\ users[r][n][1] \in Task /\ users[r][n][2] \in Nat
                                       /\ users[r][n] = <<users[r][n][1], users[r][n][2]>>
<1>1. users[r] \in Seq(Task \X Nat)
  BY DEF Types
<1>2. \A e \in Task \X Nat : e[1] \in Task /\ e[2] \in Nat /\ e = <<e[1], e[2]>>
  OBVIOUS
<1>3. \A n \in DOMAIN users[r] : users[r][n] \in Task \X Nat /\ n \in Nat
  BY <1>1
<1> QED
  BY <1>1, <1>2, <1>3

\* The predecessor under consideration came before the task, if it is of the
\* same space, and is still listed.
LEMMA PredecessorIs ==
  ASSUME IInv, NEW w \in Worker, job[w].pc \in {"scan", "link", "up"}
  PROVE  LET t == job[w].cur
             r == ResourceOf(t, job[w].k)
             q == Predecessor(w)
             it == job[w].it
         IN  /\ t \in Task /\ job[w].k \in 1..Len(access[t]) /\ r \in Resource /\ users_mutex[r] = w
             /\ it \in Nat
             /\ it > 0 => /\ it \in DOMAIN users[r] /\ q \in Task /\ life[q] # "unborn"
                          /\ users[r][it] = <<q, users[r][it][2]>>
                          /\ Listed(q, users[r][it][2])
                          /\ parent[q] = parent[t] => q <= t
<1> DEFINE t == job[w].cur
           r == ResourceOf(t, job[w].k)
           q == Predecessor(w)
           it == job[w].it
<1>1. /\ t \in Task /\ job[w].k \in Nat /\ job[w].k <= Len(access[t]) /\ it \in Nat
  BY ListedBefore DEF InitPcs
<1>2. job[w].k > 0 /\ users_mutex[r] = w
      /\ \E n \in DOMAIN users[r] : it < n /\ users[r][n] = <<t, job[w].k>>
  BY DEF IInv, ThreadsMatch, Searches
<1>3. job[w].k \in 1..Len(access[t]) /\ r \in Resource
  BY <1>1, <1>2, AccessIs DEF IInv
<1>4. PICK n \in DOMAIN users[r] : it < n /\ users[r][n] = <<t, job[w].k>>
  BY <1>2
<1>5. /\ Len(users[r]) \in Nat /\ DOMAIN users[r] = 1..Len(users[r])
      /\ \A m \in DOMAIN users[r] : m \in Nat /\ users[r][m][1] \in Task
                                    /\ users[r][m] = <<users[r][m][1], users[r][m][2]>>
  BY <1>3, EntryIs DEF IInv
<1>6. ASSUME it > 0
      PROVE  /\ it \in DOMAIN users[r] /\ q \in Task /\ life[q] # "unborn"
             /\ users[r][it] = <<q, users[r][it][2]>>
             /\ Listed(q, users[r][it][2])
             /\ parent[q] = parent[t] => q <= t
  <2>1. it \in DOMAIN users[r]
    BY SMTT(60), <1>1, <1>4, <1>5, <1>6
  <2>2. q = users[r][it][1]
    BY DEF Predecessor
  <2>3. q \in Task /\ users[r][it] = <<q, users[r][it][2]>>
    BY <1>5, <2>1, <2>2
  <2>4. life[q] # "unborn" /\ Listed(q, users[r][it][2])
    BY <1>3, <2>1, <2>2 DEF IInv, EntriesMatch
  <2>5. parent[q] = parent[t] => q <= t
    <3>1. users[r][n][1] = t
      BY <1>4
    <3>2. parent[q] = parent[t] => Precedes(users[r][it], users[r][n])
      BY <1>3, <1>4, <2>1, <2>2, <3>1 DEF IInv, UsersOrdered
    <3> QED
      BY <1>1, <2>2, <2>3, <3>1, <3>2, Constants DEF Precedes
  <2> QED
    BY Zenon, <2>1, <2>3, <2>4, <2>5
<1> QED
  BY <1>1, <1>2, <1>3, <1>6

\* The search goes on to the previous entry or to the next resource.
Advances(w) ==
  \/ /\ job[w].it > 0 /\ UNCHANGED users_mutex
     /\ Sets(w, "scan", job[w].cur, job[w].new, job[w].k, job[w].it - 1)
  \/ /\ users_mutex' = [users_mutex EXCEPT ![ResourceOf(job[w].cur, job[w].k)] = NoThread]
     /\ Sets(w, "init", job[w].cur, job[w].new, job[w].k - 1, 0)

\* NextEntry and NextResource, as Advances.
LEMMA AdvancesIs ==
  ASSUME IInv, NEW w \in Worker, job[w].pc \in {"scan", "up"},
         (job[w].it > 0 /\ NextEntry(w)) \/ NextResource(w)
  PROVE  Advances(w)
<1>1. w \in Thread /\ job \in [Thread -> Job] /\ job[w].it \in Nat /\ job[w].k \in Nat /\ job[w].k > 0
  <2>1. w \in Thread /\ job \in [Thread -> Job]
    BY Constants DEF IInv, Types
  <2>2. job[w].it \in Nat /\ job[w].k \in Nat
    BY ListedBefore DEF InitPcs
  <2>3. job[w].k > 0
    BY DEF IInv, ThreadsMatch, Searches
  <2> QED
    BY <2>1, <2>2, <2>3
<1>2. CASE job[w].it > 0 /\ NextEntry(w)
  <2>1. job' = [job EXCEPT ![w].pc = "scan", ![w].it = job[w].it - 1] /\ job[w].it - 1 \in Nat
    BY <1>1, <1>2 DEF NextEntry
  <2>2. Sets(w, "scan", job[w].cur, job[w].new, job[w].k, job[w].it - 1)
    BY <1>1, <2>1 DEF Sets, Job, Pcs
  <2> QED
    BY <1>2, <2>2 DEF NextEntry, Advances
<1>3. CASE NextResource(w)
  <2>1. job' = [job EXCEPT ![w].pc = "init", ![w].k = job[w].k - 1, ![w].it = 0] /\ job[w].k - 1 \in Nat
    BY <1>1, <1>3 DEF NextResource
  <2>2. Sets(w, "init", job[w].cur, job[w].new, job[w].k - 1, 0)
    BY <1>1, <2>1 DEF Sets, Job, Pcs
  <2> QED
    BY <1>3, <2>2 DEF NextResource, Advances
<1> QED
  BY <1>2, <1>3

\* One round of the search.
LEMMA ScanIs ==
  ASSUME IInv, NEW w \in Worker, Scan(w)
  PROVE  /\ job[w].pc = "scan" /\ stack[w] = <<>>
         /\ \/ Advances(w)
            \/ /\ job[w].it > 0 /\ parent[Predecessor(w)] = parent[job[w].cur]
               /\ UNCHANGED users_mutex
               /\ Sets(w, "link", job[w].cur, job[w].new, job[w].k, job[w].it)
<1>1. job[w].pc = "scan" /\ stack[w] = <<>>
  BY DEF Scan, At
<1>2. \/ (job[w].it > 0 /\ NextEntry(w)) \/ NextResource(w)
      \/ /\ job[w].it > 0 /\ parent[Predecessor(w)] = parent[job[w].cur]
         /\ Goto(w, "link") /\ UNCHANGED users_mutex
  BY DEF Scan, AfterDependency
<1>3. ASSUME Goto(w, "link")
      PROVE  Sets(w, "link", job[w].cur, job[w].new, job[w].k, job[w].it)
  <2>1. w \in Thread /\ job \in [Thread -> Job] /\ job' = [job EXCEPT ![w].pc = "link"]
    BY <1>3, Constants DEF IInv, Types, Goto
  <2> QED
    BY <2>1 DEF Sets, Job, Pcs
<1> QED
  BY <1>1, <1>2, <1>3, AdvancesIs

\* The follower is pushed ...
LEMMA LinkIs ==
  ASSUME IInv, NEW w \in Worker, Link(w)
  PROVE  LET t == job[w].cur
             q == Predecessor(w)
         IN  /\ job[w].pc = "link" /\ stack[w] = <<>> /\ t \in Task
             /\ q \in Task /\ q <= t /\ life[q] # "unborn" /\ parent[q] = parent[t] /\ job[w].it > 0
             /\ followers' = [followers EXCEPT ![q] = Append(followers[q], PreOf(t))]
             /\ Sets(w, "up", t, job[w].new, job[w].k, job[w].it)
<1> DEFINE t == job[w].cur
           q == Predecessor(w)
<1>1. job[w].pc = "link" /\ stack[w] = <<>>
  BY DEF Link, At
<1>2. job[w].it > 0 /\ parent[q] = parent[t]
  BY <1>1 DEF IInv, ThreadsMatch, Searches
<1>3. t \in Task /\ q \in Task /\ q <= t /\ life[q] # "unborn"
  BY <1>1, <1>2, PredecessorIs
<1>4. Sets(w, "up", t, job[w].new, job[w].k, job[w].it)
  <2>1. w \in Thread /\ job \in [Thread -> Job] /\ job' = [job EXCEPT ![w].pc = "up"]
    BY Constants DEF IInv, Types, Goto, Link
  <2> QED
    BY <2>1 DEF Sets, Job, Pcs
<1> QED
  BY <1>1, <1>2, <1>3, <1>4 DEF Link

\* ... and counted.
LEMMA CountEdgeIs ==
  ASSUME IInv, NEW w \in Worker, CountEdge(w)
  PROVE  /\ job[w].pc = "up" /\ stack[w] = <<>> /\ job[w].cur \in Task
         /\ pre' = [pre EXCEPT ![job[w].cur] = pre[job[w].cur] + 1]
         /\ Advances(w)
<1>1. job[w].pc = "up" /\ stack[w] = <<>>
  BY DEF CountEdge, At
<1>2. job[w].it > 0
  BY <1>1 DEF IInv, ThreadsMatch, Searches
<1>3. NextEntry(w) \/ NextResource(w)
  BY DEF CountEdge, AfterDependency
<1>4. Advances(w)
  BY <1>1, <1>2, <1>3, AdvancesIs
<1> QED
  BY <1>1, <1>4, PredecessorIs DEF CountEdge

-----------------------------------------------------------------------------
(***************************************************************************)
(* How the pending edges change.                                           *)
(***************************************************************************)

\* Slot x will still notify follower n of q, in a state ...
Toward(x, q, n) == Carries(x, q) /\ StillTo(x, n)

\* ... and the same for a frame that is given.
HeadsTo(f, q, n) ==
  /\ f.task = q
  /\ f.pc \in {"delete", "followers", "activate"} \/ (f.pc = "waker" /\ f.i = 0)
  /\ f.pc = "followers" => n <= f.i
  /\ f.pc = "activate" => n < f.i

TowardSame ==
  \A x \in Slot, q \in Task : \A n \in DOMAIN followers[q] : Toward(x, q, n)' <=> Toward(x, q, n)

\* When the frame of one slot is replaced.
LEMMA TurnToward ==
  ASSUME NEW y \in Slot, NEW h, \A x \in Slot : fr'[x] = IF x = y THEN h ELSE fr[x],
         \A q \in Task : \A n \in DOMAIN followers[q] : HeadsTo(h, q, n) <=> HeadsTo(fr[y], q, n)
  PROVE  TowardSame
<1> SUFFICES ASSUME NEW x \in Slot, NEW q \in Task, NEW n \in DOMAIN followers[q]
             PROVE  Toward(x, q, n)' <=> Toward(x, q, n)
  BY DEF TowardSame
<1>1. Toward(x, q, n)' <=> HeadsTo(fr'[x], q, n)
  BY DEF Toward, Carries, StillTo, HeadsTo
<1>2. Toward(x, q, n) <=> HeadsTo(fr[x], q, n)
  BY DEF Toward, Carries, StillTo, HeadsTo
<1>3. CASE x = y
  BY <1>1, <1>2, <1>3
<1>4. CASE x # y
  <2>1. fr'[x] = fr[x]
    BY <1>4
  <2> QED
    BY <1>1, <1>2, <2>1
<1> QED
  BY <1>3, <1>4

\* A frame that is not about a finished post-event leads to no follower.
LEMMA NoHeading ==
  ASSUME NEW f, f.pc \in {"none", "post", "get", "countdown", "free", "depth"} \/ (f.pc = "waker" /\ f.i # 0),
         NEW q, NEW n
  PROVE  ~ HeadsTo(f, q, n)
BY DEF HeadsTo

\* The steps of a notification that notify no follower lead to the same ones.
LEMMA NotifyToward ==
  ASSUME IInv, NEW th \in Thread,
         \/ NotifyGet(th) \/ ReadWaker(th) \/ DeleteFromResource(th) \/ ActivateTask(th)
         \/ CountDown(th) \/ FreeTask(th) \/ ReadDepth(th)
  PROVE  TowardSame
<1> DEFINE f == top[th]
           y == TopSlot(th)
<1>1. TopSlot(th) \in Slot /\ f = fr[TopSlot(th)]
  BY TopFrame DEF IInv, Types
<1>2. ASSUME NEW h, Turns(th, h),
             \A q \in Task : \A n \in DOMAIN followers[q] : HeadsTo(h, q, n) <=> HeadsTo(f, q, n)
      PROVE  TowardSame
  <2>1. \A x \in Slot : fr'[x] = IF x = TopSlot(th) THEN h ELSE fr[x]
    BY <1>2 DEF Turns
  <2> HIDE DEF f
  <2> QED
    BY <1>1, <1>2, <2>1, TurnToward
<1>3. \A q \in Task : \A n \in DOMAIN followers[q] : n \in Nat /\ n > 0 /\ n <= Len(followers[q])
  <2>1. ASSUME NEW q \in Task, NEW n \in DOMAIN followers[q]
        PROVE  n \in Nat /\ n > 0 /\ n <= Len(followers[q])
    BY FollowerIs DEF IInv
  <2> QED
    BY <2>1
<1>4. CASE NotifyGet(th)
  <2>1. f.pc = "get" /\ Turns(th, AFrame(f.task, "countdown", 0))
    BY <1>4, NotifyGetIs
  <2>2. AFrame(f.task, "countdown", 0).pc = "countdown"
    BY DEF AFrame
  <2> QED
    BY <1>2, <2>1, <2>2, NoHeading
<1>5. CASE ReadWaker(th)
  <2>1. /\ f.pc = "waker" /\ f.task \in Task
        /\ \/ f.i = 1 /\ Turns(th, NoFrame)
           \/ f.i = 0 /\ Turns(th, AFrame(f.task, "delete", Len(access[f.task])))
           \/ f.i = 0 /\ Turns(th, AFrame(f.task, "followers", Len(followers[f.task])))
    BY <1>5, ReadWakerIs
  <2>2. CASE f.i = 1 /\ Turns(th, NoFrame)
    BY <1>2, <2>1, <2>2, NoHeading DEF NoFrame
  <2>3. CASE f.i = 0 /\ Turns(th, AFrame(f.task, "delete", Len(access[f.task])))
    <3>1. \A q \in Task : \A n \in DOMAIN followers[q] :
            HeadsTo(AFrame(f.task, "delete", Len(access[f.task])), q, n) <=> HeadsTo(f, q, n)
      BY <2>1, <2>3 DEF HeadsTo, AFrame
    <3> QED
      BY <1>2, <2>3, <3>1
  <2>4. CASE f.i = 0 /\ Turns(th, AFrame(f.task, "followers", Len(followers[f.task])))
    <3>1. \A q \in Task : \A n \in DOMAIN followers[q] :
            HeadsTo(AFrame(f.task, "followers", Len(followers[f.task])), q, n) <=> HeadsTo(f, q, n)
      BY <1>3, <2>1, <2>4 DEF HeadsTo, AFrame
    <3> QED
      BY <1>2, <2>4, <3>1
  <2> QED
    BY <2>1, <2>2, <2>3, <2>4
<1>6. CASE DeleteFromResource(th)
  <2>1. /\ f.pc = "delete" /\ f.task \in Task /\ f.i \in 1..Len(access[f.task])
        /\ f.i > 1 => Turns(th, AFrame(f.task, "delete", f.i - 1))
        /\ f.i = 1 => Turns(th, AFrame(f.task, "followers", Len(followers[f.task])))
    BY <1>6, DeleteIs
  <2>2. CASE Turns(th, AFrame(f.task, "delete", f.i - 1))
    <3>1. \A q \in Task : \A n \in DOMAIN followers[q] :
            HeadsTo(AFrame(f.task, "delete", f.i - 1), q, n) <=> HeadsTo(f, q, n)
      BY <2>1 DEF HeadsTo, AFrame
    <3> QED
      BY <1>2, <2>2, <3>1
  <2>3. CASE Turns(th, AFrame(f.task, "followers", Len(followers[f.task])))
    <3>1. \A q \in Task : \A n \in DOMAIN followers[q] :
            HeadsTo(AFrame(f.task, "followers", Len(followers[f.task])), q, n) <=> HeadsTo(f, q, n)
      BY <1>3, <2>1 DEF HeadsTo, AFrame
    <3> QED
      BY <1>2, <2>3, <3>1
  <2>4. f.i > 1 \/ f.i = 1
    <3>1. Len(access[f.task]) \in Nat
      BY <2>1, AccessIs DEF IInv
    <3> QED
      BY <2>1, <3>1
  <2> QED
    BY <2>1, <2>2, <2>3, <2>4
<1>7. CASE ActivateTask(th)
  <2>1. f.pc = "activate" /\ f.i \in Nat /\ Turns(th, AFrame(f.task, "followers", f.i - 1))
    BY <1>7, ActivateTaskIs
  <2>2. \A q \in Task : \A n \in DOMAIN followers[q] :
          HeadsTo(AFrame(f.task, "followers", f.i - 1), q, n) <=> HeadsTo(f, q, n)
    BY <1>3, <2>1 DEF HeadsTo, AFrame
  <2> QED
    BY <1>2, <2>1, <2>2
<1>8. CASE CountDown(th)
  <2>1. /\ f.task \in Task /\ (f.pc = "countdown" \/ (f.pc = "followers" /\ f.i = 0))
        /\ Turns(th, AFrame(f.task, "free", 0)) \/ Turns(th, NoFrame)
    BY <1>8, CountDownIs
  <2>2. \A q \in Task : \A n \in DOMAIN followers[q] : ~ HeadsTo(f, q, n)
    BY <1>3, <2>1 DEF HeadsTo
  <2>3. \A q, n : ~ HeadsTo(AFrame(f.task, "free", 0), q, n) /\ ~ HeadsTo(NoFrame, q, n)
    BY DEF HeadsTo, AFrame, NoFrame
  <2> QED
    BY <1>2, <2>1, <2>2, <2>3
<1>9. CASE FreeTask(th)
  <2>1. f.pc = "free" /\ Turns(th, AFrame(f.task, "depth", 0))
    BY <1>9, FreeTaskIs
  <2>2. AFrame(f.task, "depth", 0).pc = "depth"
    BY DEF AFrame
  <2> QED
    BY <1>2, <2>1, <2>2, NoHeading
<1>10. CASE ReadDepth(th)
  <2>1. f.pc = "depth" /\ Turns(th, NoFrame)
    BY <1>10, ReadDepthIs
  <2> QED
    BY <1>2, <2>1, NoHeading DEF NoFrame
<1> QED
  BY <1>4, <1>5, <1>6, <1>7, <1>8, <1>9, <1>10

\* Every edge is pending as before, except perhaps the one from q0 at n0.
OthersPending(q0, n0) ==
  \A q \in Task, n \in Nat : <<q, n>> # <<q0, n0>> =>
    /\ Pending(q, n)' <=> Pending(q, n)
    /\ Pending(q, n) => followers'[q][n] = followers[q][n]

PendingSame ==
  \A q \in Task, n \in Nat :
    /\ Pending(q, n)' <=> Pending(q, n)
    /\ Pending(q, n) => followers'[q][n] = followers[q][n]

PendingAdds(q0, n0, e) ==
  /\ q0 \in Task /\ n0 \in Nat /\ ~ Pending(q0, n0) /\ Pending(q0, n0)' /\ followers'[q0][n0] = e
  /\ OthersPending(q0, n0)

PendingDrops(q0, n0) ==
  /\ q0 \in Task /\ n0 \in Nat /\ Pending(q0, n0) /\ ~ Pending(q0, n0)'
  /\ OthersPending(q0, n0)

\* An action that leaves the stacks alone leads to the same followers.
LEMMA SameToward ==
  ASSUME UNCHANGED stack
  PROVE  TowardSame
<1>1. fr' = fr
  BY SameStack
<1> QED
  BY <1>1 DEF TowardSame, Toward, Carries, StillTo

\* A notification that begins leads to no follower yet.
LEMMA CallToward ==
  ASSUME NEW th \in Thread, NEW t, NEW pc \in {"get", "post"}, Calls(th, t, pc)
  PROVE  TowardSame
<1>1. /\ <<th, 1>> \in Slot /\ fr[<<th, 1>>] = NoFrame
      /\ \A x \in Slot : fr'[x] = IF x = <<th, 1>> THEN AFrame(t, pc, 0) ELSE fr[x]
  BY DEF Calls
<1>2. \A q, n : ~ HeadsTo(AFrame(t, pc, 0), q, n) /\ ~ HeadsTo(NoFrame, q, n)
  BY DEF HeadsTo, AFrame, NoFrame
<1> QED
  BY <1>1, <1>2, TurnToward

\* Pending, by Toward.
LEMMA PendingIs ==
  ASSUME Types, NEW q \in Task, NEW n
  PROVE  Pending(q, n) <=> /\ n \in DOMAIN followers[q]
                           /\ post[q] = 0 => \E x \in Slot : Toward(x, q, n)
BY DEF Pending, Toward

\* Notifications that lead to the same followers of the same events.
LEMMA TowardPending ==
  ASSUME TowardSame, UNCHANGED <<followers, post>>
  PROVE  PendingSame
BY DEF TowardSame, PendingSame, Pending, Toward

\* The state of a post-event is never negative and follows its last edge.
LEMMA NotifyPostPending ==
  ASSUME IInv, NEW th \in Thread, NotifyPost(th)
  PROVE  PendingSame
<1> DEFINE f == top[th]
<1>a. TopSlot(th) \in Slot /\ f = fr[TopSlot(th)] /\ f.task \in Task
  BY TopFrame, NotifyPostIs DEF IInv, Types
<1>b. PICK t \in Task : t = f.task
  BY <1>a
<1>c. PICK y \in Slot : y = TopSlot(th)
  BY <1>a
<1>1. /\ f.pc = "post" /\ t = f.task /\ post[t] \in Nat /\ post[t] >= 1
      /\ post' = [post EXCEPT ![t] = post[t] - 1]
      /\ post[t] > 2 => Turns(th, NoFrame)
      /\ ~ (post[t] > 2) => Turns(th, AFrame(t, "waker", post[t] - 1))
  BY <1>b, NotifyPostIs
<1>2. f = fr[y] /\ followers' = followers
  BY <1>a, <1>c DEF NotifyPost, objVars
<1>3. \A u \in Task : u # t => post'[u] = post[u]
  BY <1>1 DEF IInv, Types
<1>4. post'[t] = post[t] - 1
  BY <1>1 DEF IInv, Types
<1>5. \A q, n : ~ HeadsTo(f, q, n)
  BY <1>1 DEF HeadsTo
<1>6. CASE post[t] = 1
  <2> DEFINE h == AFrame(t, "waker", 0)
  <2>1. \A x \in Slot : fr'[x] = IF x = y THEN h ELSE fr[x]
    BY <1>1, <1>6, <1>c DEF Turns
  <2>2. \A x \in Slot : \A q, n : x # y => (Toward(x, q, n)' <=> Toward(x, q, n))
    <3> SUFFICES ASSUME NEW x \in Slot, NEW q, NEW n, x # y
                 PROVE  Toward(x, q, n)' <=> Toward(x, q, n)
      OBVIOUS
    <3>1. fr'[x] = fr[x]
      BY <2>1
    <3> QED
      BY <3>1 DEF Toward, Carries, StillTo
  <2>3. \A q, n : Toward(y, q, n)' <=> q = t
    <3>1. fr'[y] = h
      BY <1>2, <2>1
    <3> QED
      BY <3>1 DEF Toward, Carries, StillTo, AFrame
  <2>4. \A q, n : ~ Toward(y, q, n)
    BY <1>1, <1>2 DEF Toward, Carries, StillTo
  <2> SUFFICES ASSUME NEW q \in Task, NEW n \in Nat PROVE Pending(q, n)' <=> Pending(q, n)
    BY <1>2 DEF PendingSame
  <2>5. CASE q = t
    <3>1. Toward(y, q, n)'
      BY <2>3, <2>5
    <3> QED
      BY <1>2, <1>4, <1>6, <2>5, <3>1 DEF Pending, Toward
  <2>6. CASE q # t
    BY <1>2, <1>3, <2>2, <2>3, <2>4, <2>6 DEF Pending, Toward
  <2> QED
    BY <2>5, <2>6
<1>7. CASE post[t] # 1
  <2>1. TowardSame
    <3>1. CASE post[t] > 2
      <4>1. \A x \in Slot : fr'[x] = IF x = y THEN NoFrame ELSE fr[x]
        BY <1>1, <1>c, <3>1 DEF Turns
      <4>2. \A q, n : ~ HeadsTo(NoFrame, q, n)
        BY DEF HeadsTo, NoFrame
      <4> QED
        BY <1>2, <1>5, <4>1, <4>2, TurnToward
    <3>2. CASE ~ (post[t] > 2)
      <4>1. \A x \in Slot : fr'[x] = IF x = y THEN AFrame(t, "waker", 1) ELSE fr[x]
        <5>1. post[t] - 1 = 1
          BY <1>1, <1>7, <3>2
        <5> QED
          BY <1>1, <1>c, <3>2, <5>1 DEF Turns
      <4>2. \A q, n : ~ HeadsTo(AFrame(t, "waker", 1), q, n)
        BY DEF HeadsTo, AFrame
      <4> QED
        BY <1>2, <1>5, <4>1, <4>2, TurnToward
    <3> QED
      BY <3>1, <3>2
  <2>2. post[t] # 0 /\ post'[t] # 0
    BY <1>1, <1>4, <1>7
  <2> SUFFICES ASSUME NEW q \in Task, NEW n \in Nat PROVE Pending(q, n)' <=> Pending(q, n)
    BY <1>2 DEF PendingSame
  <2>3. CASE q = t
    BY <1>2, <2>2, <2>3 DEF Pending
  <2>4. CASE q # t
    BY <1>2, <1>3, <2>1, <2>4 DEF Pending, Toward, TowardSame
  <2> QED
    BY <2>3, <2>4
<1> QED
  BY <1>6, <1>7

\* notify_followers takes away the edge it notifies, and no other.
LEMMA NotifyFollowerPending ==
  ASSUME IInv, NEW th \in Thread, NotifyFollower(th),
         NEW t, t = top[th].task, NEW i, i = top[th].i
  PROVE  PendingDrops(t, i)
<1> DEFINE f == top[th]
<1>1. /\ f.pc = "followers" /\ t \in Task /\ i \in Nat /\ i \in DOMAIN followers[t]
      /\ \/ Turns(th, AFrame(t, "activate", i)) \/ Turns(th, AFrame(t, "followers", i - 1))
         \/ \E u \in Task : Nests(th, u)
  BY Zenon, NotifyFollowerIs
<1>a. TopSlot(th) \in Slot /\ f = fr[TopSlot(th)]
  BY TopFrame DEF IInv, Types
<1>b. PICK y \in Slot : y = TopSlot(th)
  BY <1>a
<1>2. f = fr[y] /\ followers' = followers /\ post' = post
  BY Zenon, <1>a, <1>b DEF NotifyFollower, objVars
<1>3. \A q \in Task, n \in Nat : Toward(y, q, n) <=> q = t /\ n <= i
  BY <1>1, <1>2 DEF Toward, Carries, StillTo
<1>4. \A q \in Task, n \in Nat : Toward(y, q, n)' <=> q = t /\ n < i
  <2> SUFFICES ASSUME NEW q \in Task, NEW n \in Nat
               PROVE  Toward(y, q, n)' <=> q = t /\ n < i
    OBVIOUS
  <2>1. CASE Turns(th, AFrame(t, "activate", i))
    <3>1. fr'[y] = AFrame(t, "activate", i)
      BY <1>2, <1>b, <2>1 DEF Turns
    <3> QED
      BY <3>1 DEF Toward, Carries, StillTo, AFrame
  <2>2. CASE fr'[y] = AFrame(t, "followers", i - 1)
    <3>1. Toward(y, q, n)' <=> q = t /\ n <= i - 1
      BY <2>2 DEF Toward, Carries, StillTo, AFrame
    <3> QED
      BY <1>1, <3>1
  <2>3. CASE Turns(th, AFrame(t, "followers", i - 1))
    BY <1>2, <1>b, <2>2, <2>3 DEF Turns
  <2>4. ASSUME NEW u \in Task, Nests(th, u) PROVE fr'[y] = AFrame(t, "followers", i - 1)
    BY <1>2, <1>b, <2>4 DEF Nests
  <2> QED
    BY <1>1, <2>1, <2>2, <2>3, <2>4
<1>5. \A x \in Slot : \A q, n : x # y => (Toward(x, q, n)' <=> Toward(x, q, n))
  <2> SUFFICES ASSUME NEW x \in Slot, NEW q, NEW n, x # y
               PROVE  Toward(x, q, n)' <=> Toward(x, q, n)
    OBVIOUS
  <2>1. CASE fr'[x] = fr[x]
    BY <2>1 DEF Toward, Carries, StillTo
  <2>2. ASSUME NEW h, Turns(th, h) PROVE fr'[x] = fr[x]
    BY <1>b, <2>2 DEF Turns
  <2>3. ASSUME NEW u \in Task, Nests(th, u) PROVE Toward(x, q, n)' <=> Toward(x, q, n)
    <3>1. CASE x = <<th, Len(stack[th]) + 1>>
      <4>1. fr[x] = NoFrame /\ fr'[x] = AFrame(u, "post", 0)
        BY <1>b, <2>3, <3>1 DEF Nests
      <4> QED
        BY <4>1 DEF Toward, Carries, AFrame, NoFrame
    <3>2. CASE x # <<th, Len(stack[th]) + 1>>
      BY <1>b, <2>1, <2>3, <3>2 DEF Nests
    <3> QED
      BY <3>1, <3>2
  <2> QED
    BY <1>1, <2>1, <2>2, <2>3
<1>6. \A x \in Slot : Carries(x, t) => x = y
  <2>1. Carries(y, t)
    BY <1>1, <1>2 DEF Carries
  <2> QED
    BY <1>1, <1>2, <2>1 DEF IInv, CarriedOnce
<1>7. post[t] = 0
  <2>1. Carries(y, t)
    BY <1>1, <1>2 DEF Carries
  <2> QED
    BY <1>1, <1>2, <2>1 DEF IInv, CarriedOnce
<1> HIDE DEF f
<1>8. \A q \in Task, n \in Nat : q # t => (Pending(q, n)' <=> Pending(q, n))
  BY <1>2, <1>3, <1>4, <1>5 DEF Pending, Toward
<1>9. \A n \in Nat : Pending(t, n) <=> n \in DOMAIN followers[t] /\ n <= i
  BY <1>1, <1>2, <1>3, <1>6, <1>7 DEF Pending, Toward
<1>10. \A n \in Nat : Pending(t, n)' <=> n \in DOMAIN followers[t] /\ n < i
  <2>1. \A x \in Slot, n \in Nat : Toward(x, t, n)' => x = y
    BY <1>5, <1>6 DEF Toward
  <2> QED
    BY <1>1, <1>2, <1>4, <1>7, <2>1 DEF Pending, Toward
<1>11. Pending(t, i) /\ ~ Pending(t, i)'
  BY <1>1, <1>9, <1>10
<1>12. \A n \in Nat : n # i => (Pending(t, n)' <=> Pending(t, n))
  BY <1>1, <1>9, <1>10
<1>13. OthersPending(t, i)
  BY <1>2, <1>8, <1>12 DEF OthersPending
<1> QED
  BY <1>1, <1>11, <1>13 DEF PendingDrops

\* A new child has one edge, to the post-event of its parent.
LEMMA CreateTaskPending ==
  ASSUME IInv, NEW th \in Thread, NEW t \in Task, NEW a \in AccessSeq, CreateTask(th, t, a),
         NEW p, p = job[th].cur
  PROVE  /\ p = Root => PendingSame
         /\ p # Root => PendingAdds(t, 1, PostOf(p))
<1>1. /\ InProgram(th) /\ life[t] = "unborn" /\ followers[t] = <<>>
      /\ p = Root => followers' = followers /\ post' = post
      /\ p # Root => /\ followers' = [followers EXCEPT ![t] = <<PostOf(p)>>]
                     /\ post' = [post EXCEPT ![p] = post[p] + 1]
  BY CreateTaskIs
<1>2. TowardSame
  BY SameToward DEF CreateTask
<1>3. ASSUME p = Root PROVE PendingSame
  BY <1>1, <1>2, <1>3, TowardPending
<1>4. ASSUME p # Root PROVE PendingAdds(t, 1, PostOf(p))
  <2>1. p \in Task /\ th \in Worker /\ job[th].pc = "body" /\ th \in Holder
    BY <1>1, <1>4, InProgramIs, Constants DEF Holder
  <2>2. Running(p) /\ InPlace("cur", th, p)
    BY <2>1 DEF Running, InPlace
  <2>3. p # t
    BY <1>1, <2>1, <2>2 DEF IInv, StatusMatches, PlaceKind
  <2>4. post[p] \in Nat /\ post[p] >= 1 /\ post[t] # 0
    <3>1. t \notin started
      BY <1>1 DEF IInv, StatusMatches
    <3>2. post[p] \in Nat /\ post[p] >= 1 /\ post[t] >= 1
      BY <2>1, <2>2, <3>1, PostPositive DEF IInv
    <3> QED
      BY <3>2
  <2>5. /\ \A q \in Task : q # t => followers'[q] = followers[q]
        /\ followers'[t] = <<PostOf(p)>>
        /\ \A q \in Task : q # p => post'[q] = post[q]
        /\ post'[p] # 0 /\ post[p] # 0
    <3>1. followers' = [followers EXCEPT ![t] = <<PostOf(p)>>] /\ post' = [post EXCEPT ![p] = post[p] + 1]
      BY <1>1, <1>4
    <3>2. /\ \A q \in Task : q # t => followers'[q] = followers[q]
          /\ followers'[t] = <<PostOf(p)>>
      BY <3>1 DEF IInv, Types
    <3>3. (\A q \in Task : q # p => post'[q] = post[q]) /\ post'[p] = post[p] + 1
      BY <2>1, <3>1 DEF IInv, Types
    <3> QED
      BY <2>4, <3>2, <3>3
  <2>6. \A q \in Task, n \in Nat : q # t => (Pending(q, n)' <=> Pending(q, n))
    <3> SUFFICES ASSUME NEW q \in Task, NEW n \in Nat, q # t PROVE Pending(q, n)' <=> Pending(q, n)
      OBVIOUS
    <3>1. CASE q = p
      BY <2>5, <3>1 DEF Pending
    <3>2. CASE q # p
      BY <1>2, <2>5, <3>2 DEF Pending, Toward, TowardSame
    <3> QED
      BY <3>1, <3>2
  <2>7. \A n : ~ Pending(t, n)
    BY <1>1 DEF Pending
  <2>8. \A n : Pending(t, n)' <=> n = 1
    <3>1. DOMAIN <<PostOf(p)>> = {1}
      OBVIOUS
    <3>2. post'[t] # 0
      BY <2>3, <2>4, <2>5
    <3> QED
      BY <2>5, <3>1, <3>2 DEF Pending
  <2>9. followers'[t][1] = PostOf(p)
    BY <2>5
  <2>10. OthersPending(t, 1)
    <3> SUFFICES ASSUME NEW q \in Task, NEW n \in Nat, <<q, n>> # <<t, 1>>
                 PROVE  /\ Pending(q, n)' <=> Pending(q, n)
                        /\ Pending(q, n) => followers'[q][n] = followers[q][n]
      BY DEF OthersPending
    <3>1. CASE q = t
      BY <2>7, <2>8, <3>1
    <3>2. CASE q # t
      BY <2>5, <2>6, <3>2
    <3> QED
      BY <3>1, <3>2
  <2> QED
    BY <2>7, <2>8, <2>9, <2>10 DEF PendingAdds
<1> QED
  BY <1>3, <1>4

\* A follower is pushed to a task that is still listed, so it will be notified.
LEMMA LinkPending ==
  ASSUME IInv, NEW w \in Worker, Link(w), NEW q, q = Predecessor(w), NEW t, t = job[w].cur,
         NEW n, n = Len(followers[q]) + 1
  PROVE  PendingAdds(q, n, PreOf(t))
<1>1. /\ job[w].pc = "link" /\ q \in Task /\ job[w].it > 0
      /\ followers' = [followers EXCEPT ![q] = Append(followers[q], PreOf(t))]
  BY LinkIs
<1>2. TowardSame /\ post' = post
  BY SameToward DEF Link
<1>3. Len(followers[q]) \in Nat /\ DOMAIN followers[q] = 1..Len(followers[q]) /\ n \in Nat
      /\ n \notin DOMAIN followers[q]
  <2>1. Len(followers[q]) \in Nat /\ DOMAIN followers[q] = 1..Len(followers[q])
    BY <1>1, FollowerIs DEF IInv
  <2> QED
    BY <2>1
<1>4. /\ \A u \in Task : u # q => followers'[u] = followers[u]
      /\ followers'[q] = Append(followers[q], PreOf(t))
  BY <1>1 DEF IInv, Types
<1>5. /\ DOMAIN Append(followers[q], PreOf(t)) = DOMAIN followers[q] \union {n}
      /\ Append(followers[q], PreOf(t))[n] = PreOf(t)
      /\ \A m \in DOMAIN followers[q] : Append(followers[q], PreOf(t))[m] = followers[q][m]
  <2>1. followers[q] \in Seq([task : Task, event : {"pre", "post"}])
    BY <1>1 DEF IInv, Types
  <2>2. DOMAIN Append(followers[q], PreOf(t)) = 1..(Len(followers[q]) + 1)
    BY <2>1
  <2>3. 1..(Len(followers[q]) + 1) = (1..Len(followers[q])) \union {n}
    BY <1>3
  <2>4. Append(followers[q], PreOf(t))[n] = PreOf(t)
    BY <2>1
  <2>5. \A m \in 1..Len(followers[q]) : Append(followers[q], PreOf(t))[m] = followers[q][m]
    BY <2>1
  <2> QED
    BY <1>3, <2>2, <2>3, <2>4, <2>5
<1>6. post[q] = 0 => \E x \in Slot : /\ Carries(x, q) /\ fr[x].pc \in {"waker", "delete"}
                                     /\ Carries(x, q)' /\ fr'[x].pc \in {"waker", "delete"}
  <2>1. post[q] = 0 => \E x \in Slot : Carries(x, q) /\ fr[x].pc \in {"waker", "delete"}
    <3>1. \E k : Listed(q, k)
      BY <1>1, PredecessorIs
    <3> QED
      BY <3>1 DEF Listed
  <2>2. fr' = fr
    BY SameStack DEF Link
  <2> QED
    BY <2>1, <2>2 DEF Carries
<1>7. Pending(q, n)'
  <2>1. post'[q] = 0 => \E x \in Slot : Carries(x, q)' /\ StillTo(x, n)'
    BY <1>2, <1>6 DEF StillTo
  <2>2. n \in DOMAIN followers'[q]
    BY <1>4, <1>5
  <2> QED
    BY <2>1, <2>2 DEF Pending
<1>8. ~ Pending(q, n) /\ followers'[q][n] = PreOf(t)
  BY <1>3, <1>4, <1>5 DEF Pending
<1>9. ASSUME NEW u \in Task, NEW m \in Nat, <<u, m>> # <<q, n>>
      PROVE  /\ Pending(u, m)' <=> Pending(u, m)
             /\ Pending(u, m) => followers'[u][m] = followers[u][m]
  <2>1. m \in DOMAIN followers'[u] <=> m \in DOMAIN followers[u]
    BY <1>4, <1>5, <1>9
  <2>2. m \in DOMAIN followers[u] => followers'[u][m] = followers[u][m]
    BY <1>4, <1>5
  <2> QED
    BY <1>2, <2>1, <2>2 DEF Pending, Toward, TowardSame
<1>10. OthersPending(q, n)
  BY <1>9 DEF OthersPending
<1> QED
  BY <1>1, <1>3, <1>7, <1>8, <1>10 DEF PendingAdds

\* The steps of thread th that keep the edges as they are ...
KeepsEdges(th) ==
  \/ Register(th) \/ EmplaceTask(th)
  \/ \E t \in Task : DropFuture(th, t)
  \/ th = Main /\ EndGet
  \/ th = Main /\ ((\E t \in Task : BeginGet(t)) \/ BeginBarrier \/ EndBarrier)
  \/ th \in Worker /\ \E t \in Task : PopNew(th, t)
  \/ th \in Worker /\ \E t \in Task : PopReady(th, t)
  \/ th \in Worker /\ LockUsers(th)
  \/ th \in Worker /\ Scan(th)
  \/ th \in Worker /\ CountEdge(th)
  \/ th \in Worker /\ EndInit(th)
  \/ th \in Worker /\ Execute(th)
  \/ th \in Worker /\ EndBody(th)
  \/ NotifyPost(th) \/ NotifyGet(th) \/ ReadWaker(th) \/ DeleteFromResource(th)
  \/ ActivateTask(th) \/ CountDown(th) \/ FreeTask(th) \/ ReadDepth(th)

\* ... and the others: a child, a dependency, a follower that is notified.
Step(th) ==
  \/ \E t \in Task, a \in AccessSeq : CreateTask(th, t, a)
  \/ th \in Worker /\ Link(th)
  \/ NotifyFollower(th)
  \/ KeepsEdges(th)

\* Every step is one of a thread, or changes nothing.
LEMMA NextIsStep ==
  ASSUME Next
  PROVE  (\E th \in Thread : Step(th)) \/ UNCHANGED vars
<1>1. Main \in Thread /\ \A w \in Worker : w \in Thread
  BY Constants
<1>2. ASSUME MainStep PROVE Step(Main)
  BY <1>2 DEF MainStep, Program, Notify, Step, KeepsEdges
<1>3. ASSUME NEW w \in Worker, WorkerStep(w) PROVE Step(w)
  BY <1>3 DEF WorkerStep, Program, Notify, Step, KeepsEdges
<1>4. ASSUME Terminated PROVE UNCHANGED vars
  BY <1>4 DEF Terminated
<1> QED
  BY <1>1, <1>2, <1>3, <1>4 DEF Next

\* They do.
LEMMA KeepsEdgesIs ==
  ASSUME IInv, NEW th \in Thread, KeepsEdges(th)
  PROVE  PendingSame
<1>1. ASSUME UNCHANGED <<stack, followers, post>> PROVE PendingSame
  BY <1>1, SameToward, TowardPending
<1>2. CASE Register(th) \/ EmplaceTask(th)
  BY Zenon, <1>1, <1>2 DEF Register, EmplaceTask, objVars
<1>3. ASSUME NEW t \in Task, DropFuture(th, t) PROVE PendingSame
  <2>1. Calls(th, t, "get") /\ UNCHANGED <<followers, post>>
    BY <1>3, DropFutureIs DEF DropFuture
  <2> QED
    BY <2>1, CallToward, TowardPending
<1>4. CASE th = Main /\ EndGet
  <2>1. Calls(Main, job[Main].new, "get") /\ UNCHANGED <<followers, post>>
    BY <1>4, EndGetIs DEF EndGet
  <2> QED
    BY <1>4, <2>1, CallToward, TowardPending
<1>5. CASE th = Main /\ ((\E t \in Task : BeginGet(t)) \/ BeginBarrier \/ EndBarrier)
  BY <1>1, <1>5, MainWaitsIs DEF MainWaits, objVars
<1>6. CASE \/ LockUsers(th) \/ Scan(th) \/ CountEdge(th) \/ EndInit(th) \/ Execute(th)
           \/ \E t \in Task : PopNew(th, t) \/ PopReady(th, t)
  <2>1. UNCHANGED <<stack, followers, post>>
    BY Zenon, <1>6 DEF LockUsers, Scan, CountEdge, EndInit, Execute, PopNew, PopReady, objVars
  <2> QED
    BY <1>1, <2>1
<1>7. CASE th \in Worker /\ EndBody(th)
  <2>1. Calls(th, job[th].cur, "post") /\ UNCHANGED <<followers, post>>
    BY <1>7, EndBodyIs DEF EndBody, objVars
  <2> QED
    BY <2>1, CallToward, TowardPending
<1>8. CASE NotifyPost(th)
  BY <1>8, NotifyPostPending
<1>9. CASE \/ NotifyGet(th) \/ ReadWaker(th) \/ DeleteFromResource(th) \/ ActivateTask(th)
            \/ CountDown(th) \/ FreeTask(th) \/ ReadDepth(th)
  <2>1. UNCHANGED <<followers, post>>
    BY <1>9 DEF NotifyGet, ReadWaker, DeleteFromResource, ActivateTask, CountDown, FreeTask,
                 ReadDepth, objVars
  <2>2. TowardSame
    BY <1>9, NotifyToward
  <2> QED
    BY <2>1, <2>2, TowardPending
<1> QED
  BY <1>2, <1>3, <1>4, <1>5, <1>6, <1>7, <1>8, <1>9 DEF KeepsEdges

\* What that means for the edges into one event.
LEMMA EdgesSame ==
  ASSUME PendingSame, NEW e
  PROVE  Edges(e)' = Edges(e)
BY DEF PendingSame, Edges

\* The edge from q at n is a new one into e.
LEMMA EdgesAdd ==
  ASSUME NEW q, NEW n, NEW e, PendingAdds(q, n, e)
  PROVE  /\ <<q, n>> \notin Edges(e) /\ Edges(e)' = Edges(e) \union {<<q, n>>}
         /\ \A d : d # e => Edges(d)' = Edges(d)
<1>1. /\ q \in Task /\ n \in Nat /\ ~ Pending(q, n) /\ Pending(q, n)' /\ followers'[q][n] = e
  BY DEF PendingAdds
<1>2. <<q, n>> \notin Edges(e)
  BY <1>1 DEF Edges
<1>3. ASSUME NEW d, NEW y \in Task \X Nat, y # <<q, n>>
      PROVE  y \in Edges(d)' <=> y \in Edges(d)
  <2>1. y = <<y[1], y[2]>> /\ y[1] \in Task /\ y[2] \in Nat
    OBVIOUS
  <2>2. /\ Pending(y[1], y[2])' <=> Pending(y[1], y[2])
        /\ Pending(y[1], y[2]) => followers'[y[1]][y[2]] = followers[y[1]][y[2]]
    BY <1>3, <2>1 DEF PendingAdds, OthersPending
  <2> QED
    BY <2>2 DEF Edges
<1>4. ASSUME NEW d PROVE <<q, n>> \in Edges(d)' <=> d = e
  BY <1>1 DEF Edges
<1>5. ASSUME NEW d PROVE <<q, n>> \notin Edges(d)
  BY <1>1 DEF Edges
<1>6. \A d : Edges(d)' \subseteq Task \X Nat /\ Edges(d) \subseteq Task \X Nat
  BY DEF Edges
<1>7. Edges(e)' = Edges(e) \union {<<q, n>>}
  BY <1>1, <1>3, <1>4, <1>6
<1>8. ASSUME NEW d, d # e PROVE Edges(d)' = Edges(d)
  BY <1>3, <1>4, <1>5, <1>6, <1>8
<1> QED
  BY <1>2, <1>7, <1>8

\* The edge from q at n into e is gone.
LEMMA EdgesDrop ==
  ASSUME NEW q, NEW n, NEW e, PendingDrops(q, n), e = followers[q][n]
  PROVE  /\ <<q, n>> \in Edges(e) /\ Edges(e)' = Edges(e) \ {<<q, n>>}
         /\ \A d : d # e => Edges(d)' = Edges(d)
<1>1. /\ q \in Task /\ n \in Nat /\ Pending(q, n) /\ ~ Pending(q, n)'
  BY DEF PendingDrops
<1>2. <<q, n>> \in Edges(e)
  BY <1>1 DEF Edges
<1>3. ASSUME NEW d, NEW y \in Task \X Nat, y # <<q, n>>
      PROVE  y \in Edges(d)' <=> y \in Edges(d)
  <2>1. y = <<y[1], y[2]>> /\ y[1] \in Task /\ y[2] \in Nat
    OBVIOUS
  <2>2. /\ Pending(y[1], y[2])' <=> Pending(y[1], y[2])
        /\ Pending(y[1], y[2]) => followers'[y[1]][y[2]] = followers[y[1]][y[2]]
    BY <1>3, <2>1 DEF PendingDrops, OthersPending
  <2> QED
    BY <2>2 DEF Edges
<1>4. ASSUME NEW d PROVE <<q, n>> \notin Edges(d)'
  BY <1>1 DEF Edges
<1>5. ASSUME NEW d, d # e PROVE <<q, n>> \notin Edges(d)
  BY <1>1, <1>5 DEF Edges
<1>6. \A d : Edges(d)' \subseteq Task \X Nat /\ Edges(d) \subseteq Task \X Nat
  BY DEF Edges
<1>7. Edges(e)' = Edges(e) \ {<<q, n>>}
  BY <1>1, <1>3, <1>4, <1>6
<1>8. ASSUME NEW d, d # e PROVE Edges(d)' = Edges(d)
  BY <1>3, <1>4, <1>5, <1>6, <1>8
<1> QED
  BY <1>2, <1>7, <1>8

-----------------------------------------------------------------------------
(***************************************************************************)
(* Which steps change what.                                                *)
(***************************************************************************)
Creates(th) == \E t \in Task, a \in AccessSeq : CreateTask(th, t, a)

\* The variables that only a few steps touch.
Spares(th) ==
  /\ ~ Creates(th) => UNCHANGED <<parent, access>>
  /\ ~ Creates(th) /\ ~ FreeTask(th) => UNCHANGED life
  /\ ~ Creates(th) /\ ~ (th \in Worker /\ Link(th)) => UNCHANGED followers
  /\ ~ Register(th) /\ ~ DeleteFromResource(th) => UNCHANGED users
  /\ ~ (th \in Worker /\ (LockUsers(th) \/ Scan(th) \/ CountEdge(th))) => UNCHANGED users_mutex
  /\ ~ EmplaceTask(th) /\ ~ (\E t \in Task : DropFuture(th, t)) /\ ~ (th = Main /\ EndGet) =>
       UNCHANGED future
  /\ ~ EmplaceTask(th) /\ ~ (th \in Worker /\ \E t \in Task : PopNew(th, t)) => UNCHANGED emplaced
  /\ ~ ActivateTask(th) /\ ~ (th \in Worker /\ \E t \in Task : PopReady(th, t)) => UNCHANGED ready
  /\ ~ (th \in Worker /\ Execute(th)) => UNCHANGED started

\* No other step changes them.
LEMMA StepSpares ==
  ASSUME NEW th \in Thread, Step(th)
  PROVE  Spares(th)
<1>1. CASE Creates(th)
  BY Zenon, <1>1 DEF Spares, CreateTask, Creates, objVars, queueVars
<1>2. CASE Register(th)
  BY <1>2 DEF Spares, Register, objVars, queueVars
<1>3. CASE EmplaceTask(th)
  BY <1>3 DEF Spares, EmplaceTask, objVars, queueVars
<1>4. CASE \E t \in Task : DropFuture(th, t)
  BY <1>4 DEF Spares, DropFuture, objVars, queueVars
<1>5. CASE th = Main /\ EndGet
  BY <1>5 DEF Spares, EndGet, objVars, queueVars
<1>6. CASE th = Main /\ ((\E t \in Task : BeginGet(t)) \/ BeginBarrier \/ EndBarrier)
  BY <1>6 DEF Spares, BeginGet, BeginBarrier, EndBarrier, objVars, queueVars
<1>7. CASE th \in Worker /\ \E t \in Task : PopNew(th, t)
  BY Zenon, <1>7 DEF Spares, PopNew, objVars, queueVars
<1>8. CASE th \in Worker /\ \E t \in Task : PopReady(th, t)
  BY <1>8 DEF Spares, PopReady, objVars, queueVars
<1>9. CASE th \in Worker /\ LockUsers(th)
  BY <1>9 DEF Spares, LockUsers, objVars, queueVars
<1>10. CASE th \in Worker /\ Scan(th)
  BY <1>10 DEF Spares, Scan, objVars, queueVars
<1>11. CASE th \in Worker /\ Link(th)
  BY <1>11 DEF Spares, Link, objVars, queueVars
<1>12. CASE th \in Worker /\ CountEdge(th)
  BY <1>12 DEF Spares, CountEdge, objVars, queueVars
<1>13. CASE th \in Worker /\ EndInit(th)
  BY <1>13 DEF Spares, EndInit, objVars, queueVars
<1>14. CASE th \in Worker /\ Execute(th)
  BY <1>14 DEF Spares, Execute, objVars, queueVars
<1>15. CASE th \in Worker /\ EndBody(th)
  BY <1>15 DEF Spares, EndBody, objVars, queueVars
<1>16. CASE NotifyPost(th)
  BY <1>16 DEF Spares, NotifyPost, objVars, queueVars
<1>17. CASE NotifyGet(th)
  BY <1>17 DEF Spares, NotifyGet, objVars, queueVars
<1>18. CASE ReadWaker(th)
  BY <1>18 DEF Spares, ReadWaker, objVars, queueVars
<1>19. CASE DeleteFromResource(th)
  BY <1>19 DEF Spares, DeleteFromResource, objVars, queueVars
<1>20. CASE NotifyFollower(th)
  BY Zenon, <1>20 DEF Spares, NotifyFollower, objVars, queueVars
<1>21. CASE ActivateTask(th)
  BY <1>21 DEF Spares, ActivateTask, objVars, queueVars
<1>22. CASE CountDown(th)
  BY <1>22 DEF Spares, CountDown, objVars, queueVars
<1>23. CASE FreeTask(th)
  BY <1>23 DEF Spares, FreeTask, objVars, queueVars
<1>24. CASE ReadDepth(th)
  BY <1>24 DEF Spares, ReadDepth, objVars, queueVars
<1> QED
  BY <1>1, <1>2, <1>3, <1>4, <1>5, <1>6, <1>7, <1>8, <1>9, <1>10, <1>11, <1>12, <1>13, <1>14,
     <1>15, <1>16, <1>17, <1>18, <1>19, <1>20, <1>21, <1>22, <1>23, <1>24 DEF Step, KeepsEdges, Creates

-----------------------------------------------------------------------------
(***************************************************************************)
(* Pre-events.                                                             *)
(***************************************************************************)

\* Some worker is at one of these points with task t.
Busy(t, S) == \E w \in Worker : job[w].cur = t /\ job[w].pc \in S

\* One worker has a task at a time, and one step moves one worker.
LEMMA BusyStep ==
  ASSUME IInv, NEW th \in Thread, NEW pc, NEW cur, NEW new, NEW k, NEW it,
         Sets(th, pc, cur, new, k, it), NEW t \in Task, NEW S
  PROVE  /\ th \notin Worker \/ (job[th].cur # t /\ cur # t) => (Busy(t, S)' <=> Busy(t, S))
         /\ th \in Worker /\ job[th].cur = t =>
              /\ Busy(t, S) <=> job[th].pc \in S
              /\ Busy(t, S)' <=> cur = t /\ pc \in S
         /\ th \in Worker /\ cur = t /\ (\A w \in Worker : job[w].cur # t) =>
              /\ ~ Busy(t, S)
              /\ Busy(t, S)' <=> pc \in S
<1>1. /\ \A u \in Thread : u # th => job'[u] = job[u]
      /\ job'[th].pc = pc /\ job'[th].cur = cur
  BY DEF Sets
<1>2. \A w \in Worker : w \in Thread
  BY Constants
<1>3. \A v, w \in Worker : job[v].cur = t /\ job[w].cur = t => v = w
  <2> SUFFICES ASSUME NEW v \in Worker, NEW w \in Worker, job[v].cur = t, job[w].cur = t
               PROVE  v = w
    OBVIOUS
  <2>1. InPlace("cur", v, t) /\ InPlace("cur", w, t) /\ v \in Holder /\ w \in Holder
    BY <1>2 DEF InPlace, Holder
  <2> QED
    BY <2>1 DEF IInv, OnePlace, PlaceKind
<1>4. th \notin Worker \/ (job[th].cur # t /\ cur # t) => (Busy(t, S)' <=> Busy(t, S))
  BY <1>1, <1>2 DEF Busy
<1>5. th \in Worker /\ job[th].cur = t =>
        /\ Busy(t, S) <=> job[th].pc \in S
        /\ Busy(t, S)' <=> cur = t /\ pc \in S
  BY <1>1, <1>2, <1>3 DEF Busy
<1>6. th \in Worker /\ cur = t /\ (\A w \in Worker : job[w].cur # t) =>
        /\ ~ Busy(t, S)
        /\ Busy(t, S)' <=> pc \in S
  BY <1>1, <1>2 DEF Busy
<1> QED
  BY <1>4, <1>5, <1>6

\* A task that waits in a queue is with no worker.
LEMMA QueuedIsIdle ==
  ASSUME IInv, NEW t \in Task, t \in emplaced \/ ready[t] > 0
  PROVE  \A w \in Worker : job[w].cur # t
<1>1. InPlace("emplaced", NoThread, t) \/ InPlace("ready", NoThread, t)
  BY DEF InPlace
<1>2. NoThread \in Holder /\ \A w \in Worker : w \in Holder /\ w # NoThread
  BY Constants DEF Holder
<1>3. ASSUME NEW w \in Worker, job[w].cur = t PROVE FALSE
  <2>1. InPlace("cur", w, t)
    BY <1>3 DEF InPlace
  <2> QED
    BY <1>1, <1>2, <2>1 DEF IInv, OnePlace, PlaceKind
<1> QED
  BY <1>3

\* A step that does not touch the counts of a pre-event.
LEMMA PreKept ==
  ASSUME PreCounts, NEW t \in Task, pre'[t] = pre[t], t \in started' <=> t \in started,
         Initialised(t)' <=> Initialised(t), Edges(PreOf(t))' = Edges(PreOf(t))
  PROVE  /\ IsFiniteSet(Edges(PreOf(t)))'
         /\ pre'[t] = (IF t \in started' THEN 0 ELSE 1) + (IF Initialised(t)' THEN 1 ELSE 0)
                      + Cardinality(Edges(PreOf(t)))'
BY DEF PreCounts

\* The state of a pre-event counts what holds it back.
LEMMA PreCountsStep ==
  ASSUME IInv, NEW th \in Thread, Step(th)
  PROVE  PreCounts'
<1> SUFFICES ASSUME NEW t \in Task
             PROVE  /\ IsFiniteSet(Edges(PreOf(t)))'
                    /\ pre'[t] = (IF t \in started' THEN 0 ELSE 1) + (IF Initialised(t)' THEN 1 ELSE 0)
                                 + Cardinality(Edges(PreOf(t)))'
  BY DEF PreCounts
<1> DEFINE E == Edges(PreOf(t))
           c == Cardinality(E)
           Goal == /\ IsFiniteSet(E')
                   /\ pre'[t] = (IF t \in started' THEN 0 ELSE 1) + (IF Initialised(t)' THEN 1 ELSE 0)
                                + Cardinality(E')
<1>1. /\ IsFiniteSet(E) /\ c \in Nat /\ pre[t] \in Int
      /\ pre[t] = (IF t \in started THEN 0 ELSE 1) + (IF Initialised(t) THEN 1 ELSE 0) + c
  <2>1. IsFiniteSet(E)
    BY DEF IInv, PreCounts
  <2> QED
    BY <2>1, FS_CardinalityType DEF IInv, PreCounts, Types
<1>2. Initialised(t) <=> Busy(t, InitPcs)
  BY DEF Initialised, Busy
<1>3. Initialised(t)' <=> Busy(t, InitPcs)'
  BY DEF Initialised, Busy
<1>4. /\ \A u : PreOf(t) # PostOf(u)
      /\ \A u : PreOf(t) = PreOf(u) => t = u
  BY DEF PreOf, PostOf
<1>5. ASSUME PendingSame PROVE E' = E
  BY <1>5, EdgesSame
<1>6. ASSUME pre' = pre, started' = started, Initialised(t)' <=> Initialised(t), E' = E
      PROVE  Goal
  BY <1>6, PreKept DEF IInv
<1>7. ASSUME UNCHANGED <<pre, started, job>>, PendingSame PROVE Goal
  <2>1. Initialised(t)' <=> Initialised(t)
    BY <1>7 DEF Initialised
  <2> QED
    BY <1>5, <1>6, <1>7, <2>1
<1>8. ASSUME NEW pc, NEW new, NEW k, NEW it, Sets(th, pc, job[th].cur, new, k, it),
             UNCHANGED <<pre, started>>, E' = E,
             pc \in InitPcs <=> job[th].pc \in InitPcs
      PROVE  Goal
  <2>1. Busy(t, InitPcs)' <=> Busy(t, InitPcs)
    BY <1>8, BusyStep
  <2> QED
    BY <1>2, <1>3, <1>6, <1>8, <2>1
<1> SUFFICES Goal
  BY DEF Goal, E
<1> HIDE DEF E, Goal
<1>9. ASSUME NEW u \in Task, NEW a \in AccessSeq, CreateTask(th, u, a) PROVE Goal
  <2>1. /\ Sets(th, "register", job[th].cur, u, Len(a), job[th].it) /\ job[th].pc \in {"top", "body"}
        /\ job[th].cur \in Task \union {Root}
    BY <1>9, CreateTaskIs, InProgramIs
  <2>2. PICK p \in Task \union {Root} : p = job[th].cur
    BY <2>1
  <2>3. PendingSame \/ PendingAdds(u, 1, PostOf(p))
    BY <1>9, <2>2, CreateTaskPending
  <2>4. E' = E
    BY <1>4, <1>5, <2>3, EdgesAdd DEF E
  <2>5. UNCHANGED <<pre, started>>
    BY <1>9 DEF CreateTask
  <2> QED
    BY <1>8, <2>1, <2>4, <2>5 DEF InitPcs
<1>10. CASE KeepsEdges(th)
  <2>0. PendingSame /\ E' = E
    BY <1>5, <1>10, KeepsEdgesIs
  <2>1. CASE Register(th)
    <3>1. job[th].pc = "register" /\ UNCHANGED <<pre, started>>
          /\ Sets(th, "register", job[th].cur, job[th].new, job[th].k - 1, job[th].it)
      BY Zenon, <2>1, RegisterIs DEF Register
    <3> QED
      BY <1>8, <2>0, <3>1
  <2>2. CASE EmplaceTask(th)
    <3>1. /\ job[th].pc = "register" /\ UNCHANGED <<pre, started>>
          /\ Sets(th, IF th = Main THEN "top" ELSE "body", job[th].cur, Root, job[th].k, job[th].it)
      BY <2>2, EmplaceTaskIs DEF EmplaceTask
    <3> QED
      BY <1>8, <2>0, <3>1 DEF InitPcs
  <2>3. CASE \E u \in Task : DropFuture(th, u)
    BY <1>7, <2>0, <2>3 DEF DropFuture
  <2>4. CASE th = Main /\ EndGet
    <3>1. /\ job[th].pc = "get" /\ job[th].cur = Root /\ UNCHANGED <<pre, started>>
          /\ Sets(th, "top", job[th].cur, Root, job[th].k, job[th].it)
      BY <2>4, EndGetIs DEF EndGet
    <3> QED
      BY <1>8, <2>0, <3>1 DEF InitPcs
  <2>5. CASE th = Main /\ ((\E u \in Task : BeginGet(u)) \/ BeginBarrier \/ EndBarrier)
    <3>1. MainWaits
      BY <2>5, MainWaitsIs
    <3>2. /\ job[th].pc \in {"top", "barrier"} /\ UNCHANGED <<pre, started>>
          /\ \E pc \in {"get", "barrier", "done"}, new \in Task \union {job[th].new} :
               Sets(th, pc, job[th].cur, new, job[th].k, job[th].it)
      BY <2>5, <3>1 DEF MainWaits
    <3> QED
      BY <1>8, <2>0, <3>2 DEF InitPcs
  <2>6. ASSUME th \in Worker, NEW u \in Task, PopNew(th, u) PROVE Goal
    <3>1. /\ job[th].pc = "gather" /\ u \in emplaced /\ pre' = [pre EXCEPT ![u] = pre[u] + 1]
          /\ Sets(th, "init", u, job[th].new, Len(access[u]), job[th].it) /\ started' = started
      BY Zenon, <2>6, PopNewIs DEF PopNew
    <3>2. job[th].cur = Root /\ Root \notin Task
      BY <2>6, <3>1, Constants DEF IInv, ThreadsMatch, JobMatches
    <3>3. CASE u = t
      <4>1. ~ Busy(t, InitPcs) /\ Busy(t, InitPcs)'
        BY <2>6, <3>1, <3>3, BusyStep, QueuedIsIdle DEF InitPcs
      <4>2. pre'[t] = pre[t] + 1
        BY <3>1, <3>3 DEF IInv, Types
      <4> QED
        BY <1>1, <1>2, <1>3, <2>0, <3>1, <4>1, <4>2 DEF Goal
    <3>4. CASE u # t
      <4>1. Busy(t, InitPcs)' <=> Busy(t, InitPcs)
        BY <3>1, <3>2, <3>4, BusyStep
      <4>2. pre'[t] = pre[t]
        BY <3>1, <3>4 DEF IInv, Types
      <4> QED
        BY <1>1, <1>2, <1>3, <2>0, <3>1, <4>1, <4>2 DEF Goal
    <3> QED
      BY <3>3, <3>4
  <2>7. ASSUME th \in Worker, NEW u \in Task, PopReady(th, u) PROVE Goal
    <3>1. /\ job[th].pc = "gather" /\ ready[u] > 0 /\ UNCHANGED <<pre, started>>
          /\ Sets(th, "exec", u, job[th].new, job[th].k, job[th].it)
      BY <2>7, PopReadyIs DEF PopReady
    <3>2. job[th].cur = Root /\ Root \notin Task
      BY <2>7, <3>1, Constants DEF IInv, ThreadsMatch, JobMatches
    <3>3. Busy(t, InitPcs)' <=> Busy(t, InitPcs)
      <4>1. CASE u = t
        BY <2>7, <3>1, <4>1, BusyStep, QueuedIsIdle DEF InitPcs
      <4>2. CASE u # t
        BY <3>1, <3>2, <4>2, BusyStep
      <4> QED
        BY <4>1, <4>2
    <3> QED
      BY <1>2, <1>3, <1>6, <2>0, <3>1, <3>3
  <2>8. CASE th \in Worker /\ LockUsers(th)
    <3>1. /\ job[th].pc = "init" /\ UNCHANGED <<pre, started>>
          /\ \E it : Sets(th, "scan", job[th].cur, job[th].new, job[th].k, it)
      BY Zenon, <2>8, LockUsersIs DEF LockUsers
    <3> QED
      BY <1>8, <2>0, <3>1 DEF InitPcs
  <2>9. CASE th \in Worker /\ Scan(th)
    <3>1. /\ job[th].pc = "scan" /\ UNCHANGED <<pre, started>>
          /\ \E pc \in InitPcs : \E k, it : Sets(th, pc, job[th].cur, job[th].new, k, it)
      BY <2>9, ScanIs DEF Scan, Advances, InitPcs
    <3> QED
      BY <1>8, <2>0, <3>1 DEF InitPcs
  <2>10. CASE th \in Worker /\ CountEdge(th)
    <3>1. /\ job[th].pc = "up" /\ started' = started /\ job[th].cur \in Task
          /\ pre' = [pre EXCEPT ![job[th].cur] = pre[job[th].cur] + 1]
          /\ \E pc \in InitPcs : \E k, it : Sets(th, pc, job[th].cur, job[th].new, k, it)
      BY <2>10, CountEdgeIs DEF CountEdge, Advances, InitPcs
    <3>2. CASE job[th].cur = t
      <4>1. ~ Busy(t, InitPcs) /\ Busy(t, InitPcs)'
        BY <2>10, <3>1, <3>2, BusyStep DEF InitPcs
      <4>2. pre'[t] = pre[t] + 1
        BY <3>1, <3>2 DEF IInv, Types
      <4> QED
        BY <1>1, <1>2, <1>3, <2>0, <3>1, <4>1, <4>2 DEF Goal
    <3>3. CASE job[th].cur # t
      <4>1. Busy(t, InitPcs)' <=> Busy(t, InitPcs)
        BY <3>1, <3>3, BusyStep
      <4>2. pre'[t] = pre[t]
        BY <3>1, <3>3 DEF IInv, Types
      <4> QED
        BY <1>1, <1>2, <1>3, <2>0, <3>1, <4>1, <4>2 DEF Goal
    <3> QED
      BY <3>2, <3>3
  <2>11. CASE th \in Worker /\ EndInit(th)
    <3>1. /\ job[th].pc = "init" /\ started' = started /\ job[th].cur \in Task
          /\ pre' = [pre EXCEPT ![job[th].cur] = pre[job[th].cur] - 1]
          /\ \E pc \in {"exec", "gather"}, cur \in {job[th].cur, Root} :
               Sets(th, pc, cur, job[th].new, job[th].k, job[th].it)
      BY <2>11, EndInitIs DEF EndInit
    <3>2. CASE job[th].cur = t
      <4>1. Busy(t, InitPcs) /\ ~ Busy(t, InitPcs)'
        BY <2>11, <3>1, <3>2, BusyStep DEF InitPcs
      <4>2. pre'[t] = pre[t] - 1
        BY <3>1, <3>2 DEF IInv, Types
      <4> QED
        BY <1>1, <1>2, <1>3, <2>0, <3>1, <4>1, <4>2 DEF Goal
    <3>3. CASE job[th].cur # t
      <4>1. Busy(t, InitPcs)' <=> Busy(t, InitPcs)
        BY <3>1, <3>3, BusyStep, Constants
      <4>2. pre'[t] = pre[t]
        BY <3>1, <3>3 DEF IInv, Types
      <4> QED
        BY <1>1, <1>2, <1>3, <2>0, <3>1, <4>1, <4>2 DEF Goal
    <3> QED
      BY <3>2, <3>3
  <2>12. CASE th \in Worker /\ Execute(th)
    <3>1. /\ job[th].pc = "exec" /\ started' = started \union {job[th].cur} /\ job[th].cur \in Task
          /\ pre' = [pre EXCEPT ![job[th].cur] = pre[job[th].cur] - 1]
          /\ Sets(th, "body", job[th].cur, job[th].new, job[th].k, job[th].it)
      BY <2>12, ExecuteIs
    <3>2. Busy(t, InitPcs)' <=> Busy(t, InitPcs)
      BY <3>1, BusyStep DEF InitPcs
    <3>3. CASE job[th].cur = t
      <4>1. t \notin started
        <5>1. InPlace("cur", th, t) /\ th \in Holder
          BY <2>12, <3>3 DEF InPlace, Holder
        <5> QED
          BY <3>1, <5>1 DEF IInv, StatusMatches, PlaceKind
      <4>2. pre'[t] = pre[t] - 1 /\ t \in started'
        BY <3>1, <3>3 DEF IInv, Types
      <4> QED
        BY <1>1, <1>2, <1>3, <2>0, <3>2, <4>1, <4>2 DEF Goal
    <3>4. CASE job[th].cur # t
      <4>1. pre'[t] = pre[t] /\ (t \in started' <=> t \in started)
        BY <3>1, <3>4 DEF IInv, Types
      <4> QED
        BY <1>1, <1>2, <1>3, <2>0, <3>2, <4>1 DEF Goal
    <3> QED
      BY <3>3, <3>4
  <2>13. CASE th \in Worker /\ EndBody(th)
    <3>1. /\ job[th].pc = "body" /\ UNCHANGED <<pre, started>>
          /\ Sets(th, "gather", Root, job[th].new, job[th].k, job[th].it)
      BY <2>13, EndBodyIs DEF EndBody
    <3>2. Busy(t, InitPcs)' <=> Busy(t, InitPcs)
      <4>1. CASE job[th].cur = t
        BY <2>13, <3>1, <4>1, BusyStep DEF InitPcs
      <4>2. CASE job[th].cur # t
        BY <3>1, <4>2, BusyStep, Constants
      <4> QED
        BY <4>1, <4>2
    <3> QED
      BY <1>2, <1>3, <1>6, <2>0, <3>1, <3>2
  <2>14. CASE \/ NotifyPost(th) \/ NotifyGet(th) \/ ReadWaker(th) \/ DeleteFromResource(th)
              \/ ActivateTask(th) \/ CountDown(th) \/ FreeTask(th) \/ ReadDepth(th)
    <3>1. UNCHANGED <<pre, started, job>>
      BY <2>14 DEF NotifyPost, NotifyGet, ReadWaker, DeleteFromResource, ActivateTask, CountDown,
                   FreeTask, ReadDepth
    <3> QED
      BY <1>7, <2>0, <3>1
  <2> QED
    BY <1>10, <2>1, <2>2, <2>3, <2>4, <2>5, <2>6, <2>7, <2>8, <2>9, <2>10, <2>11, <2>12, <2>13,
       <2>14 DEF KeepsEdges
<1>11. CASE th \in Worker /\ Link(th)
  <2>1. /\ job[th].pc = "link" /\ UNCHANGED <<pre, started>> /\ Predecessor(th) \in Task
        /\ job[th].cur \in Task
        /\ Sets(th, "up", job[th].cur, job[th].new, job[th].k, job[th].it)
    BY <1>11, LinkIs DEF Link
  <2>2. PICK u \in Task : u = job[th].cur
    BY <2>1
  <2>3. PICK q \in Task : q = Predecessor(th)
    BY <2>1
  <2>4. PICK n : n = Len(followers[q]) + 1
    OBVIOUS
  <2>5. PendingAdds(q, n, PreOf(u))
    BY <1>11, <2>2, <2>3, <2>4, LinkPending
  <2>6. CASE u = t
    <3>1. <<q, n>> \notin E /\ E' = E \union {<<q, n>>}
      BY <2>5, <2>6, EdgesAdd DEF E
    <3>2. IsFiniteSet(E') /\ Cardinality(E') = c + 1
      BY <1>1, <3>1, FS_AddElement
    <3>3. Busy(t, InitPcs) /\ ~ Busy(t, InitPcs)'
      <4>1. job[th].cur = t /\ Sets(th, "up", job[th].cur, job[th].new, job[th].k, job[th].it)
        BY <2>1, <2>2, <2>6
      <4>2. (Busy(t, InitPcs) <=> job[th].pc \in InitPcs) /\ (Busy(t, InitPcs)' <=> "up" \in InitPcs)
        BY <1>11, <4>1, BusyStep
      <4> QED
        BY <2>1, <4>2 DEF InitPcs
    <3> HIDE DEF c
    <3> QED
      BY <1>1, <1>2, <1>3, <2>1, <3>2, <3>3 DEF Goal
  <2>7. CASE u # t
    <3>1. E' = E
      BY <1>4, <2>5, <2>7, EdgesAdd DEF E
    <3>2. Busy(t, InitPcs)' <=> Busy(t, InitPcs)
      BY <2>1, <2>2, <2>7, BusyStep
    <3> QED
      BY <1>2, <1>3, <1>6, <2>1, <3>1, <3>2
  <2> QED
    BY <2>6, <2>7
<1>12. CASE NotifyFollower(th)
  <2>1. /\ top[th].task \in Task /\ top[th].i \in Nat /\ UNCHANGED <<started, job>>
        /\ LET g == followers[top[th].task][top[th].i]
           IN  /\ g.task \in Task
               /\ \/ g = PreOf(g.task) /\ pre' = [pre EXCEPT ![g.task] = pre[g.task] - 1]
                  \/ g = PostOf(g.task) /\ pre' = pre
    BY Zenon, <1>12, NotifyFollowerIs DEF NotifyFollower
  <2>2. PICK q \in Task : q = top[th].task
    BY Zenon, <2>1
  <2>3. PICK n \in Nat : n = top[th].i
    BY Zenon, <2>1
  <2>4. PICK u \in Task : u = followers[q][n].task
    BY Zenon, <2>1, <2>2, <2>3
  <2>5. \/ followers[q][n] = PreOf(u) /\ pre' = [pre EXCEPT ![u] = pre[u] - 1]
        \/ followers[q][n] = PostOf(u) /\ pre' = pre
    BY Zenon, <2>1, <2>2, <2>3, <2>4
  <2>6. PendingDrops(q, n)
    BY <1>12, <2>2, <2>3, NotifyFollowerPending
  <2>7. Initialised(t)' <=> Initialised(t)
    BY Zenon, <2>1 DEF Initialised
  <2>8. CASE followers[q][n] = PreOf(t) /\ pre' = [pre EXCEPT ![t] = pre[t] - 1]
    <3>1. <<q, n>> \in E /\ E' = E \ {<<q, n>>}
      BY <2>6, <2>8, EdgesDrop DEF E
    <3>2. IsFiniteSet(E') /\ Cardinality(E') = c - 1
      BY <1>1, <3>1, FS_RemoveElement
    <3>3. pre'[t] = pre[t] - 1
      BY <2>8 DEF IInv, Types
    <3> HIDE DEF c
    <3> QED
      BY SMTT(60), <1>1, <2>1, <2>7, <3>2, <3>3 DEF Goal
  <2>9. CASE followers[q][n] # PreOf(t)
    <3>1. E' = E
      <4>1. PICK e : e = followers[q][n]
        OBVIOUS
      <4> QED
        BY <2>6, <2>9, <4>1, EdgesDrop DEF E
    <3>2. pre'[t] = pre[t]
      BY <2>5, <2>9 DEF IInv, Types
    <3> QED
      BY Zenon, <1>1, <2>1, <2>7, <3>1, <3>2 DEF Goal
  <2> QED
    BY <1>4, <2>5, <2>8, <2>9
<1> QED
  BY <1>9, <1>10, <1>11, <1>12 DEF Step

-----------------------------------------------------------------------------
(***************************************************************************)
(* Post-events.                                                            *)
(***************************************************************************)

\* The body of t has not ended.
Open(t) == t \notin started \/ Running(t)

Notifies(th, t) == top[th].pc = "post" /\ top[th].task = t

\* A step changes the innermost notification of one thread.
LEMMA PostFramesStep ==
  ASSUME NEW th \in Thread, \A u \in Thread : u # th => top'[u] = top[u], NEW t
  PROVE  /\ (Notifies(th, t)' <=> Notifies(th, t)) => PostFrames(t)' = PostFrames(t)
         /\ ~ Notifies(th, t) /\ Notifies(th, t)' =>
              <<th, 1>> \notin PostFrames(t) /\ PostFrames(t)' = PostFrames(t) \union {<<th, 1>>}
         /\ Notifies(th, t) /\ ~ Notifies(th, t)' =>
              <<th, 1>> \in PostFrames(t) /\ PostFrames(t)' = PostFrames(t) \ {<<th, 1>>}
<1>1. ASSUME NEW x \in Thread \X {1}, x # <<th, 1>> PROVE x \in PostFrames(t)' <=> x \in PostFrames(t)
  <2>1. x[1] \in Thread /\ x[1] # th
    BY <1>1
  <2>2. top'[x[1]] = top[x[1]]
    BY <2>1
  <2> QED
    BY <2>2 DEF PostFrames
<1>2. /\ <<th, 1>> \in PostFrames(t) <=> Notifies(th, t)
      /\ <<th, 1>> \in PostFrames(t)' <=> Notifies(th, t)'
  BY DEF PostFrames, Notifies
<1>3. PostFrames(t) \subseteq Thread \X {1} /\ PostFrames(t)' \subseteq Thread \X {1}
  BY DEF PostFrames
<1>4. (Notifies(th, t)' <=> Notifies(th, t)) => PostFrames(t)' = PostFrames(t)
  BY <1>1, <1>2, <1>3
<1>5. ~ Notifies(th, t) /\ Notifies(th, t)' =>
        <<th, 1>> \notin PostFrames(t) /\ PostFrames(t)' = PostFrames(t) \union {<<th, 1>>}
  BY <1>1, <1>2, <1>3
<1>6. Notifies(th, t) /\ ~ Notifies(th, t)' =>
        <<th, 1>> \in PostFrames(t) /\ PostFrames(t)' = PostFrames(t) \ {<<th, 1>>}
  BY <1>1, <1>2, <1>3
<1> QED
  BY <1>4, <1>5, <1>6

\* The other steps of a notification begin none.
LEMMA QuietTurn ==
  ASSUME IInv, NEW th \in Thread,
         \/ NotifyGet(th) \/ ReadWaker(th) \/ DeleteFromResource(th) \/ ActivateTask(th)
         \/ CountDown(th) \/ FreeTask(th) \/ ReadDepth(th)
  PROVE  top[th].pc # "post" /\ \E h : Turns(th, h) /\ h.pc # "post"
<1>1. ASSUME NEW t, NEW pc \in {"countdown", "delete", "followers", "free", "depth"}, NEW i
      PROVE  AFrame(t, pc, i).pc # "post"
  BY DEF AFrame
<1>2. NoFrame.pc # "post"
  BY DEF NoFrame
<1>3. CASE NotifyGet(th)
  BY <1>1, <1>3, NotifyGetIs
<1>4. CASE ReadWaker(th)
  BY <1>1, <1>2, <1>4, ReadWakerIs
<1>5. CASE DeleteFromResource(th)
  <2>1. /\ top[th].pc = "delete" /\ top[th].task \in Task /\ top[th].i \in 1..Len(access[top[th].task])
        /\ top[th].i > 1 => Turns(th, AFrame(top[th].task, "delete", top[th].i - 1))
        /\ top[th].i = 1 => Turns(th, AFrame(top[th].task, "followers", Len(followers[top[th].task])))
    BY <1>5, DeleteIs
  <2>2. Len(access[top[th].task]) \in Nat
    BY <2>1, AccessIs DEF IInv
  <2>3. top[th].i > 1 \/ top[th].i = 1
    BY <2>1, <2>2
  <2> QED
    BY <1>1, <2>1, <2>3
<1>6. CASE ActivateTask(th)
  BY <1>1, <1>6, ActivateTaskIs
<1>7. CASE CountDown(th)
  BY <1>1, <1>2, <1>7, CountDownIs
<1>8. CASE FreeTask(th)
  BY <1>1, <1>8, FreeTaskIs
<1>9. CASE ReadDepth(th)
  BY <1>2, <1>9, ReadDepthIs
<1> QED
  BY <1>3, <1>4, <1>5, <1>6, <1>7, <1>8, <1>9

\* The state of a post-event counts the body, those that are about to notify
\* it, and the children that will.
LEMMA PostCountsStep ==
  ASSUME IInv, NEW th \in Thread, Step(th)
  PROVE  PostCounts'
<1> DEFINE B == {"body", "register"}
<1> SUFFICES ASSUME NEW t \in Task
             PROVE  /\ IsFiniteSet(Edges(PostOf(t)))' /\ IsFiniteSet(PostFrames(t))'
                    /\ post'[t] = (IF t \notin started' \/ Running(t)' THEN 1 ELSE 0)
                         + Cardinality(PostFrames(t))' + Cardinality(Edges(PostOf(t)))'
                    /\ result_set'[t] = (IF t \notin started' \/ Running(t)' THEN 1 ELSE 0)
  BY DEF PostCounts
<1> DEFINE E == Edges(PostOf(t))
           P == PostFrames(t)
           c == Cardinality(E)
           d == Cardinality(P)
           Goal == /\ IsFiniteSet(E') /\ IsFiniteSet(P')
                   /\ post'[t] = (IF Open(t)' THEN 1 ELSE 0) + Cardinality(P') + Cardinality(E')
                   /\ result_set'[t] = (IF Open(t)' THEN 1 ELSE 0)
<1> SUFFICES Goal
  BY DEF Goal, E, P, Open
<1>1. /\ IsFiniteSet(E) /\ c \in Nat /\ IsFiniteSet(P) /\ d \in Nat /\ post[t] \in Int
      /\ post[t] = (IF Open(t) THEN 1 ELSE 0) + d + c
      /\ result_set[t] = (IF Open(t) THEN 1 ELSE 0)
  <2>1. IsFiniteSet(E) /\ IsFiniteSet(P)
    BY DEF IInv, PostCounts
  <2> QED
    BY <2>1, FS_CardinalityType DEF IInv, PostCounts, Types, Open
<1>2. Open(t) <=> t \notin started \/ Busy(t, B)
  BY DEF Open, Running, Busy
<1>3. Open(t)' <=> t \notin started' \/ Busy(t, B)'
  BY DEF Open, Running, Busy
<1>4. /\ \A u : PostOf(t) # PreOf(u)
      /\ \A u : PostOf(t) = PostOf(u) => t = u
  BY DEF PreOf, PostOf
<1>5. ASSUME PendingSame PROVE E' = E
  BY <1>5, EdgesSame
<1>6. ASSUME post'[t] = post[t], result_set'[t] = result_set[t], Open(t)' <=> Open(t), E' = E, P' = P
      PROVE  Goal
  BY <1>1, <1>6
<1>7. ASSUME UNCHANGED stack PROVE P' = P
  <2>1. top' = top
    BY <1>7, SameStack
  <2> QED
    BY <2>1 DEF PostFrames
<1>8. ASSUME NEW pc, NEW new, NEW k, NEW it, Sets(th, pc, job[th].cur, new, k, it),
             UNCHANGED started, pc \in B <=> job[th].pc \in B
      PROVE  Open(t)' <=> Open(t)
  <2>1. Busy(t, B)' <=> Busy(t, B)
    BY <1>8, BusyStep
  <2> QED
    BY <1>2, <1>3, <1>8, <2>1
<1>9. ASSUME UNCHANGED <<started, job>> PROVE Open(t)' <=> Open(t)
  BY <1>9 DEF Open, Running
<1> HIDE DEF E, P, Goal
<1>10. ASSUME NEW u \in Task, NEW a \in AccessSeq, CreateTask(th, u, a) PROVE Goal
  <2>1. /\ Sets(th, "register", job[th].cur, u, Len(a), job[th].it)
        /\ InProgram(th)
        /\ job[th].cur = Root => post' = post
        /\ job[th].cur # Root => post' = [post EXCEPT ![job[th].cur] = post[job[th].cur] + 1]
    BY <1>10, CreateTaskIs
  <2>2. /\ job[th].cur \in Task \union {Root}
        /\ \/ job[th].cur = Root /\ job[th].pc = "top" /\ th \notin Worker
           \/ job[th].cur # Root /\ job[th].pc = "body"
    BY <2>1, InProgramIs, Constants
  <2>3. PICK p \in Task \union {Root} : p = job[th].cur
    BY <2>2
  <2>4. UNCHANGED <<stack, started, result_set>>
    BY <1>10 DEF CreateTask
  <2>5. P' = P
    BY <1>7, <2>4
  <2>6. Open(t)' <=> Open(t)
    <3>1. CASE th \notin Worker
      <4>1. Busy(t, B)' <=> Busy(t, B)
        BY <2>1, <3>1, BusyStep
      <4> QED
        BY <1>2, <1>3, <2>4, <4>1
    <3>2. CASE job[th].pc = "body"
      BY <1>8, <2>1, <2>4, <3>2
    <3> QED
      BY <2>2, <3>1, <3>2
  <2>7. CASE p = t
    <3>1. p # Root
      BY <2>7, Constants
    <3>2. PendingAdds(u, 1, PostOf(t))
      BY <1>10, <2>3, <2>7, <3>1, CreateTaskPending
    <3>3. <<u, 1>> \notin E /\ E' = E \union {<<u, 1>>}
      BY <3>2, EdgesAdd DEF E
    <3>4. IsFiniteSet(E') /\ Cardinality(E') = c + 1
      BY <1>1, <3>3, FS_AddElement
    <3>5. post'[t] = post[t] + 1
      BY <2>1, <2>3, <2>7, <3>1 DEF IInv, Types
    <3> HIDE DEF c, d
    <3>6. Cardinality(P') = d
      BY <2>5 DEF d
    <3> QED
      BY <1>1, <2>4, <2>5, <2>6, <3>4, <3>5, <3>6 DEF Goal
  <2>8. CASE p # t
    <3>1. E' = E
      <4>1. PendingSame \/ PendingAdds(u, 1, PostOf(p))
        BY <1>10, <2>3, CreateTaskPending
      <4> QED
        BY <1>4, <1>5, <2>8, <4>1, EdgesAdd DEF E
    <3>2. post'[t] = post[t]
      BY <2>1, <2>3, <2>8 DEF IInv, Types
    <3> QED
      BY <1>6, <2>4, <2>5, <2>6, <3>1, <3>2
  <2> QED
    BY <2>7, <2>8
<1>11. CASE KeepsEdges(th)
  <2>0. PendingSame /\ E' = E
    BY <1>5, <1>11, KeepsEdgesIs
  <2>1. CASE Register(th)
    <3>1. job[th].pc = "register" /\ UNCHANGED <<post, result_set, started, stack>>
          /\ Sets(th, "register", job[th].cur, job[th].new, job[th].k - 1, job[th].it)
      BY Zenon, <2>1, RegisterIs DEF Register
    <3> QED
      BY <1>6, <1>7, <1>8, <2>0, <3>1
  <2>2. CASE EmplaceTask(th)
    <3>1. /\ job[th].pc = "register" /\ UNCHANGED <<post, result_set, started, stack>>
          /\ Sets(th, IF th = Main THEN "top" ELSE "body", job[th].cur, Root, job[th].k, job[th].it)
      BY <2>2, EmplaceTaskIs DEF EmplaceTask
    <3>2. Open(t)' <=> Open(t)
      <4>1. CASE th = Main
        <5>0. th \notin Worker
          BY <4>1, Constants
        <5>1. Busy(t, B)' <=> Busy(t, B)
          BY <3>1, <5>0, BusyStep
        <5> QED
          BY <1>2, <1>3, <3>1, <5>1
      <4>2. CASE th # Main
        BY <1>8, <3>1, <4>2
      <4> QED
        BY <4>1, <4>2
    <3> QED
      BY <1>6, <1>7, <2>0, <3>1, <3>2
  <2>3. ASSUME NEW u \in Task, DropFuture(th, u) PROVE Goal
    <3>1. Calls(th, u, "get") /\ UNCHANGED <<post, result_set, started, job>>
      BY <2>3, DropFutureIs DEF DropFuture
    <3>2. P' = P
      <4>1. ~ Notifies(th, t) /\ ~ Notifies(th, t)' /\ \A v \in Thread : v # th => top'[v] = top[v]
        BY <3>1 DEF Calls, Notifies, NoFrame, AFrame
      <4> QED
        BY <4>1, PostFramesStep DEF P
    <3> QED
      BY <1>6, <1>9, <2>0, <3>1, <3>2
  <2>4. CASE th = Main /\ EndGet
    <3>1. /\ job[th].pc = "get" /\ job[th].cur = Root /\ UNCHANGED <<post, result_set, started>>
          /\ Sets(th, "top", job[th].cur, Root, job[th].k, job[th].it)
          /\ Calls(th, job[Main].new, "get")
      BY <2>4, EndGetIs DEF EndGet
    <3>2. P' = P
      <4>1. ~ Notifies(th, t) /\ ~ Notifies(th, t)' /\ \A v \in Thread : v # th => top'[v] = top[v]
        BY <3>1 DEF Calls, Notifies, NoFrame, AFrame
      <4> QED
        BY <4>1, PostFramesStep DEF P
    <3>3. Open(t)' <=> Open(t)
      BY <1>8, <3>1
    <3> QED
      BY <1>6, <2>0, <3>1, <3>2, <3>3
  <2>5. CASE th = Main /\ ((\E u \in Task : BeginGet(u)) \/ BeginBarrier \/ EndBarrier)
    <3>1. MainWaits
      BY <2>5, MainWaitsIs
    <3>2. /\ job[th].pc \in {"top", "barrier"} /\ UNCHANGED <<post, result_set, started, stack>>
          /\ \E pc \in {"get", "barrier", "done"}, new \in Task \union {job[th].new} :
               Sets(th, pc, job[th].cur, new, job[th].k, job[th].it)
      BY <2>5, <3>1 DEF MainWaits
    <3>3. Open(t)' <=> Open(t)
      BY <1>8, <3>2
    <3> QED
      BY <1>6, <1>7, <2>0, <3>2, <3>3
  <2>6. ASSUME th \in Worker, NEW u \in Task, PopNew(th, u) \/ PopReady(th, u) PROVE Goal
    <3>1. /\ job[th].pc = "gather" /\ (u \in emplaced \/ ready[u] > 0)
          /\ \E pc \in {"init", "exec"} : \E k : Sets(th, pc, u, job[th].new, k, job[th].it)
      BY <2>6, PopNewIs, PopReadyIs
    <3>2. UNCHANGED <<post, result_set, started, stack>>
      BY <2>6 DEF PopNew, PopReady
    <3>3. job[th].cur = Root /\ Root \notin Task
      BY <2>6, <3>1, Constants DEF IInv, ThreadsMatch, JobMatches
    <3>4. Busy(t, B)' <=> Busy(t, B)
      <4>1. CASE u = t
        BY <2>6, <3>1, <4>1, BusyStep, QueuedIsIdle
      <4>2. CASE u # t
        BY <3>1, <3>3, <4>2, BusyStep
      <4> QED
        BY <4>1, <4>2
    <3> QED
      BY <1>2, <1>3, <1>6, <1>7, <2>0, <3>2, <3>4
  <2>7. CASE th \in Worker /\ LockUsers(th)
    <3>1. /\ job[th].pc = "init" /\ UNCHANGED <<post, result_set, started, stack>>
          /\ \E it : Sets(th, "scan", job[th].cur, job[th].new, job[th].k, it)
      BY <2>7, LockUsersIs DEF LockUsers
    <3>2. Open(t)' <=> Open(t)
      BY <1>8, <3>1
    <3> QED
      BY <1>6, <1>7, <2>0, <3>1, <3>2
  <2>8. CASE th \in Worker /\ (Scan(th) \/ CountEdge(th))
    <3>1. /\ job[th].pc \in {"scan", "up"}
          /\ \E pc \in InitPcs : \E k, it : Sets(th, pc, job[th].cur, job[th].new, k, it)
      BY <2>8, ScanIs, CountEdgeIs DEF Advances, InitPcs
    <3>2. UNCHANGED <<post, result_set, started, stack>>
      BY <2>8 DEF Scan, CountEdge
    <3>3. Open(t)' <=> Open(t)
      BY <1>8, <3>1, <3>2 DEF InitPcs
    <3> QED
      BY <1>6, <1>7, <2>0, <3>2, <3>3
  <2>9. CASE th \in Worker /\ EndInit(th)
    <3>1. /\ job[th].pc = "init" /\ UNCHANGED <<post, result_set, started, stack>>
          /\ job[th].cur \in Task
          /\ \E pc \in {"exec", "gather"}, cur \in {job[th].cur, Root} :
               Sets(th, pc, cur, job[th].new, job[th].k, job[th].it)
      BY <2>9, EndInitIs DEF EndInit
    <3>2. Busy(t, B)' <=> Busy(t, B)
      <4>1. CASE job[th].cur = t
        BY <2>9, <3>1, <4>1, BusyStep
      <4>2. CASE job[th].cur # t
        <5>1. PICK pc \in {"exec", "gather"}, cur \in {job[th].cur, Root} :
                Sets(th, pc, cur, job[th].new, job[th].k, job[th].it)
          BY <3>1
        <5>2. cur # t
          BY <4>2, Constants
        <5> QED
          BY <4>2, <5>1, <5>2, BusyStep
      <4> QED
        BY <4>1, <4>2
    <3> QED
      BY <1>2, <1>3, <1>6, <1>7, <2>0, <3>1, <3>2
  <2>10. CASE th \in Worker /\ Execute(th)
    <3>1. /\ job[th].pc = "exec" /\ started' = started \union {job[th].cur} /\ job[th].cur \in Task
          /\ UNCHANGED <<post, result_set, stack>>
          /\ Sets(th, "body", job[th].cur, job[th].new, job[th].k, job[th].it)
      BY <2>10, ExecuteIs DEF Execute
    <3>2. Open(t)' <=> Open(t)
      <4>1. CASE job[th].cur = t
        <5>1. InPlace("cur", th, t) /\ th \in Holder
          BY <2>10, <4>1 DEF InPlace, Holder
        <5>2. t \notin started
          BY <3>1, <5>1 DEF IInv, StatusMatches, PlaceKind
        <5>3. Busy(t, B)'
          BY <2>10, <3>1, <4>1, BusyStep
        <5> QED
          BY <1>2, <1>3, <5>2, <5>3
      <4>2. CASE job[th].cur # t
        <5>1. Busy(t, B)' <=> Busy(t, B)
          BY <3>1, <4>2, BusyStep
        <5> QED
          BY <1>2, <1>3, <3>1, <4>2, <5>1
      <4> QED
        BY <4>1, <4>2
    <3> QED
      BY <1>6, <1>7, <2>0, <3>1, <3>2
  <2>11. CASE th \in Worker /\ EndBody(th)
    <3>1. /\ job[th].pc = "body" /\ job[th].cur \in Task /\ UNCHANGED <<post, started>>
          /\ Sets(th, "gather", Root, job[th].new, job[th].k, job[th].it)
          /\ Calls(th, job[th].cur, "post")
          /\ result_set' = [result_set EXCEPT ![job[th].cur] = result_set[job[th].cur] - 1]
      BY <2>11, EndBodyIs DEF EndBody
    <3>2. PICK u \in Task : u = job[th].cur
      BY <3>1
    <3>3. /\ ~ Notifies(th, t) /\ (Notifies(th, t)' <=> t = u)
          /\ \A v \in Thread : v # th => top'[v] = top[v]
      BY <3>1, <3>2 DEF Calls, Notifies, NoFrame, AFrame
    <3>4. CASE u = t
      <4>1. P' = P \union {<<th, 1>>} /\ <<th, 1>> \notin P
        BY <3>3, <3>4, PostFramesStep DEF P
      <4>2. IsFiniteSet(P') /\ Cardinality(P') = d + 1
        BY <1>1, <4>1, FS_AddElement
      <4>3. Busy(t, B) /\ ~ Busy(t, B)'
        <5>1. job[th].cur = t /\ Sets(th, "gather", Root, job[th].new, job[th].k, job[th].it)
          BY <3>1, <3>2, <3>4
        <5>2. (Busy(t, B) <=> job[th].pc \in B) /\ (Busy(t, B)' <=> Root = t /\ "gather" \in B)
          BY <2>11, <5>1, BusyStep
        <5> QED
          BY <3>1, <5>2
      <4>4. t \in started
        <5>1. InPlace("cur", th, t) /\ th \in Holder
          BY <2>11, <3>2, <3>4 DEF InPlace, Holder
        <5> QED
          BY <3>1, <5>1 DEF IInv, StatusMatches, PlaceKind
      <4>5. Open(t) /\ ~ Open(t)'
        BY <1>2, <1>3, <3>1, <4>3, <4>4
      <4>6. result_set'[t] = result_set[t] - 1 /\ post'[t] = post[t]
        BY <3>1, <3>2, <3>4 DEF IInv, Types
      <4>7. Cardinality(E') = c
        BY <2>0
      <4> HIDE DEF c, d
      <4> QED
        BY <1>1, <2>0, <4>2, <4>5, <4>6, <4>7 DEF Goal
    <3>5. CASE u # t
      <4>1. P' = P
        BY <3>3, <3>5, PostFramesStep DEF P
      <4>2. Busy(t, B)' <=> Busy(t, B)
        BY <3>1, <3>2, <3>5, BusyStep, Constants
      <4>3. result_set'[t] = result_set[t] /\ post'[t] = post[t]
        BY <3>1, <3>2, <3>5 DEF IInv, Types
      <4> QED
        BY <1>2, <1>3, <1>6, <2>0, <3>1, <4>1, <4>2, <4>3
    <3> QED
      BY <3>4, <3>5
  <2>12. CASE NotifyPost(th)
    <3>1. /\ top[th].pc = "post" /\ top[th].task \in Task
          /\ post' = [post EXCEPT ![top[th].task] = post[top[th].task] - 1]
          /\ UNCHANGED <<result_set, started, job>>
          /\ \/ Turns(th, NoFrame)
             \/ Turns(th, AFrame(top[th].task, "waker", post[top[th].task] - 1))
      BY <2>12, NotifyPostIs DEF NotifyPost
    <3>2. PICK u \in Task : u = top[th].task
      BY <3>1
    <3>3. /\ ~ Notifies(th, t)' /\ (Notifies(th, t) <=> t = u)
          /\ \A v \in Thread : v # th => top'[v] = top[v]
      <4>1. top'[th].pc \in {"none", "followers", "waker"} /\ \A v \in Thread : v # th => top'[v] = top[v]
        <5>1. CASE Turns(th, NoFrame)
          BY <5>1 DEF Turns
        <5>2. CASE Turns(th, AFrame(top[th].task, "waker", post[top[th].task] - 1))
          <6>1. AFrame(top[th].task, "waker", post[top[th].task] - 1).pc = "waker" /\ NoFrame.pc = "none"
            BY DEF AFrame, NoFrame
          <6>2. AFrame(top[th].task, "waker", post[top[th].task] - 1) # NoFrame
            BY <6>1
          <6> QED
            BY <5>2, <6>1, <6>2 DEF Turns
        <5> QED
          BY <3>1, <5>1, <5>2
      <4> QED
        BY <3>1, <3>2, <4>1 DEF Notifies
    <3>4. CASE u = t
      <4>1. P' = P \ {<<th, 1>>} /\ <<th, 1>> \in P
        BY <3>3, <3>4, PostFramesStep DEF P
      <4>2. IsFiniteSet(P') /\ Cardinality(P') = d - 1
        BY <1>1, <4>1, FS_RemoveElement
      <4>3. post'[t] = post[t] - 1
        BY <3>1, <3>2, <3>4 DEF IInv, Types
      <4>4. Cardinality(E') = c
        BY <2>0
      <4>5. Open(t)' <=> Open(t)
        BY <1>9, <3>1
      <4> HIDE DEF c, d
      <4> QED
        BY <1>1, <2>0, <3>1, <4>2, <4>3, <4>4, <4>5 DEF Goal
    <3>5. CASE u # t
      <4>1. P' = P
        BY <3>3, <3>5, PostFramesStep DEF P
      <4>2. post'[t] = post[t]
        BY <3>1, <3>2, <3>5 DEF IInv, Types
      <4> QED
        BY <1>6, <1>9, <2>0, <3>1, <4>1, <4>2
    <3> QED
      BY <3>4, <3>5
  <2>13. CASE \/ NotifyGet(th) \/ ReadWaker(th) \/ DeleteFromResource(th)
              \/ ActivateTask(th) \/ CountDown(th) \/ FreeTask(th) \/ ReadDepth(th)
    <3>1. UNCHANGED <<post, result_set, started, job>>
      BY <2>13 DEF NotifyGet, ReadWaker, DeleteFromResource, ActivateTask, CountDown,
                   FreeTask, ReadDepth, objVars
    <3>2. /\ top[th].pc # "post"
          /\ \E h : Turns(th, h) /\ h.pc # "post"
      BY <2>13, QuietTurn
    <3>3. P' = P
      <4>1. ~ Notifies(th, t) /\ ~ Notifies(th, t)' /\ \A v \in Thread : v # th => top'[v] = top[v]
        BY <3>2 DEF Notifies, Turns
      <4> QED
        BY <4>1, PostFramesStep DEF P
    <3> QED
      BY <1>6, <1>9, <2>0, <3>1, <3>3
  <2> QED
    BY <1>11, <2>1, <2>2, <2>3, <2>4, <2>5, <2>6, <2>7, <2>8, <2>9, <2>10, <2>11, <2>12, <2>13
       DEF KeepsEdges
<1>12. CASE th \in Worker /\ Link(th)
  <2>1. /\ job[th].pc = "link" /\ UNCHANGED <<post, result_set, started, stack>>
        /\ Predecessor(th) \in Task /\ job[th].cur \in Task
        /\ Sets(th, "up", job[th].cur, job[th].new, job[th].k, job[th].it)
    BY <1>12, LinkIs DEF Link
  <2>2. PICK u \in Task : u = job[th].cur
    BY <2>1
  <2>3. PICK q \in Task : q = Predecessor(th)
    BY <2>1
  <2>4. PICK n : n = Len(followers[q]) + 1
    OBVIOUS
  <2>5. PendingAdds(q, n, PreOf(u))
    BY <1>12, <2>2, <2>3, <2>4, LinkPending
  <2>6. E' = E
    BY <1>4, <2>5, EdgesAdd DEF E
  <2>7. Open(t)' <=> Open(t)
    BY <1>8, <2>1
  <2> QED
    BY <1>6, <1>7, <2>1, <2>6, <2>7
<1>13. CASE NotifyFollower(th)
  <2>1. /\ top[th].task \in Task /\ top[th].i \in Nat /\ UNCHANGED <<post, result_set, started, job>>
        /\ top[th].pc = "followers"
        /\ LET g == followers[top[th].task][top[th].i]
           IN  /\ g.task \in Task
               /\ \/ /\ g = PreOf(g.task)
                     /\ \E h : Turns(th, h) /\ h.pc # "post"
                  \/ g = PostOf(g.task) /\ Nests(th, g.task)
    <3>1. ASSUME NEW k, NEW pc \in {"activate", "followers"}, NEW i PROVE AFrame(k, pc, i).pc # "post"
      BY DEF AFrame
    <3>2. UNCHANGED <<post, result_set, started, job>>
      BY Zenon, <1>13 DEF NotifyFollower
    <3> DEFINE f == top[th]
               g == followers[f.task][f.i]
    <3>3. /\ f.pc = "followers" /\ f.task \in Task /\ f.i \in Nat /\ g.task \in Task
          /\ \/ /\ g = PreOf(g.task)
                /\ \/ Turns(th, AFrame(f.task, "activate", f.i))
                   \/ Turns(th, AFrame(f.task, "followers", f.i - 1))
             \/ g = PostOf(g.task) /\ Nests(th, g.task)
      BY Zenon, <1>13, NotifyFollowerIs
    <3> HIDE DEF g
    <3>4. (\E h : Turns(th, h) /\ h.pc # "post") \/ (g = PostOf(g.task) /\ Nests(th, g.task))
      BY <3>1, <3>3
    <3> QED
      BY <3>1, <3>2, <3>3, <3>4 DEF g
  <2>2. PICK q \in Task : q = top[th].task
    BY <2>1
  <2>3. PICK n \in Nat : n = top[th].i
    BY <2>1
  <2>4. PICK u \in Task : u = followers[q][n].task
    BY Zenon, <2>1, <2>2, <2>3
  <2>5. \/ followers[q][n] = PreOf(u) /\ \E h : Turns(th, h) /\ h.pc # "post"
        \/ followers[q][n] = PostOf(u) /\ Nests(th, u)
    BY <2>1, <2>2, <2>3, <2>4
  <2>6. PendingDrops(q, n)
    BY <1>13, <2>2, <2>3, NotifyFollowerPending
  <2>7. Open(t)' <=> Open(t)
    BY <1>9, <2>1
  <2>8. CASE followers[q][n] = PostOf(t) /\ Nests(th, t)
    <3>1. <<q, n>> \in E /\ E' = E \ {<<q, n>>}
      BY <2>6, <2>8, EdgesDrop DEF E
    <3>2. IsFiniteSet(E') /\ Cardinality(E') = c - 1
      BY <1>1, <3>1, FS_RemoveElement
    <3>3. ~ Notifies(th, t) /\ Notifies(th, t)' /\ \A v \in Thread : v # th => top'[v] = top[v]
      BY SMTT(60), <2>1, <2>8 DEF Notifies, Nests, AFrame
    <3>4. P' = P \union {<<th, 1>>} /\ <<th, 1>> \notin P
      BY <3>3, PostFramesStep DEF P
    <3>5. IsFiniteSet(P') /\ Cardinality(P') = d + 1
      BY <1>1, <3>4, FS_AddElement
    <3> HIDE DEF c, d
    <3> QED
      BY <1>1, <2>1, <2>7, <3>2, <3>5 DEF Goal
  <2>9. CASE followers[q][n] # PostOf(t)
    <3>1. E' = E
      <4>1. PICK e : e = followers[q][n]
        OBVIOUS
      <4> QED
        BY <2>6, <2>9, <4>1, EdgesDrop DEF E
    <3>2. ~ Notifies(th, t) /\ ~ Notifies(th, t)' /\ \A v \in Thread : v # th => top'[v] = top[v]
      <4>1. CASE \E h : Turns(th, h) /\ h.pc # "post"
        BY <2>1, <4>1 DEF Notifies, Turns
      <4>2. CASE followers[q][n] = PostOf(u) /\ Nests(th, u)
        <5>1. u # t
          BY <2>9, <4>2
        <5> QED
          BY <2>1, <4>2, <5>1 DEF Notifies, Nests, AFrame
      <4> QED
        BY <2>5, <4>1, <4>2
    <3>3. P' = P
      BY <3>2, PostFramesStep DEF P
    <3> QED
      BY <1>6, <2>1, <2>7, <3>1, <3>3
  <2> QED
    BY <1>4, <2>5, <2>8, <2>9
<1> QED
  BY <1>10, <1>11, <1>12, <1>13 DEF Step

-----------------------------------------------------------------------------
(***************************************************************************)
(* Who carries a post-event to its followers.                              *)
(***************************************************************************)
CarriesSame == \A x \in Slot, q \in Task : Carries(x, q)' <=> Carries(x, q)

IsCarrier(f, q) ==
  /\ f.task = q
  /\ f.pc \in {"delete", "followers", "activate"} \/ (f.pc = "waker" /\ f.i = 0)

\* When the frame of one slot is replaced.
LEMMA TurnCarries ==
  ASSUME NEW y \in Slot, NEW h, \A x \in Slot : fr'[x] = IF x = y THEN h ELSE fr[x]
  PROVE  /\ \A x \in Slot : \A q : x # y => (Carries(x, q)' <=> Carries(x, q))
         /\ \A q : Carries(y, q)' <=> IsCarrier(h, q)
         /\ \A q : Carries(y, q) <=> IsCarrier(fr[y], q)
         /\ (\A q \in Task : IsCarrier(h, q) <=> IsCarrier(fr[y], q)) => CarriesSame
<1>1. ASSUME NEW x \in Slot, NEW q, x # y PROVE Carries(x, q)' <=> Carries(x, q)
  <2>1. fr'[x] = fr[x]
    BY <1>1
  <2> QED
    BY <2>1 DEF Carries
<1>2. \A q : Carries(y, q)' <=> IsCarrier(h, q)
  BY DEF Carries, IsCarrier
<1>3. \A q : Carries(y, q) <=> IsCarrier(fr[y], q)
  BY DEF Carries, IsCarrier
<1> QED
  BY <1>1, <1>2, <1>3 DEF CarriesSame

\* The steps of thread th after which the same threads carry the same events.
KeepsCarriers(th) ==
  \/ \E t \in Task, a \in AccessSeq : CreateTask(th, t, a)
  \/ Register(th) \/ EmplaceTask(th)
  \/ \E t \in Task : DropFuture(th, t)
  \/ th = Main /\ EndGet
  \/ th = Main /\ ((\E t \in Task : BeginGet(t)) \/ BeginBarrier \/ EndBarrier)
  \/ th \in Worker /\ \E t \in Task : PopNew(th, t) \/ PopReady(th, t)
  \/ th \in Worker /\ (LockUsers(th) \/ Scan(th) \/ Link(th) \/ CountEdge(th) \/ EndInit(th))
  \/ th \in Worker /\ Execute(th)
  \/ th \in Worker /\ EndBody(th)
  \/ NotifyGet(th) \/ ReadWaker(th) \/ DeleteFromResource(th) \/ NotifyFollower(th)
  \/ ActivateTask(th) \/ FreeTask(th) \/ ReadDepth(th)

\* Only notify on the post-event and its end change who carries what.
LEMMA CarrierSteps ==
  ASSUME NEW th \in Thread, Step(th)
  PROVE  KeepsCarriers(th) \/ NotifyPost(th) \/ CountDown(th)
BY DEF Step, KeepsEdges, KeepsCarriers

\* Those steps reach no event and leave no carrier behind.
LEMMA KeepsCarriersIs ==
  ASSUME IInv, NEW th \in Thread, KeepsCarriers(th)
  PROVE  CarriesSame /\ \A q \in Task : post'[q] = 0 <=> post[q] = 0
<1> DEFINE f == top[th]
<1>1. ASSUME UNCHANGED stack PROVE CarriesSame
  <2>1. fr' = fr
    BY <1>1, SameStack
  <2> QED
    BY <2>1 DEF CarriesSame, Carries
<1>2. ASSUME NEW t, NEW pc \in {"get", "post"}, Calls(th, t, pc) PROVE CarriesSame
  <2>1. /\ <<th, 1>> \in Slot /\ fr[<<th, 1>>] = NoFrame
        /\ \A x \in Slot : fr'[x] = IF x = <<th, 1>> THEN AFrame(t, pc, 0) ELSE fr[x]
    BY <1>2 DEF Calls
  <2>2. \A q : ~ IsCarrier(AFrame(t, pc, 0), q) /\ ~ IsCarrier(NoFrame, q)
    BY DEF IsCarrier, AFrame, NoFrame
  <2> QED
    BY <2>1, <2>2, TurnCarries
<1>3. ASSUME NEW h, Turns(th, h), \A q \in Task : IsCarrier(h, q) <=> IsCarrier(f, q) PROVE CarriesSame
  <2>1. TopSlot(th) \in Slot /\ f = fr[TopSlot(th)]
    BY TopFrame DEF IInv, Types
  <2>2. \A x \in Slot : fr'[x] = IF x = TopSlot(th) THEN h ELSE fr[x]
    BY <1>3 DEF Turns
  <2> HIDE DEF f
  <2>3. PICK y \in Slot : y = TopSlot(th)
    BY <2>1
  <2> QED
    BY <1>3, <2>1, <2>2, <2>3, TurnCarries
<1>4. ASSUME UNCHANGED post PROVE \A q \in Task : post'[q] = 0 <=> post[q] = 0
  BY <1>4
<1>5. ASSUME NEW t \in Task, NEW a \in AccessSeq, CreateTask(th, t, a)
      PROVE  CarriesSame /\ \A q \in Task : post'[q] = 0 <=> post[q] = 0
  <2>1. CarriesSame
    BY <1>1, <1>5 DEF CreateTask
  <2>2. CASE job[th].cur = Root
    BY <1>4, <1>5, <2>1, <2>2, CreateTaskIs
  <2>3. CASE job[th].cur # Root
    <3>1. /\ th \in Worker /\ job[th].pc = "body" /\ job[th].cur \in Task
          /\ post' = [post EXCEPT ![job[th].cur] = post[job[th].cur] + 1]
      BY <1>5, <2>3, CreateTaskIs, InProgramIs
    <3>2. PICK p \in Task : p = job[th].cur
      BY <3>1
    <3>3. Running(p)
      BY <3>1, <3>2 DEF Running
    <3>4. post[p] \in Nat /\ post[p] >= 1
      BY <3>3, PostPositive DEF IInv
    <3>5. post'[p] = post[p] + 1 /\ \A q \in Task : q # p => post'[q] = post[q]
      BY <3>1, <3>2 DEF IInv, Types
    <3>6. post'[p] # 0 /\ post[p] # 0
      BY <3>4, <3>5
    <3> QED
      BY <2>1, <3>5, <3>6
  <2> QED
    BY <2>2, <2>3
<1>6. CASE \/ Register(th) \/ EmplaceTask(th)
           \/ th = Main /\ ((\E t \in Task : BeginGet(t)) \/ BeginBarrier \/ EndBarrier)
           \/ th \in Worker /\ \E t \in Task : PopNew(th, t) \/ PopReady(th, t)
           \/ th \in Worker /\ (LockUsers(th) \/ Scan(th) \/ Link(th) \/ CountEdge(th) \/ EndInit(th))
           \/ th \in Worker /\ Execute(th)
  <2>1. UNCHANGED <<stack, post>>
    BY Zenon, <1>6 DEF Register, EmplaceTask, BeginGet, BeginBarrier, EndBarrier, PopNew, PopReady, LockUsers,
                Scan, Link, CountEdge, EndInit, Execute, objVars
  <2> QED
    BY <1>1, <1>4, <2>1
<1>7. CASE \E t \in Task : DropFuture(th, t)
  <2>1. PICK t \in Task : DropFuture(th, t)
    BY <1>7
  <2>2. Calls(th, t, "get") /\ UNCHANGED post
    BY <2>1, DropFutureIs DEF DropFuture
  <2> QED
    BY <1>2, <1>4, <2>2
<1>8. CASE th = Main /\ EndGet
  <2>1. Calls(th, job[Main].new, "get") /\ UNCHANGED post
    BY <1>8, EndGetIs DEF EndGet
  <2> QED
    BY <1>2, <1>4, <2>1
<1>9. CASE th \in Worker /\ EndBody(th)
  <2>1. Calls(th, job[th].cur, "post") /\ UNCHANGED post
    BY <1>9, EndBodyIs DEF EndBody
  <2> QED
    BY <1>2, <1>4, <2>1
<1>10. ASSUME NEW pc \in {"delete", "followers", "activate"}, NEW i, Turns(th, AFrame(f.task, pc, i)),
              f.pc \in {"delete", "followers", "activate"} \/ (f.pc = "waker" /\ f.i = 0)
       PROVE  CarriesSame
  <2>1. \A q : IsCarrier(AFrame(f.task, pc, i), q) <=> f.task = q
    BY DEF IsCarrier, AFrame
  <2>2. \A q : IsCarrier(f, q) <=> f.task = q
    BY <1>10 DEF IsCarrier
  <2> QED
    BY <1>3, <1>10, <2>1, <2>2
<1>11. ASSUME NEW t, NEW pc \in {"countdown", "depth"}, NEW i, NEW q
       PROVE  ~ IsCarrier(AFrame(t, pc, i), q) /\ ~ IsCarrier(NoFrame, q)
  BY DEF IsCarrier, AFrame, NoFrame
<1>12. /\ f.pc = "waker" /\ f.i = 1 => \A q : ~ IsCarrier(f, q)
       /\ f.pc \in {"get", "free", "depth"} => \A q : ~ IsCarrier(f, q)
  BY DEF IsCarrier
<1> HIDE DEF f
<1>13. CASE NotifyGet(th) \/ FreeTask(th) \/ ReadDepth(th)
  <2>1. UNCHANGED post
    BY <1>13 DEF NotifyGet, FreeTask, ReadDepth
  <2>2. /\ f.pc \in {"get", "free", "depth"}
        /\ \/ Turns(th, AFrame(f.task, "countdown", 0)) \/ Turns(th, AFrame(f.task, "depth", 0))
           \/ Turns(th, NoFrame)
    BY <1>13, NotifyGetIs, FreeTaskIs, ReadDepthIs DEF f
  <2> QED
    BY <1>3, <1>4, <1>11, <1>12, <2>1, <2>2
<1>14. CASE ReadWaker(th)
  <2>1. UNCHANGED post
    BY <1>14 DEF ReadWaker
  <2>2. /\ f.pc = "waker"
        /\ \/ f.i = 1 /\ Turns(th, NoFrame)
           \/ f.i = 0 /\ Turns(th, AFrame(f.task, "delete", Len(access[f.task])))
           \/ f.i = 0 /\ Turns(th, AFrame(f.task, "followers", Len(followers[f.task])))
    BY <1>14, ReadWakerIs DEF f
  <2>3. CASE f.i = 1 /\ Turns(th, NoFrame)
    BY <1>3, <1>4, <1>11, <1>12, <2>1, <2>2, <2>3
  <2>4. CASE f.i = 0
    BY <1>4, <1>10, <2>1, <2>2, <2>4
  <2> QED
    BY <2>2, <2>3, <2>4
<1>15. CASE DeleteFromResource(th)
  <2>1. UNCHANGED post
    BY <1>15 DEF DeleteFromResource
  <2>2. /\ f.pc = "delete" /\ f.task \in Task /\ f.i \in 1..Len(access[f.task])
        /\ f.i > 1 => Turns(th, AFrame(f.task, "delete", f.i - 1))
        /\ f.i = 1 => Turns(th, AFrame(f.task, "followers", Len(followers[f.task])))
    BY <1>15, DeleteIs DEF f
  <2>3. f.i > 1 \/ f.i = 1
    <3>1. Len(access[f.task]) \in Nat
      BY <2>2, AccessIs DEF IInv
    <3> QED
      BY <2>2, <3>1
  <2> QED
    BY <1>4, <1>10, <2>1, <2>2, <2>3
<1>16. CASE ActivateTask(th)
  <2>1. UNCHANGED post
    BY <1>16 DEF ActivateTask
  <2>2. f.pc = "activate" /\ Turns(th, AFrame(f.task, "followers", f.i - 1))
    BY <1>16, ActivateTaskIs DEF f
  <2> QED
    BY <1>4, <1>10, <2>1, <2>2
<1>17. CASE NotifyFollower(th)
  <2>1. UNCHANGED post
    BY Zenon, <1>17 DEF NotifyFollower
  <2>2. /\ f.pc = "followers" /\ f.task \in Task
        /\ \/ Turns(th, AFrame(f.task, "activate", f.i)) \/ Turns(th, AFrame(f.task, "followers", f.i - 1))
           \/ \E u \in Task : Nests(th, u)
    BY Zenon, <1>17, NotifyFollowerIs DEF f
  <2>3. ASSUME NEW u \in Task, Nests(th, u) PROVE CarriesSame
    <3>1. TopSlot(th) \in Slot /\ f = fr[TopSlot(th)]
      BY TopFrame DEF IInv, Types, f
    <3>2. PICK y \in Slot : y = <<th, Len(stack[th]) + 1>>
      BY <2>3 DEF Nests
    <3>3. PICK z \in Slot : z = TopSlot(th)
      BY <3>1
    <3>4. /\ y # z /\ fr[y] = NoFrame /\ fr[z] = f
          /\ \A x \in Slot : fr'[x] = IF x = y THEN AFrame(u, "post", 0)
                                      ELSE IF x = z THEN AFrame(f.task, "followers", f.i - 1)
                                      ELSE fr[x]
      BY <2>3, <3>1, <3>2, <3>3 DEF Nests, f
    <3>5. ASSUME NEW x \in Slot, NEW q \in Task PROVE Carries(x, q)' <=> Carries(x, q)
      <4>1. CASE x = y
        <5>1. fr'[x] = AFrame(u, "post", 0) /\ fr[x] = NoFrame
          BY <3>4, <4>1
        <5> QED
          BY <5>1 DEF Carries, AFrame, NoFrame
      <4>2. CASE x = z
        <5>1. fr'[x] = AFrame(f.task, "followers", f.i - 1) /\ fr[x] = f
          BY <3>4, <4>2
        <5> QED
          BY <2>2, <5>1 DEF Carries, AFrame
      <4>3. CASE x # y /\ x # z
        <5>1. fr'[x] = fr[x]
          BY <3>4, <4>3
        <5> QED
          BY <5>1 DEF Carries
      <4> QED
        BY <4>1, <4>2, <4>3
    <3> QED
      BY <3>5 DEF CarriesSame
  <2>4. CASE Turns(th, AFrame(f.task, "activate", f.i)) \/ Turns(th, AFrame(f.task, "followers", f.i - 1))
    BY <1>4, <1>10, <2>1, <2>2, <2>4
  <2> QED
    BY <1>4, <2>1, <2>2, <2>3, <2>4
<1> QED
  BY <1>5, <1>6, <1>7, <1>8, <1>9, <1>13, <1>14, <1>15, <1>16, <1>17 DEF KeepsCarriers

\* notify reaches the post-event, or not.
LEMMA NotifyPostCarries ==
  ASSUME IInv, NEW th \in Thread, NotifyPost(th), NEW t, t = top[th].task, NEW y, y = TopSlot(th)
  PROVE  /\ t \in Task /\ y \in Slot /\ post[t] # 0
         /\ \A q \in Task : q # t => post'[q] = post[q]
         /\ post[t] # 1 => CarriesSame /\ post'[t] # 0
         /\ post[t] = 1 => /\ post'[t] = 0
                           /\ \A x \in Slot, q \in Task :
                                Carries(x, q)' <=> Carries(x, q) \/ (x = y /\ q = t)
                           /\ fr'[y].pc = "waker"
<1>1. /\ top[th].pc = "post" /\ t \in Task /\ post[t] \in Nat /\ post[t] >= 1
      /\ post' = [post EXCEPT ![t] = post[t] - 1]
      /\ post[t] > 2 => Turns(th, NoFrame)
      /\ ~ (post[t] > 2) => Turns(th, AFrame(t, "waker", post[t] - 1))
  BY NotifyPostIs
<1>2. y \in Slot /\ fr[y] = top[th]
  BY TopFrame DEF IInv, Types
<1>3. /\ \A q \in Task : q # t => post'[q] = post[q]
      /\ post'[t] = post[t] - 1
  BY <1>1 DEF IInv, Types
<1>4. \A q : ~ IsCarrier(fr[y], q)
  BY <1>1, <1>2 DEF IsCarrier
<1>5. ASSUME post[t] = 1
      PROVE  /\ \A x \in Slot, q \in Task : Carries(x, q)' <=> Carries(x, q) \/ (x = y /\ q = t)
             /\ fr'[y].pc = "waker"
  <2>1. \A x \in Slot : fr'[x] = IF x = y THEN AFrame(t, "waker", 0) ELSE fr[x]
    BY <1>1, <1>5 DEF Turns
  <2>2. \A q : IsCarrier(AFrame(t, "waker", 0), q) <=> q = t
    BY DEF IsCarrier, AFrame
  <2>3. fr'[y].pc = "waker"
    BY <1>2, <2>1 DEF AFrame
  <2> QED
    BY <1>2, <1>4, <2>1, <2>2, <2>3, TurnCarries
<1>6. ASSUME post[t] # 1 PROVE CarriesSame
  <2>1. CASE post[t] > 2
    <3>1. \A x \in Slot : fr'[x] = IF x = y THEN NoFrame ELSE fr[x]
      BY <1>1, <2>1 DEF Turns
    <3>2. \A q : ~ IsCarrier(NoFrame, q)
      BY DEF IsCarrier, NoFrame
    <3> QED
      BY <1>2, <1>4, <3>1, <3>2, TurnCarries
  <2>2. CASE ~ (post[t] > 2)
    <3>0. post[t] - 1 = 1
      BY <1>1, <1>6, <2>2
    <3>1. \A x \in Slot : fr'[x] = IF x = y THEN AFrame(t, "waker", 1) ELSE fr[x]
      BY <1>1, <2>2, <3>0 DEF Turns
    <3>2. \A q : ~ IsCarrier(AFrame(t, "waker", 1), q)
      BY DEF IsCarrier, AFrame
    <3> QED
      BY <1>2, <1>4, <3>1, <3>2, TurnCarries
  <2> QED
    BY <2>1, <2>2
<1> QED
  BY <1>1, <1>2, <1>3, <1>5, <1>6

\* The end of a notification, of either event.
LEMMA CountDownCarries ==
  ASSUME IInv, NEW th \in Thread, CountDown(th), NEW t, t = top[th].task, NEW y, y = TopSlot(th)
  PROVE  /\ t \in Task /\ y \in Slot /\ fr[y] = top[th] /\ post' = post
         /\ top[th].pc = "countdown" \/ (top[th].pc = "followers" /\ top[th].i = 0)
         /\ top[th].pc = "countdown" => CarriesSame
         /\ top[th].pc = "followers" =>
              /\ Carries(y, t)
              /\ \A x \in Slot, q \in Task : Carries(x, q)' <=> Carries(x, q) /\ ~ (x = y /\ q = t)
<1>1. /\ t \in Task /\ (top[th].pc = "countdown" \/ (top[th].pc = "followers" /\ top[th].i = 0))
      /\ Turns(th, AFrame(t, "free", 0)) \/ Turns(th, NoFrame)
  BY CountDownIs
<1>2. y \in Slot /\ fr[y] = top[th] /\ post' = post
  BY TopFrame DEF IInv, Types, CountDown
<1>3. PICK h \in {AFrame(t, "free", 0), NoFrame} :
        \A x \in Slot : fr'[x] = IF x = y THEN h ELSE fr[x]
  BY <1>1 DEF Turns
<1>4. \A q : ~ IsCarrier(h, q)
  BY DEF IsCarrier, AFrame, NoFrame
<1>5. ASSUME top[th].pc = "countdown" PROVE CarriesSame
  <2>1. \A q : ~ IsCarrier(fr[y], q)
    BY <1>2, <1>5 DEF IsCarrier
  <2> QED
    BY <1>2, <1>3, <1>4, <2>1, TurnCarries
<1>6. ASSUME top[th].pc = "followers"
      PROVE  /\ Carries(y, t)
             /\ \A x \in Slot, q \in Task : Carries(x, q)' <=> Carries(x, q) /\ ~ (x = y /\ q = t)
  <2>1. \A q : IsCarrier(fr[y], q) <=> q = t
    BY <1>2, <1>6 DEF IsCarrier
  <2> QED
    BY SMTT(60), <1>2, <1>3, <1>4, <2>1, TurnCarries
<1> QED
  BY <1>1, <1>2, <1>5, <1>6

\* A post-event is reached once.
LEMMA CarriedOnceStep ==
  ASSUME IInv, NEW th \in Thread, Step(th)
  PROVE  CarriedOnce'
<1>1. CarriedOnce
  BY DEF IInv
<1>2. ASSUME CarriesSame, \A q \in Task : post[q] = 0 => post'[q] = 0 PROVE CarriedOnce'
  BY <1>1, <1>2 DEF CarriedOnce, CarriesSame
<1>3. CASE KeepsCarriers(th)
  BY <1>2, <1>3, KeepsCarriersIs
<1>4. CASE NotifyPost(th)
  <2>1. PICK t : t = top[th].task
    OBVIOUS
  <2>2. PICK y : y = TopSlot(th)
    OBVIOUS
  <2>3. /\ t \in Task /\ y \in Slot /\ post[t] # 0
        /\ \A q \in Task : q # t => post'[q] = post[q]
        /\ post[t] # 1 => CarriesSame /\ post'[t] # 0
        /\ post[t] = 1 => /\ post'[t] = 0
                          /\ \A x \in Slot, q \in Task :
                               Carries(x, q)' <=> Carries(x, q) \/ (x = y /\ q = t)
    BY <1>4, <2>1, <2>2, NotifyPostCarries
  <2>4. CASE post[t] # 1
    BY <1>2, <2>3, <2>4
  <2>5. CASE post[t] = 1
    <3>1. \A x \in Slot : ~ Carries(x, t)
      BY <1>1, <2>3 DEF CarriedOnce
    <3>2. \A q \in Task : \A x, z \in Slot : Carries(x, q)' /\ Carries(z, q)' => x = z
      BY <1>1, <2>3, <2>5, <3>1 DEF CarriedOnce
    <3>3. \A q \in Task : \A x \in Slot : Carries(x, q)' => post'[q] = 0
      BY <1>1, <2>3, <2>5 DEF CarriedOnce
    <3> QED
      BY <3>2, <3>3 DEF CarriedOnce
  <2> QED
    BY <2>4, <2>5
<1>5. CASE CountDown(th)
  <2>1. PICK t : t = top[th].task
    OBVIOUS
  <2>2. PICK y : y = TopSlot(th)
    OBVIOUS
  <2>3. post' = post /\ \A x \in Slot, q \in Task : Carries(x, q)' => Carries(x, q)
    BY <1>5, <2>1, <2>2, CountDownCarries DEF CarriesSame
  <2> QED
    BY <1>1, <2>3 DEF CarriedOnce
<1> QED
  BY <1>3, <1>4, <1>5, CarrierSteps

-----------------------------------------------------------------------------
(***************************************************************************)
(* The result-get-event and the removal of a task.                         *)
(***************************************************************************)
Has(x, q, pc) == fr[x].task = q /\ fr[x].pc = pc

GetPcs == {"get", "countdown", "free"}

HasSame == \A x \in Slot, q \in Task : \A pc \in GetPcs : Has(x, q, pc)' <=> Has(x, q, pc)

\* When the frame of one slot is replaced.
LEMMA TurnHas ==
  ASSUME NEW y \in Slot, NEW h, \A x \in Slot : fr'[x] = IF x = y THEN h ELSE fr[x]
  PROVE  /\ \A x \in Slot : \A q, pc : x # y => (Has(x, q, pc)' <=> Has(x, q, pc))
         /\ \A q, pc : Has(y, q, pc)' <=> h.task = q /\ h.pc = pc
         /\ fr[y].pc \notin GetPcs /\ h.pc \notin GetPcs => HasSame
<1>1. ASSUME NEW x \in Slot, NEW q, NEW pc, x # y PROVE Has(x, q, pc)' <=> Has(x, q, pc)
  <2>1. fr'[x] = fr[x]
    BY <1>1
  <2> QED
    BY <2>1 DEF Has
<1>2. \A q, pc : Has(y, q, pc)' <=> h.task = q /\ h.pc = pc
  BY DEF Has
<1>3. \A q, pc : Has(y, q, pc) => fr[y].pc = pc
  BY DEF Has
<1> QED
  BY <1>1, <1>2, <1>3 DEF HasSame

\* The steps that have nothing to do with the result-get-event or the removal.
KeepsGet(th) ==
  \/ \E t \in Task, a \in AccessSeq : CreateTask(th, t, a)
  \/ Register(th) \/ EmplaceTask(th)
  \/ th = Main /\ ((\E t \in Task : BeginGet(t)) \/ BeginBarrier \/ EndBarrier)
  \/ th \in Worker /\ \E t \in Task : PopNew(th, t) \/ PopReady(th, t)
  \/ th \in Worker /\ (LockUsers(th) \/ Scan(th) \/ Link(th) \/ CountEdge(th) \/ EndInit(th))
  \/ th \in Worker /\ Execute(th)
  \/ th \in Worker /\ EndBody(th)
  \/ NotifyPost(th) \/ ReadWaker(th) \/ DeleteFromResource(th) \/ NotifyFollower(th)
  \/ ActivateTask(th) \/ ReadDepth(th)

\* The others.
LEMMA GetSteps ==
  ASSUME NEW th \in Thread, Step(th)
  PROVE  \/ KeepsGet(th) \/ (\E t \in Task : DropFuture(th, t)) \/ (th = Main /\ EndGet)
         \/ NotifyGet(th) \/ CountDown(th) \/ FreeTask(th)
BY DEF Step, KeepsEdges, KeepsGet

\* They leave those notifications alone.
LEMMA KeepsGetIs ==
  ASSUME IInv, NEW th \in Thread, KeepsGet(th)
  PROVE  HasSame /\ UNCHANGED <<result_get, removal_countdown>>
<1> DEFINE f == top[th]
<1>1. ASSUME UNCHANGED stack PROVE HasSame
  <2>1. fr' = fr
    BY <1>1, SameStack
  <2> QED
    BY <2>1 DEF HasSame, Has
<1>2. ASSUME NEW t, NEW pc, pc \notin GetPcs, Calls(th, t, pc) PROVE HasSame
  <2>1. /\ <<th, 1>> \in Slot /\ fr[<<th, 1>>] = NoFrame
        /\ \A x \in Slot : fr'[x] = IF x = <<th, 1>> THEN AFrame(t, pc, 0) ELSE fr[x]
    BY <1>2 DEF Calls
  <2>2. NoFrame.pc \notin GetPcs /\ AFrame(t, pc, 0).pc \notin GetPcs
    BY <1>2 DEF AFrame, NoFrame, GetPcs
  <2> QED
    BY <2>1, <2>2, TurnHas
<1>3. ASSUME NEW h, Turns(th, h), h.pc \notin GetPcs, f.pc \notin GetPcs PROVE HasSame
  <2>1. TopSlot(th) \in Slot /\ f = fr[TopSlot(th)]
    BY TopFrame DEF IInv, Types
  <2>2. PICK y \in Slot : y = TopSlot(th)
    BY <2>1
  <2>3. \A x \in Slot : fr'[x] = IF x = y THEN h ELSE fr[x]
    BY <1>3, <2>2 DEF Turns
  <2> QED
    BY <1>3, <2>1, <2>2, <2>3, TurnHas
<1>4. UNCHANGED <<result_get, removal_countdown>>
  BY Zenon DEF KeepsGet, CreateTask, Register, EmplaceTask, BeginGet, BeginBarrier, EndBarrier, PopNew, PopReady,
         LockUsers, Scan, Link, CountEdge, EndInit, Execute, EndBody, NotifyPost, ReadWaker,
         DeleteFromResource, NotifyFollower, ActivateTask, ReadDepth, objVars
<1>5. CASE \/ \E t \in Task, a \in AccessSeq : CreateTask(th, t, a)
           \/ Register(th) \/ EmplaceTask(th)
           \/ th = Main /\ ((\E t \in Task : BeginGet(t)) \/ BeginBarrier \/ EndBarrier)
           \/ th \in Worker /\ \E t \in Task : PopNew(th, t) \/ PopReady(th, t)
           \/ th \in Worker /\ (LockUsers(th) \/ Scan(th) \/ Link(th) \/ CountEdge(th) \/ EndInit(th))
           \/ th \in Worker /\ Execute(th)
  <2>1. UNCHANGED stack
    BY Zenon, <1>5 DEF CreateTask, Register, EmplaceTask, BeginGet, BeginBarrier, EndBarrier, PopNew, PopReady,
                LockUsers, Scan, Link, CountEdge, EndInit, Execute
  <2> QED
    BY <1>1, <1>4, <2>1
<1>6. CASE th \in Worker /\ EndBody(th)
  <2>1. Calls(th, job[th].cur, "post")
    BY <1>6, EndBodyIs
  <2> QED
    BY <1>2, <1>4, <2>1 DEF GetPcs
<1>7. ASSUME NEW t, NEW pc \in {"waker", "delete", "followers", "activate"}, NEW i
      PROVE  AFrame(t, pc, i).pc \notin GetPcs
  BY DEF AFrame, GetPcs
<1>8. NoFrame.pc \notin GetPcs
  BY DEF NoFrame, GetPcs
<1>9. f.pc \in {"post", "waker", "delete", "followers", "activate", "depth"} => f.pc \notin GetPcs
  BY DEF GetPcs
<1> HIDE DEF f
<1>10. CASE NotifyPost(th)
  <2>1. f.pc = "post" /\ (Turns(th, NoFrame) \/ Turns(th, AFrame(f.task, "waker", post[f.task] - 1)))
    BY <1>10, NotifyPostIs DEF f
  <2> QED
    BY <1>3, <1>4, <1>7, <1>8, <1>9, <2>1
<1>11. CASE ReadWaker(th)
  <2>1. /\ f.pc = "waker"
        /\ \/ Turns(th, NoFrame) \/ Turns(th, AFrame(f.task, "delete", Len(access[f.task])))
           \/ Turns(th, AFrame(f.task, "followers", Len(followers[f.task])))
    BY <1>11, ReadWakerIs DEF f
  <2> QED
    BY <1>3, <1>4, <1>7, <1>8, <1>9, <2>1
<1>12. CASE DeleteFromResource(th)
  <2>1. /\ f.pc = "delete" /\ f.task \in Task /\ f.i \in 1..Len(access[f.task])
        /\ f.i > 1 => Turns(th, AFrame(f.task, "delete", f.i - 1))
        /\ f.i = 1 => Turns(th, AFrame(f.task, "followers", Len(followers[f.task])))
    BY <1>12, DeleteIs DEF f
  <2>2. f.i > 1 \/ f.i = 1
    <3>1. Len(access[f.task]) \in Nat
      BY <2>1, AccessIs DEF IInv
    <3> QED
      BY <2>1, <3>1
  <2> QED
    BY <1>3, <1>4, <1>7, <1>9, <2>1, <2>2
<1>13. CASE ActivateTask(th)
  <2>1. f.pc = "activate" /\ Turns(th, AFrame(f.task, "followers", f.i - 1))
    BY <1>13, ActivateTaskIs DEF f
  <2> QED
    BY <1>3, <1>4, <1>7, <1>9, <2>1
<1>14. CASE ReadDepth(th)
  <2>1. f.pc = "depth" /\ Turns(th, NoFrame)
    BY <1>14, ReadDepthIs DEF f
  <2> QED
    BY <1>3, <1>4, <1>8, <1>9, <2>1
<1>15. CASE NotifyFollower(th)
  <2>1. /\ f.pc = "followers"
        /\ \/ Turns(th, AFrame(f.task, "activate", f.i)) \/ Turns(th, AFrame(f.task, "followers", f.i - 1))
           \/ \E u \in Task : Nests(th, u)
    BY Zenon, <1>15, NotifyFollowerIs DEF f
  <2>2. ASSUME NEW u \in Task, Nests(th, u) PROVE HasSame
    <3>1. TopSlot(th) \in Slot /\ f = fr[TopSlot(th)]
      BY TopFrame DEF IInv, Types, f
    <3>2. PICK y \in Slot : y = <<th, Len(stack[th]) + 1>>
      BY <2>2 DEF Nests
    <3>3. PICK z \in Slot : z = TopSlot(th)
      BY <3>1
    <3>4. /\ y # z /\ fr[y] = NoFrame /\ fr[z] = f
          /\ \A x \in Slot : fr'[x] = IF x = y THEN AFrame(u, "post", 0)
                                      ELSE IF x = z THEN AFrame(f.task, "followers", f.i - 1)
                                      ELSE fr[x]
      BY <2>2, <3>1, <3>2, <3>3 DEF Nests, f
    <3>5. ASSUME NEW x \in Slot, NEW q \in Task, NEW pc \in GetPcs PROVE Has(x, q, pc)' <=> Has(x, q, pc)
      <4>1. CASE x = y
        <5>1. fr'[x] = AFrame(u, "post", 0) /\ fr[x] = NoFrame
          BY <3>4, <4>1
        <5> QED
          BY <5>1 DEF Has, AFrame, NoFrame, GetPcs
      <4>2. CASE x = z
        <5>1. fr'[x] = AFrame(f.task, "followers", f.i - 1) /\ fr[x] = f
          BY <3>4, <4>2
        <5> QED
          BY <2>1, <5>1 DEF Has, AFrame, GetPcs
      <4>3. CASE x # y /\ x # z
        <5>1. fr'[x] = fr[x]
          BY <3>4, <4>3
        <5> QED
          BY <5>1 DEF Has
      <4> QED
        BY <4>1, <4>2, <4>3
    <3> QED
      BY <3>5 DEF HasSame
  <2>3. CASE Turns(th, AFrame(f.task, "activate", f.i)) \/ Turns(th, AFrame(f.task, "followers", f.i - 1))
    BY <1>3, <1>4, <1>7, <1>9, <2>1, <2>3
  <2> QED
    BY <1>4, <2>1, <2>2, <2>3
<1> QED
  BY <1>5, <1>6, <1>10, <1>11, <1>12, <1>13, <1>14, <1>15 DEF KeepsGet

\* A Future goes: its task gets the one notification of the result-get-event.
GetBegins(th, t) ==
  /\ t \in Task /\ future[t] = "held" /\ future' = [future EXCEPT ![t] = "gone"]
  /\ Calls(th, t, "get")
  /\ UNCHANGED <<life, result_get, removal_countdown, post>>

\* Both ways a Future goes begin that notification.
LEMMA GetBeginsIs ==
  ASSUME IInv, NEW th \in Thread, (\E t \in Task : DropFuture(th, t)) \/ (th = Main /\ EndGet)
  PROVE  \E t \in Task : GetBegins(th, t)
<1>1. CASE \E t \in Task : DropFuture(th, t)
  <2>1. PICK t \in Task : DropFuture(th, t)
    BY <1>1
  <2>2. GetBegins(th, t)
    BY <2>1, DropFutureIs DEF GetBegins, DropFuture
  <2> QED
    BY <2>2
<1>2. CASE th = Main /\ EndGet
  <2>1. PICK t \in Task : t = job[Main].new
    BY <1>2, EndGetIs
  <2>2. future[t] = "held" /\ future' = [future EXCEPT ![t] = "gone"] /\ Calls(th, t, "get")
    BY <1>2, <2>1, EndGetIs
  <2>3. GetBegins(th, t)
    BY <1>2, <2>2 DEF GetBegins, EndGet
  <2> QED
    BY <2>3
<1> QED
  BY <1>1, <1>2

\* What FutureMatches says of the notifications, by Has.
LEMMA FutureMatchesIs ==
  FutureMatches <=>
    \A q \in Task :
      /\ life[q] = "unborn" => future[q] = "none"
      /\ future[q] # "gone" => result_get[q] = 1
      /\ result_get[q] \in {0, 1}
      /\ \A x \in Slot : /\ Has(x, q, "get") => future[q] = "gone" /\ result_get[q] = 1
                         /\ Has(x, q, "countdown") => result_get[q] = 0
      /\ \A x, y \in Slot : /\ Has(x, q, "get") \/ Has(x, q, "countdown")
                            /\ Has(y, q, "get") \/ Has(y, q, "countdown")
                            => x = y
BY DEF FutureMatches, Has

\* The result-get-event is notified once.
LEMMA FutureMatchesStep ==
  ASSUME IInv, NEW th \in Thread, Step(th)
  PROVE  FutureMatches'
<1> DEFINE FM == \A q \in Task :
      /\ life[q] = "unborn" => future[q] = "none"
      /\ future[q] # "gone" => result_get[q] = 1
      /\ result_get[q] \in {0, 1}
      /\ \A x \in Slot : /\ Has(x, q, "get") => future[q] = "gone" /\ result_get[q] = 1
                         /\ Has(x, q, "countdown") => result_get[q] = 0
      /\ \A x, y \in Slot : /\ Has(x, q, "get") \/ Has(x, q, "countdown")
                            /\ Has(y, q, "get") \/ Has(y, q, "countdown")
                            => x = y
<1>1. Types /\ FM
  BY FutureMatchesIs DEF IInv
<1>2. SUFFICES FM'
  BY FutureMatchesIs, PTL
<1>3. CASE KeepsGet(th)
  <2>1. HasSame /\ result_get' = result_get
    BY <1>3, KeepsGetIs
  <2>2. \A q \in Task : /\ life'[q] = "unborn" => future'[q] = "none"
                        /\ future'[q] # "gone" <=> future[q] # "gone"
    <3>1. CASE \E t \in Task, a \in AccessSeq : CreateTask(th, t, a)
      <4>1. PICK t \in Task, a \in AccessSeq : CreateTask(th, t, a)
        BY <3>1
      <4>2. life' = [life EXCEPT ![t] = "alive"] /\ future' = future
        BY <4>1 DEF CreateTask
      <4> QED
        BY <1>1, <4>2 DEF Types
    <3>2. CASE EmplaceTask(th)
      <4>1. PICK t \in Task : t = job[th].new
        BY <3>2, EmplaceTaskIs
      <4>2. life[t] # "unborn" /\ future[t] = "none" /\ future' = [future EXCEPT ![t] = "held"]
        BY <3>2, <4>1, EmplaceTaskIs
      <4>3. life' = life
        BY <3>2 DEF EmplaceTask
      <4> QED
        BY <1>1, <4>2, <4>3 DEF Types
    <3>3. CASE UNCHANGED <<life, future>>
      BY <1>1, <3>3
    <3>4. CASE th = Main /\ ((\E t \in Task : BeginGet(t)) \/ BeginBarrier \/ EndBarrier)
      BY <3>3, <3>4 DEF BeginGet, BeginBarrier, EndBarrier, objVars
    <3>5. CASE \/ Register(th)
               \/ th \in Worker /\ \E t \in Task : PopNew(th, t) \/ PopReady(th, t)
               \/ th \in Worker /\ (LockUsers(th) \/ Scan(th) \/ Link(th) \/ CountEdge(th) \/ EndInit(th))
      BY Zenon, <3>3, <3>5 DEF Register, PopNew, PopReady, LockUsers, Scan, Link, CountEdge, EndInit, objVars
    <3>6. CASE \/ th \in Worker /\ Execute(th)
               \/ th \in Worker /\ EndBody(th)
               \/ NotifyPost(th) \/ ReadWaker(th) \/ DeleteFromResource(th) \/ NotifyFollower(th)
               \/ ActivateTask(th) \/ ReadDepth(th)
      BY Zenon, <3>3, <3>6 DEF Execute, EndBody, NotifyPost, ReadWaker, DeleteFromResource, NotifyFollower,
         ActivateTask, ReadDepth, objVars
    <3> QED
      BY <1>3, <3>1, <3>2, <3>4, <3>5, <3>6 DEF KeepsGet
  <2>3. \A x \in Slot, q \in Task : /\ Has(x, q, "get")' <=> Has(x, q, "get")
                                    /\ Has(x, q, "countdown")' <=> Has(x, q, "countdown")
    BY <2>1 DEF HasSame, GetPcs
  <2> QED
    BY <1>1, <2>1, <2>2, <2>3
<1>4. CASE (\E t \in Task : DropFuture(th, t)) \/ (th = Main /\ EndGet)
  <2>1. PICK t \in Task : GetBegins(th, t)
    BY <1>4, GetBeginsIs
  <2>2. PICK y \in Slot : y = <<th, 1>>
    BY <2>1 DEF GetBegins, Calls
  <2>3. fr[y] = NoFrame /\ \A x \in Slot : fr'[x] = IF x = y THEN AFrame(t, "get", 0) ELSE fr[x]
    BY <2>1, <2>2 DEF GetBegins, Calls
  <2>4. /\ \A x \in Slot : \A q, pc : x # y => (Has(x, q, pc)' <=> Has(x, q, pc))
        /\ \A q, pc : Has(y, q, pc)' <=> q = t /\ pc = "get"
    <3>1. AFrame(t, "get", 0).task = t /\ AFrame(t, "get", 0).pc = "get"
      BY DEF AFrame
    <3> QED
      BY <2>3, <3>1, TurnHas
  <2>5. \A x \in Slot : ~ Has(x, t, "get") /\ ~ Has(x, t, "countdown")
    BY <1>1, <2>1 DEF GetBegins
  <2>6. life' = life /\ result_get' = result_get /\ life[t] # "unborn" /\ result_get[t] = 1
        /\ future' = [future EXCEPT ![t] = "gone"]
    BY <1>1, <2>1 DEF GetBegins
  <2>7. \A q \in Task : future'[q] = IF q = t THEN "gone" ELSE future[q]
    BY <1>1, <2>6 DEF Types
  <2> HIDE DEF FM
  <2>8. ASSUME NEW q \in Task
        PROVE  /\ life'[q] = "unborn" => future'[q] = "none"
               /\ future'[q] # "gone" => result_get'[q] = 1
               /\ result_get'[q] \in {0, 1}
               /\ \A x \in Slot : /\ Has(x, q, "get")' => future'[q] = "gone" /\ result_get'[q] = 1
                                  /\ Has(x, q, "countdown")' => result_get'[q] = 0
               /\ \A x, z \in Slot : /\ Has(x, q, "get")' \/ Has(x, q, "countdown")'
                                     /\ Has(z, q, "get")' \/ Has(z, q, "countdown")'
                                     => x = z
    <3>1. CASE q = t
      BY <1>1, <2>4, <2>5, <2>6, <2>7, <3>1 DEF FM
    <3>2. CASE q # t
      BY <1>1, <2>4, <2>6, <2>7, <3>2 DEF FM
    <3> QED
      BY <3>1, <3>2
  <2> QED
    BY <2>8 DEF FM
<1>5. CASE NotifyGet(th)
  <2>1. PICK t \in Task : t = top[th].task
    BY <1>5, NotifyGetIs
  <2>2. PICK y \in Slot : y = TopSlot(th) /\ fr[y] = top[th] /\ top[th].pc = "get"
    BY <1>1, <1>5, InTop DEF NotifyGet
  <2>3. /\ \A x \in Slot : fr'[x] = IF x = y THEN AFrame(t, "countdown", 0) ELSE fr[x]
        /\ result_get' = [result_get EXCEPT ![t] = result_get[t] - 1]
    BY <1>5, <2>1, <2>2, NotifyGetIs DEF Turns
  <2>4. /\ \A x \in Slot : \A q, pc : x # y => (Has(x, q, pc)' <=> Has(x, q, pc))
        /\ \A q, pc : Has(y, q, pc)' <=> q = t /\ pc = "countdown"
    <3>1. AFrame(t, "countdown", 0).task = t /\ AFrame(t, "countdown", 0).pc = "countdown"
      BY DEF AFrame
    <3> QED
      BY <2>3, <3>1, TurnHas
  <2>5. Has(y, t, "get") /\ \A q \in Task : q # t => ~ Has(y, q, "get") /\ ~ Has(y, q, "countdown")
    BY <2>1, <2>2 DEF Has
  <2>6. future[t] = "gone" /\ result_get[t] = 1
    BY <1>1, <2>5
  <2>7. life' = life /\ future' = future
    BY <1>5 DEF NotifyGet
  <2>8. \A q \in Task : result_get'[q] = IF q = t THEN 0 ELSE result_get[q]
    BY <1>1, <2>3, <2>6 DEF Types
  <2>10. \A x \in Slot : x # y => ~ Has(x, t, "get") /\ ~ Has(x, t, "countdown")
    BY <1>1, <2>5
  <2> HIDE DEF FM
  <2>9. ASSUME NEW q \in Task
        PROVE  /\ life'[q] = "unborn" => future'[q] = "none"
               /\ future'[q] # "gone" => result_get'[q] = 1
               /\ result_get'[q] \in {0, 1}
               /\ \A x \in Slot : /\ Has(x, q, "get")' => future'[q] = "gone" /\ result_get'[q] = 1
                                  /\ Has(x, q, "countdown")' => result_get'[q] = 0
               /\ \A x, z \in Slot : /\ Has(x, q, "get")' \/ Has(x, q, "countdown")'
                                     /\ Has(z, q, "get")' \/ Has(z, q, "countdown")'
                                     => x = z
    <3>1. CASE q = t
      BY <1>1, <2>4, <2>10, <2>6, <2>7, <2>8, <3>1 DEF FM
    <3>2. CASE q # t
      BY <1>1, <2>4, <2>5, <2>7, <2>8, <3>2 DEF FM
    <3> QED
      BY <3>1, <3>2
  <2> QED
    BY <2>9 DEF FM
<1>6. CASE CountDown(th) \/ FreeTask(th)
  <2>1. UNCHANGED <<result_get, future>> /\ \A q \in Task : life'[q] = "unborn" => life[q] = "unborn"
    <3>1. CASE CountDown(th)
      BY <3>1 DEF CountDown
    <3>2. CASE FreeTask(th)
      <4>1. PICK t \in Task : life' = [life EXCEPT ![t] = "freed"]
        BY <3>2, FreeTaskIs
      <4> QED
        BY <1>1, <3>2, <4>1 DEF FreeTask, Types
    <3> QED
      BY <1>6, <3>1, <3>2
  <2>2. PICK t \in Task : t = top[th].task
    BY <1>6, CountDownIs, FreeTaskIs
  <2>3. \E h \in {NoFrame, AFrame(t, "free", 0), AFrame(t, "depth", 0)} : Turns(th, h)
    BY <1>6, <2>2, CountDownIs, FreeTaskIs
  <2>4. PICK h \in {NoFrame, AFrame(t, "free", 0), AFrame(t, "depth", 0)} : Turns(th, h)
    BY <2>3
  <2>5. PICK y \in Slot : y = TopSlot(th)
    BY <1>1, TopFrame DEF Types
  <2>6. \A x \in Slot : fr'[x] = IF x = y THEN h ELSE fr[x]
    BY <2>4, <2>5 DEF Turns
  <2>7. h.pc # "get" /\ h.pc # "countdown"
    BY DEF NoFrame, AFrame
  <2>8. \A x \in Slot, q \in Task : /\ Has(x, q, "get")' => Has(x, q, "get")
                                    /\ Has(x, q, "countdown")' => Has(x, q, "countdown")
    BY <2>6, <2>7, TurnHas
  <2> QED
    BY <1>1, <2>1, <2>8
<1> QED
  BY <1>3, <1>4, <1>5, <1>6, GetSteps

\* The post-event is done with when its notification has ended, not before.
LEMMA PostDoneSame ==
  ASSUME IInv, NEW th \in Thread, KeepsCarriers(th) \/ NotifyPost(th)
  PROVE  \A q \in Task : PostDone(q)' <=> PostDone(q)
<1>1. CASE CarriesSame /\ \A q \in Task : post'[q] = 0 <=> post[q] = 0
  BY <1>1 DEF CarriesSame, PostDone
<1>2. CASE KeepsCarriers(th)
  BY <1>1, <1>2, KeepsCarriersIs
<1>3. CASE NotifyPost(th)
  <2>1. PICK t : t = top[th].task
    OBVIOUS
  <2>2. PICK y : y = TopSlot(th)
    OBVIOUS
  <2>3. /\ t \in Task /\ y \in Slot /\ post[t] # 0
        /\ \A q \in Task : q # t => post'[q] = post[q]
        /\ post[t] # 1 => CarriesSame /\ post'[t] # 0
        /\ post[t] = 1 => /\ post'[t] = 0
                          /\ \A x \in Slot, q \in Task :
                               Carries(x, q)' <=> Carries(x, q) \/ (x = y /\ q = t)
    BY <1>3, <2>1, <2>2, NotifyPostCarries
  <2>4. CASE post[t] # 1
    BY <1>1, <2>3, <2>4
  <2>5. CASE post[t] = 1
    BY <2>3, <2>5 DEF PostDone
  <2> QED
    BY <2>4, <2>5
<1> QED
  BY <1>2, <1>3

\* So is the result-get-event.
LEMMA GetDoneSame ==
  ASSUME IInv, NEW th \in Thread, Step(th), ~ CountDown(th)
  PROVE  /\ \A q \in Task : GetDone(q)' <=> GetDone(q)
         /\ ~ FreeTask(th) => \A x \in Slot, q \in Task : Has(x, q, "free")' <=> Has(x, q, "free")
         /\ UNCHANGED removal_countdown
<1>1. Types /\ FutureMatches
  BY DEF IInv
<1>2. ASSUME UNCHANGED result_get,
             \A x \in Slot, q \in Task : Has(x, q, "countdown")' <=> Has(x, q, "countdown")
      PROVE  \A q \in Task : GetDone(q)' <=> GetDone(q)
  BY <1>2 DEF GetDone, Has
<1>3. CASE KeepsGet(th)
  <2>1. HasSame /\ UNCHANGED <<result_get, removal_countdown>>
    BY <1>3, KeepsGetIs
  <2>2. \A x \in Slot, q \in Task : /\ Has(x, q, "free")' <=> Has(x, q, "free")
                                    /\ Has(x, q, "countdown")' <=> Has(x, q, "countdown")
    BY <2>1 DEF HasSame, GetPcs
  <2> QED
    BY <1>2, <2>1, <2>2
<1>4. CASE (\E t \in Task : DropFuture(th, t)) \/ (th = Main /\ EndGet)
  <2>1. PICK t \in Task : GetBegins(th, t)
    BY <1>4, GetBeginsIs
  <2>2. PICK y \in Slot : y = <<th, 1>>
    BY <2>1 DEF GetBegins, Calls
  <2>3. fr[y] = NoFrame /\ \A x \in Slot : fr'[x] = IF x = y THEN AFrame(t, "get", 0) ELSE fr[x]
    BY <2>1, <2>2 DEF GetBegins, Calls
  <2>4. AFrame(t, "get", 0).pc = "get" /\ NoFrame.pc = "none"
    BY DEF AFrame, NoFrame
  <2>5. \A x \in Slot, q \in Task : /\ Has(x, q, "free")' <=> Has(x, q, "free")
                                    /\ Has(x, q, "countdown")' <=> Has(x, q, "countdown")
    BY <2>3, <2>4 DEF Has
  <2> QED
    BY <1>2, <2>1, <2>5 DEF GetBegins
<1>5. CASE NotifyGet(th)
  <2>1. PICK t \in Task : t = top[th].task
    BY <1>5, NotifyGetIs
  <2>2. PICK y \in Slot : y = TopSlot(th) /\ fr[y] = top[th] /\ top[th].pc = "get"
    BY <1>1, <1>5, InTop DEF NotifyGet
  <2>3. /\ \A x \in Slot : fr'[x] = IF x = y THEN AFrame(t, "countdown", 0) ELSE fr[x]
        /\ result_get' = [result_get EXCEPT ![t] = result_get[t] - 1]
    BY <1>5, <2>1, <2>2, NotifyGetIs DEF Turns
  <2>4. AFrame(t, "countdown", 0).task = t /\ AFrame(t, "countdown", 0).pc = "countdown"
    BY DEF AFrame
  <2>5. /\ \A x \in Slot, q \in Task : Has(x, q, "free")' <=> Has(x, q, "free")
        /\ \A x \in Slot, q \in Task : q # t => (Has(x, q, "countdown")' <=> Has(x, q, "countdown"))
        /\ Has(y, t, "countdown")'
    BY <2>2, <2>3, <2>4 DEF Has
  <2>6. result_get[t] = 1
    BY <1>1, <2>1, <2>2 DEF FutureMatches
  <2>7. \A q \in Task : q # t => result_get'[q] = result_get[q]
    BY <1>1, <2>3 DEF Types
  <2>8. \A q \in Task : GetDone(q)' <=> GetDone(q)
    BY <2>5, <2>6, <2>7 DEF GetDone, Has
  <2> QED
    BY <1>5, <2>5, <2>8 DEF NotifyGet
<1>6. CASE FreeTask(th)
  <2>1. PICK t \in Task : t = top[th].task
    BY <1>6, FreeTaskIs
  <2>2. PICK y \in Slot : y = TopSlot(th) /\ fr[y] = top[th] /\ top[th].pc = "free"
    BY <1>1, <1>6, InTop DEF FreeTask
  <2>3. \A x \in Slot : fr'[x] = IF x = y THEN AFrame(t, "depth", 0) ELSE fr[x]
    BY <1>6, <2>1, <2>2, FreeTaskIs DEF Turns
  <2>4. AFrame(t, "depth", 0).pc = "depth"
    BY DEF AFrame
  <2>5. \A x \in Slot, q \in Task : Has(x, q, "countdown")' <=> Has(x, q, "countdown")
    BY <2>2, <2>3, <2>4 DEF Has
  <2> QED
    BY <1>2, <1>6, <2>5 DEF FreeTask
<1> QED
  BY <1>3, <1>4, <1>5, <1>6, GetSteps

\* The last event of a task that is done with removes it.
LEMMA CountDownDone ==
  ASSUME IInv, NEW th \in Thread, CountDown(th), NEW t, t = top[th].task, NEW y, y = TopSlot(th)
  PROVE  /\ \A q \in Task : q # t => /\ GetDone(q)' <=> GetDone(q)
                                     /\ PostDone(q)' <=> PostDone(q)
         /\ \/ ~ GetDone(t) /\ GetDone(t)' /\ (PostDone(t)' <=> PostDone(t))
            \/ ~ PostDone(t) /\ PostDone(t)' /\ (GetDone(t)' <=> GetDone(t))
         /\ \A x \in Slot, q \in Task :
              Has(x, q, "free")' <=> \/ Has(x, q, "free")
                                     \/ x = y /\ q = t /\ removal_countdown[t] = 1
<1>1. Types /\ FutureMatches /\ CarriedOnce
  BY DEF IInv
<1>2. /\ t \in Task /\ y \in Slot /\ fr[y] = top[th] /\ post' = post
      /\ top[th].pc = "countdown" \/ (top[th].pc = "followers" /\ top[th].i = 0)
      /\ top[th].pc = "countdown" => CarriesSame
      /\ top[th].pc = "followers" =>
           /\ Carries(y, t)
           /\ \A x \in Slot, q \in Task : Carries(x, q)' <=> Carries(x, q) /\ ~ (x = y /\ q = t)
  BY CountDownCarries
<1>3. result_get' = result_get
  BY DEF CountDown
<1>4. PICK h \in {NoFrame, AFrame(t, "free", 0)} :
        /\ Turns(th, h)
        /\ h = AFrame(t, "free", 0) <=> removal_countdown[t] = 1
  <2>1. NoFrame # AFrame(t, "free", 0)
    BY DEF NoFrame, AFrame
  <2> QED
    BY <2>1, CountDownIs
<1>5. /\ \A x \in Slot : fr'[x] = IF x = y THEN h ELSE fr[x]
      /\ h.pc = "free" <=> removal_countdown[t] = 1
      /\ h.pc = "free" => h.task = t
      /\ h.pc # "countdown"
  BY <1>4 DEF Turns, NoFrame, AFrame
<1>6. \A x \in Slot, q \in Task :
              Has(x, q, "free")' <=> \/ Has(x, q, "free")
                                     \/ x = y /\ q = t /\ removal_countdown[t] = 1
  BY <1>2, <1>5 DEF Has
<1>7. /\ \A x \in Slot, q \in Task : x # y => (Has(x, q, "countdown")' <=> Has(x, q, "countdown"))
      /\ \A q \in Task : ~ Has(y, q, "countdown")'
      /\ \A q \in Task : Has(y, q, "countdown") => q = t /\ top[th].pc = "countdown"
      /\ top[th].pc = "countdown" => Has(y, t, "countdown")
  BY <1>2, <1>5 DEF Has
<1>8. \A q \in Task : GetDone(q) <=> result_get[q] = 0 /\ \A x \in Slot : ~ Has(x, q, "countdown")
  BY DEF GetDone, Has
<1>9. \A q \in Task : GetDone(q)' <=> result_get[q] = 0 /\ \A x \in Slot : ~ Has(x, q, "countdown")'
  BY <1>3 DEF GetDone, Has
<1>10. CASE top[th].pc = "countdown"
  <2>1. \A q \in Task : PostDone(q)' <=> PostDone(q)
    BY <1>2, <1>10 DEF PostDone, CarriesSame
  <2>2. result_get[t] = 0 /\ \A x \in Slot : Has(x, t, "countdown") => x = y
    BY <1>1, <1>2, <1>7, <1>10, FutureMatchesIs
  <2>3. ~ GetDone(t) /\ GetDone(t)' /\ \A q \in Task : q # t => (GetDone(q)' <=> GetDone(q))
    BY <1>2, <1>7, <1>8, <1>9, <1>10, <2>2
  <2> QED
    BY <1>2, <1>6, <2>1, <2>3
<1>11. CASE top[th].pc = "followers"
  <2>1. \A q \in Task : GetDone(q)' <=> GetDone(q)
    BY <1>7, <1>8, <1>9, <1>11
  <2>2. post[t] = 0 /\ \A x \in Slot : Carries(x, t) => x = y
    BY <1>1, <1>2, <1>11 DEF CarriedOnce
  <2>3. ~ PostDone(t) /\ PostDone(t)' /\ \A q \in Task : q # t => (PostDone(q)' <=> PostDone(q))
    BY <1>2, <1>11, <2>2 DEF PostDone
  <2> QED
    BY <1>2, <1>6, <2>1, <2>3
<1> QED
  BY <1>2, <1>10, <1>11

\* What RemovalCounts says of one task.
RemovalCounted(q) ==
  /\ removal_countdown[q] = (IF GetDone(q) THEN 0 ELSE 1) + (IF PostDone(q) THEN 0 ELSE 1)
  /\ life[q] = "freed" => GetDone(q) /\ PostDone(q)
  /\ \A x \in Slot : Has(x, q, "free") => GetDone(q) /\ PostDone(q) /\ life[q] = "alive"
  /\ \A x, z \in Slot : Has(x, q, "free") /\ Has(z, q, "free") => x = z

\* By Has.
LEMMA RemovalCountedIs ==
  RemovalCounts <=> \A q \in Task : RemovalCounted(q)
BY DEF RemovalCounts, RemovalCounted, Has

\* A task is removed once, after both events.
LEMMA RemovalCountsStep ==
  ASSUME IInv, NEW th \in Thread, Step(th)
  PROVE  RemovalCounts'
<1>1. Types /\ FramesMatch /\ \A q \in Task : RemovalCounted(q)
  BY RemovalCountedIs DEF IInv
<1>2. SUFFICES \A q \in Task : RemovalCounted(q)'
  BY DEF RemovalCounts, RemovalCounted, Has
<1>3. CASE CountDown(th)
  <2>1. PICK t : t = top[th].task
    OBVIOUS
  <2>2. PICK y : y = TopSlot(th)
    OBVIOUS
  <2>3. /\ t \in Task /\ y \in Slot
        /\ removal_countdown' = [removal_countdown EXCEPT ![t] = removal_countdown[t] - 1]
    BY <1>1, <1>3, <2>1, <2>2, CountDownIs, TopFrame DEF Types
  <2>4. /\ \A q \in Task : q # t => /\ GetDone(q)' <=> GetDone(q)
                                    /\ PostDone(q)' <=> PostDone(q)
        /\ \/ ~ GetDone(t) /\ GetDone(t)' /\ (PostDone(t)' <=> PostDone(t))
           \/ ~ PostDone(t) /\ PostDone(t)' /\ (GetDone(t)' <=> GetDone(t))
        /\ \A x \in Slot, q \in Task :
             Has(x, q, "free")' <=> \/ Has(x, q, "free")
                                    \/ x = y /\ q = t /\ removal_countdown[t] = 1
    BY <1>3, <2>1, <2>2, CountDownDone
  <2>5. life' = life /\ life[t] # "unborn"
    <3>1. life' = life
      BY <1>3 DEF CountDown
    <3>2. fr[y].task = t /\ fr[y].pc # "none"
      BY <1>1, <1>3, <2>1, <2>2, CountDownIs, TopFrame DEF Types
    <3> QED
      BY <1>1, <2>3, <3>1, <3>2 DEF FramesMatch, FrameMatches
  <2>6. \A q \in Task : removal_countdown'[q] = IF q = t THEN removal_countdown[t] - 1
                                                ELSE removal_countdown[q]
    BY <1>1, <2>3 DEF Types
  <2> TAKE q \in Task
  <2>7. CASE q # t
    BY <1>1, <2>4, <2>5, <2>6, <2>7 DEF RemovalCounted
  <2>8. CASE q = t
    <3>1. life[t] = "alive"
      BY <1>1, <2>3, <2>4, <2>5 DEF RemovalCounted, Types
    <3>2. \A x \in Slot : ~ Has(x, t, "free")
      BY <1>1, <2>3, <2>4 DEF RemovalCounted
    <3>3. /\ removal_countdown[t] = 1 <=> GetDone(t)' /\ PostDone(t)'
          /\ removal_countdown'[t] = (IF GetDone(t)' THEN 0 ELSE 1) + (IF PostDone(t)' THEN 0 ELSE 1)
      BY <1>1, <2>3, <2>4, <2>6 DEF RemovalCounted
    <3>4. /\ \A x \in Slot : Has(x, t, "free")' => GetDone(t)' /\ PostDone(t)' /\ life'[t] = "alive"
          /\ \A x, z \in Slot : Has(x, t, "free")' /\ Has(z, t, "free")' => x = z
      BY <2>3, <2>4, <2>5, <3>1, <3>2, <3>3
    <3> QED
      BY <2>5, <2>8, <3>1, <3>3, <3>4 DEF RemovalCounted
  <2> QED
    BY <2>7, <2>8
<1>4. CASE ~ CountDown(th)
  <2>1. \A q \in Task : /\ PostDone(q)' <=> PostDone(q)
                        /\ GetDone(q)' <=> GetDone(q)
                        /\ removal_countdown'[q] = removal_countdown[q]
    <3>1. \A q \in Task : PostDone(q)' <=> PostDone(q)
      BY <1>4, CarrierSteps, PostDoneSame
    <3> QED
      BY <1>4, <3>1, GetDoneSame
  <2>2. CASE FreeTask(th)
    <3>1. PICK t \in Task : t = top[th].task
      BY <2>2, FreeTaskIs
    <3>2. PICK y \in Slot : y = TopSlot(th) /\ fr[y] = top[th] /\ top[th].pc = "free"
      BY <1>1, <2>2, InTop DEF FreeTask
    <3>3. /\ \A x \in Slot : fr'[x] = IF x = y THEN AFrame(t, "depth", 0) ELSE fr[x]
          /\ life' = [life EXCEPT ![t] = "freed"]
      BY <2>2, <3>1, <3>2, FreeTaskIs DEF Turns
    <3>4. AFrame(t, "depth", 0).pc = "depth"
      BY DEF AFrame
    <3>5. /\ \A x \in Slot, q \in Task : Has(x, q, "free")' <=> Has(x, q, "free") /\ x # y
          /\ Has(y, t, "free")
      BY <3>1, <3>2, <3>3, <3>4 DEF Has
    <3>6. \A q \in Task : life'[q] = IF q = t THEN "freed" ELSE life[q]
      BY <1>1, <3>3 DEF Types
    <3> TAKE q \in Task
    <3>7. CASE q = t
      BY <1>1, <2>1, <3>5, <3>6, <3>7 DEF RemovalCounted
    <3>8. CASE q # t
      BY <1>1, <2>1, <3>5, <3>6, <3>8 DEF RemovalCounted
    <3> QED
      BY <3>7, <3>8
  <2>3. CASE ~ FreeTask(th)
    <3>1. \A x \in Slot, q \in Task : Has(x, q, "free")' <=> Has(x, q, "free")
      BY <1>4, <2>3, GetDoneSame
    <3>2. \A q \in Task : /\ life'[q] = "freed" => life[q] = "freed"
                          /\ life[q] = "alive" => life'[q] = "alive"
      <4>1. CASE \E t \in Task, a \in AccessSeq : CreateTask(th, t, a)
        <5>1. PICK t \in Task, a \in AccessSeq : CreateTask(th, t, a)
          BY <4>1
        <5>2. life' = [life EXCEPT ![t] = "alive"]
          BY <5>1 DEF CreateTask
        <5> QED
          BY <1>1, <5>2 DEF Types
      <4> QED
        BY <2>3, <4>1, StepSpares DEF Spares, Creates
    <3> QED
      BY <1>1, <2>1, <3>1, <3>2 DEF RemovalCounted
  <2> QED
    BY <2>2, <2>3
<1> QED
  BY <1>3, <1>4

-----------------------------------------------------------------------------
(***************************************************************************)
(* Stacks and follower lists.                                              *)
(***************************************************************************)

\* What a step does to the follower lists: it adds one at the end, or gives a
\* new task its first one.
LEMMA FollowersStep ==
  ASSUME IInv, NEW th \in Thread, Step(th), NEW q \in Task
  PROVE  /\ life[q] # "unborn" => /\ life'[q] # "unborn" /\ access'[q] = access[q]
                                  /\ parent'[q] = parent[q]
                                  /\ Len(followers[q]) <= Len(followers'[q])
         /\ Len(followers'[q]) \in Nat
         /\ \A n \in 1..Len(followers[q]) :
              n \in 1..Len(followers'[q]) /\ followers'[q][n] = followers[q][n]
<1>1. Types /\ FollowersMatch
  BY DEF IInv
<1>2. Len(followers[q]) \in Nat
  BY <1>1, FollowerIs
<1>3. CASE Creates(th)
  <2>1. PICK t \in Task, a \in AccessSeq : CreateTask(th, t, a)
    BY <1>3 DEF Creates
  <2>2. PICK p : p = job[th].cur
    OBVIOUS
  <2>3. /\ life[t] = "unborn" /\ life' = [life EXCEPT ![t] = "alive"]
        /\ parent' = [parent EXCEPT ![t] = p] /\ access' = [access EXCEPT ![t] = a]
        /\ followers[t] = <<>>
        /\ p = Root => followers' = followers
        /\ p # Root => followers' = [followers EXCEPT ![t] = <<PostOf(p)>>]
    BY <2>1, <2>2, CreateTaskIs
  <2>4. CASE q # t
    <3>1. life'[q] = life[q] /\ access'[q] = access[q] /\ parent'[q] = parent[q]
          /\ followers'[q] = followers[q]
      BY <1>1, <2>3, <2>4 DEF Types
    <3> QED
      BY <1>2, <3>1
  <2>5. CASE q = t
    <3>1. followers'[t] = <<>> \/ followers'[t] = <<PostOf(p)>>
      BY <1>1, <2>3 DEF Types
    <3>2. Len(followers'[t]) \in Nat /\ Len(followers[t]) = 0
      BY <2>3, <3>1
    <3> QED
      BY <2>3, <2>5, <3>2
  <2> QED
    BY <2>4, <2>5
<1>4. CASE th \in Worker /\ Link(th)
  <2>1. PICK t \in Task : t = job[th].cur
    BY <1>4, LinkIs
  <2>2. PICK p \in Task : p = Predecessor(th)
    BY <1>4, LinkIs
  <2>3. followers' = [followers EXCEPT ![p] = Append(followers[p], PreOf(t))]
    BY <1>4, <2>1, <2>2, LinkIs
  <2>4. UNCHANGED <<life, access, parent>>
    BY <1>4 DEF Link
  <2>5. CASE q # p
    <3>1. followers'[q] = followers[q]
      BY <1>1, <2>3, <2>5 DEF Types
    <3> QED
      BY <1>2, <2>4, <3>1
  <2>6. CASE q = p
    <3>1. followers'[q] = Append(followers[q], PreOf(t))
      BY <1>1, <2>3, <2>6 DEF Types
    <3>2. followers[q] \in Seq([task : Task, event : {"pre", "post"}])
          /\ PreOf(t) \in [task : Task, event : {"pre", "post"}]
      BY <1>1 DEF Types, PreOf
    <3>3. /\ Len(followers'[q]) = Len(followers[q]) + 1
          /\ \A n \in 1..Len(followers[q]) : followers'[q][n] = followers[q][n]
      BY <3>1, <3>2, AppendProperties
    <3> QED
      BY <1>2, <2>4, <3>3
  <2> QED
    BY <2>5, <2>6
<1>5. CASE ~ Creates(th) /\ ~ (th \in Worker /\ Link(th))
  <2>1. UNCHANGED <<parent, access, followers>>
    BY <1>5, StepSpares DEF Spares
  <2>2. life[q] # "unborn" => life'[q] # "unborn"
    <3>1. CASE FreeTask(th)
      <4>1. PICK t \in Task : life' = [life EXCEPT ![t] = "freed"]
        BY <3>1, FreeTaskIs
      <4> QED
        BY <1>1, <4>1 DEF Types
    <3>2. CASE ~ FreeTask(th)
      BY <1>5, <3>2, StepSpares DEF Spares
    <3> QED
      BY <3>1, <3>2
  <2> QED
    BY <1>2, <2>1, <2>2
<1> QED
  BY <1>3, <1>4, <1>5

\* A step leaves a frame that matched one that matches.
LEMMA FrameKept ==
  ASSUME IInv, NEW th \in Thread, Step(th), NEW f \in Frame \union {NoFrame}, FrameMatches(f)
  PROVE  FrameMatches(f)'
<1>1. CASE f.pc = "none"
  BY <1>1 DEF FrameMatches
<1>2. CASE f.pc # "none"
  <2>1. f.task \in Task /\ life[f.task] # "unborn"
    BY <1>2 DEF FrameMatches
  <2>2. f.i \in Nat
    BY <1>2 DEF Frame, NoFrame
  <2>3. PICK q \in Task : q = f.task
    BY <2>1
  <2>4. /\ life'[q] # "unborn" /\ access'[q] = access[q]
        /\ Len(followers[q]) <= Len(followers'[q]) /\ Len(followers'[q]) \in Nat
        /\ \A n \in 1..Len(followers[q]) :
              n \in 1..Len(followers'[q]) /\ followers'[q][n] = followers[q][n]
    BY <2>1, <2>3, FollowersStep
  <2>5. Len(followers[q]) \in Nat
    BY FollowerIs DEF IInv
  <2> QED
    BY <2>1, <2>2, <2>3, <2>4, <2>5 DEF FrameMatches
<1> QED
  BY <1>1, <1>2

\* A frame for the same task.
LEMMA FrameFor ==
  ASSUME Types, FramesMatch, NEW th \in Thread, stack[th] # <<>>, NEW pc \in FramePcs, NEW i \in Nat,
         NEW t, t = top[th].task,
         pc = "followers" => i <= Len(followers[t]),
         pc = "activate" => i \in 1..Len(followers[t]) /\ followers[t][i].event = "pre",
         pc = "delete" => i \in 1..Len(access[t]),
         pc = "waker" => i \in {0, 1}
  PROVE  AFrame(t, pc, i) \in Frame /\ FrameMatches(AFrame(t, pc, i))
<1>1. TopSlot(th) \in Slot /\ top[th] = fr[TopSlot(th)] /\ top[th] \in Frame
  BY TopFrame DEF Types
<1>2. top[th].pc # "none" /\ t \in Task
  BY <1>1 DEF Frame, FramePcs
<1>3. life[t] # "unborn"
  BY <1>1, <1>2 DEF FramesMatch, FrameMatches
<1>4. PICK h : h = AFrame(t, pc, i)
  OBVIOUS
<1>5. h.task = t /\ h.pc = pc /\ h.i = i /\ h \in Frame
  BY <1>2, <1>4 DEF AFrame, Frame
<1>6. FrameMatches(h)
  BY <1>2, <1>3, <1>5 DEF FrameMatches
<1> QED
  BY <1>4, <1>5, <1>6

\* The innermost notification becomes one that fits, or returns.
TurnsWell(th) ==
  \E h \in Frame \union {NoFrame} : Turns(th, h) /\ FrameMatches(h) /\ stack[th] # <<>>

\* So do the steps of notify, but for the notification of a parent.
LEMMA NotifyTurns ==
  ASSUME IInv, NEW th \in Thread,
         \/ NotifyPost(th) \/ NotifyGet(th) \/ ReadWaker(th) \/ DeleteFromResource(th)
         \/ NotifyFollower(th) \/ ActivateTask(th) \/ CountDown(th) \/ FreeTask(th) \/ ReadDepth(th)
  PROVE  \/ TurnsWell(th)
         \/ \E t \in Task : /\ Nests(th, t) /\ life[t] # "unborn" /\ stack[th] # <<>>
                            /\ top[th].pc = "followers" /\ top[th].i = 1
<1> USE DEF FramePcs
<1>1. Types /\ FramesMatch /\ FollowersMatch
  BY DEF IInv
<1>2. stack[th] # <<>>
  BY Zenon DEF NotifyPost, NotifyGet, ReadWaker, DeleteFromResource, NotifyFollower, ActivateTask, CountDown,
     FreeTask, ReadDepth, InFrame
<1>3. top[th].task \in Task /\ TopSlot(th) \in Slot /\ top[th] = fr[TopSlot(th)] /\ top[th] \in Frame
      /\ top[th].i \in Nat
  BY <1>1, <1>2, TopFrame DEF Types, Frame
<1>4. PICK t \in Task : t = top[th].task
  BY <1>3
<1>5. FrameMatches(NoFrame)
  BY DEF FrameMatches, NoFrame
<1>6. FrameMatches(top[th])
  BY <1>1, <1>3 DEF FramesMatch
<1>7. Len(followers[t]) \in Nat /\ Len(access[t]) \in Nat
      /\ (access[t] # <<>> => Len(access[t]) \in 1..Len(access[t]))
  BY <1>1, AccessIs, FollowerIs
<1>8. CASE Turns(th, NoFrame)
  BY <1>2, <1>5, <1>8 DEF TurnsWell
<1>9. ASSUME NEW pc \in FramePcs, NEW i \in Nat, Turns(th, AFrame(t, pc, i)),
             pc = "followers" => i <= Len(followers[t]),
             pc = "activate" => i \in 1..Len(followers[t]) /\ followers[t][i].event = "pre",
             pc = "delete" => i \in 1..Len(access[t]),
             pc = "waker" => i \in {0, 1}
      PROVE  TurnsWell(th)
  <2>1. AFrame(t, pc, i) \in Frame /\ FrameMatches(AFrame(t, pc, i))
    BY <1>1, <1>2, <1>4, <1>9, FrameFor
  <2> QED
    BY <1>2, <1>9, <2>1 DEF TurnsWell
<1>10. CASE NotifyPost(th)
  <2>1. /\ post[t] \in Nat /\ post[t] >= 1
        /\ post[t] > 2 => Turns(th, NoFrame)
        /\ ~ (post[t] > 2) => Turns(th, AFrame(t, "waker", post[t] - 1))
    BY <1>4, <1>10, NotifyPostIs
  <2>2. CASE ~ (post[t] > 2)
    <3>1. post[t] - 1 \in {0, 1}
      BY <2>1, <2>2
    <3> QED
      BY <1>9, <2>1, <2>2, <3>1
  <2> QED
    BY <1>8, <2>1, <2>2
<1>11. CASE NotifyGet(th)
  <2>1. Turns(th, AFrame(t, "countdown", 0))
    BY <1>4, <1>11, NotifyGetIs
  <2> QED
    BY <1>9, <2>1
<1>12. CASE ReadWaker(th)
  <2>1. \/ Turns(th, NoFrame)
        \/ access[t] # <<>> /\ Turns(th, AFrame(t, "delete", Len(access[t])))
        \/ Turns(th, AFrame(t, "followers", Len(followers[t])))
    BY <1>4, <1>12, ReadWakerIs
  <2> QED
    BY <1>7, <1>8, <1>9, <2>1
<1>13. CASE DeleteFromResource(th)
  <2>1. PICK i \in Nat : i = top[th].i
    BY <1>3
  <2>2. /\ i \in 1..Len(access[t])
        /\ i > 1 => Turns(th, AFrame(t, "delete", i - 1))
        /\ i = 1 => Turns(th, AFrame(t, "followers", Len(followers[t])))
    BY <1>4, <1>13, <2>1, DeleteIs
  <2>3. CASE i > 1
    <3>1. i - 1 \in 1..Len(access[t]) /\ i - 1 \in Nat
      BY <1>7, <2>2, <2>3
    <3> QED
      BY <1>9, <2>2, <2>3, <3>1
  <2>4. CASE i = 1
    BY <1>7, <1>9, <2>2, <2>4
  <2> QED
    BY <1>7, <2>2, <2>3, <2>4
<1>14. CASE NotifyFollower(th)
  <2>1. PICK i \in Nat : i = top[th].i
    BY <1>3
  <2>2. PICK g : g = followers[t][i]
    OBVIOUS
  <2>3. /\ i \in DOMAIN followers[t] /\ g.task \in Task /\ top[th].pc = "followers"
        /\ \/ /\ g = PreOf(g.task)
              /\ pre[g.task] = 2 => Turns(th, AFrame(t, "activate", i))
              /\ pre[g.task] # 2 => Turns(th, AFrame(t, "followers", i - 1))
           \/ i = 1 /\ Nests(th, g.task)
    BY Zenon, <1>4, <1>14, <2>1, <2>2, NotifyFollowerIs
  <2>4. i \in 1..Len(followers[t]) /\ i - 1 \in Nat /\ i - 1 <= Len(followers[t])
    BY SMTT(60), <1>1, <1>7, <2>1, <2>3, FollowerIs
  <2>5. life[g.task] # "unborn"
    BY <1>1, <2>2, <2>3 DEF FollowersMatch
  <2>6. g = PreOf(g.task) => g.event = "pre"
    BY DEF PreOf
  <2>7. CASE Turns(th, AFrame(t, "activate", i)) /\ g = PreOf(g.task)
    BY <1>9, <2>2, <2>4, <2>6, <2>7
  <2>8. CASE Turns(th, AFrame(t, "followers", i - 1))
    BY <1>9, <2>4, <2>8
  <2> QED
    BY <1>2, <2>1, <2>3, <2>5, <2>7, <2>8
<1>15. CASE ActivateTask(th)
  <2>1. PICK i \in Nat : i = top[th].i
    BY <1>3
  <2>2. i \in DOMAIN followers[t] /\ Turns(th, AFrame(t, "followers", i - 1))
    BY <1>4, <1>15, <2>1, ActivateTaskIs
  <2>3. i - 1 \in Nat /\ i - 1 <= Len(followers[t])
    BY <1>1, <1>7, <2>1, <2>2, FollowerIs
  <2> QED
    BY <1>9, <2>2, <2>3
<1>16. CASE CountDown(th)
  <2>1. Turns(th, NoFrame) \/ Turns(th, AFrame(t, "free", 0))
    BY <1>4, <1>16, CountDownIs
  <2> QED
    BY <1>8, <1>9, <2>1
<1>17. CASE FreeTask(th)
  <2>1. Turns(th, AFrame(t, "depth", 0))
    BY <1>4, <1>17, FreeTaskIs
  <2> QED
    BY <1>9, <2>1
<1>18. CASE ReadDepth(th)
  BY <1>8, <1>18, ReadDepthIs
<1> QED
  BY <1>10, <1>11, <1>12, <1>13, <1>14, <1>15, <1>16, <1>17, <1>18

\* How the stacks change in a step.
LEMMA StackStep ==
  ASSUME IInv, NEW th \in Thread, Step(th)
  PROVE  \/ UNCHANGED stack
         \/ TurnsWell(th)
         \/ \E t \in Task : /\ Nests(th, t) /\ life[t] # "unborn" /\ stack[th] # <<>>
                            /\ top[th].pc = "followers" /\ top[th].i = 1
         \/ \E t \in Task, pc \in {"get", "post"} : Calls(th, t, pc) /\ life[t] # "unborn"
<1>1. CASE (\E t \in Task : DropFuture(th, t)) \/ (th = Main /\ EndGet)
  <2>1. PICK t \in Task : GetBegins(th, t)
    BY <1>1, GetBeginsIs
  <2> QED
    BY <2>1 DEF GetBegins, IInv, FutureMatches
<1>2. CASE th \in Worker /\ EndBody(th)
  <2>1. job[th].cur \in Task /\ Calls(th, job[th].cur, "post")
    BY <1>2, EndBodyIs
  <2>2. InPlace("cur", th, job[th].cur)
    BY <1>2 DEF InPlace
  <2>3. life[job[th].cur] # "unborn"
    BY <2>1, <2>2 DEF IInv, StatusMatches, PlaceKind, Holder
  <2> QED
    BY <2>1, <2>3
<1>3. CASE \/ NotifyPost(th) \/ NotifyGet(th) \/ ReadWaker(th) \/ DeleteFromResource(th)
           \/ NotifyFollower(th) \/ ActivateTask(th) \/ CountDown(th) \/ FreeTask(th) \/ ReadDepth(th)
  BY <1>3, NotifyTurns
<1>4. CASE \/ Creates(th) \/ Register(th) \/ EmplaceTask(th)
           \/ th = Main /\ ((\E t \in Task : BeginGet(t)) \/ BeginBarrier \/ EndBarrier)
  BY Zenon, <1>4 DEF Creates, CreateTask, Register, EmplaceTask, BeginGet, BeginBarrier, EndBarrier
<1>5. CASE \/ th \in Worker /\ \E t \in Task : PopNew(th, t)
           \/ th \in Worker /\ \E t \in Task : PopReady(th, t)
           \/ th \in Worker /\ LockUsers(th)
           \/ th \in Worker /\ Scan(th)
           \/ th \in Worker /\ Link(th)
           \/ th \in Worker /\ CountEdge(th)
           \/ th \in Worker /\ EndInit(th)
           \/ th \in Worker /\ Execute(th)
  BY Zenon, <1>5 DEF PopNew, PopReady, LockUsers, Scan, Link, CountEdge, EndInit, Execute
<1> QED
  BY <1>1, <1>2, <1>3, <1>4, <1>5 DEF Step, KeepsEdges, Creates

\* All but the innermost notification wait at the end of their follower lists.
LEMMA StackShapeStep ==
  ASSUME IInv, NEW th \in Thread, Step(th)
  PROVE  StackShape'
<1>1. Types /\ StackShape
  BY DEF IInv
<1>2. \A u \in Thread : Len(stack[u]) \in Nat
  BY <1>1 DEF Types
<1>4. SUFFICES ASSUME NEW u \in Thread, NEW d \in Nat, 0 < d, d < Len(stack'[u])
               PROVE  fr'[<<u, d>>].pc = "followers" /\ fr'[<<u, d>>].i = 0
  BY DEF StackShape
<1>5. PICK x \in Slot : x = <<u, d>>
  BY DEF Slot
<1>6. d < Len(stack[u]) => fr[x].pc = "followers" /\ fr[x].i = 0
  BY <1>1, <1>4, <1>5 DEF StackShape
<1>3. CASE UNCHANGED stack
  BY <1>3, <1>4, <1>5, <1>6, SameStack
<1>7. x = TopSlot(th) <=> u = th /\ d = Len(stack[th])
  BY <1>5 DEF TopSlot
<1>8. CASE TurnsWell(th)
  <2>1. PICK h \in Frame \union {NoFrame} : Turns(th, h)
    BY <1>8 DEF TurnsWell
  <2>2. u = th => Len(stack'[u]) <= Len(stack[u])
    BY <1>2, <2>1 DEF Turns
  <2>3. u # th => Len(stack'[u]) = Len(stack[u])
    BY <2>1 DEF Turns
  <2>4. Len(stack'[u]) \in Nat
    BY <2>1 DEF Turns
  <2>5. d < Len(stack[u])
    BY <1>2, <1>4, <2>2, <2>3, <2>4
  <2>6. fr'[x] = fr[x]
    BY <1>2, <1>7, <2>1, <2>5 DEF Turns
  <2> QED
    BY <1>5, <1>6, <2>5, <2>6
<1>9. CASE \E t \in Task : Nests(th, t) /\ top[th].i = 1
  <2>1. PICK t \in Task : Nests(th, t) /\ top[th].i = 1
    BY <1>9
  <2>2. PICK y \in Slot : y = <<th, Len(stack[th]) + 1>>
    BY <2>1 DEF Nests
  <2>3. PICK z \in Slot : z = TopSlot(th)
    BY <1>1, TopFrame DEF Types
  <2>4. PICK h : h = AFrame(top[th].task, "followers", 0)
    OBVIOUS
  <2>5. \A v \in Slot : fr'[v] = IF v = y THEN AFrame(t, "post", 0) ELSE IF v = z THEN h ELSE fr[v]
    BY <2>1, <2>2, <2>3, <2>4 DEF Nests
  <2>6. u = th => Len(stack'[u]) = Len(stack[u]) + 1
    BY <2>1 DEF Nests
  <2>7. u # th => Len(stack'[u]) = Len(stack[u])
    BY <2>1 DEF Nests
  <2>8. x # y
    BY <1>2, <1>4, <1>5, <2>2, <2>6
  <2>9. CASE x = z
    BY <1>5, <2>4, <2>5, <2>8, <2>9 DEF AFrame
  <2>10. CASE x # z
    <3>1. d < Len(stack[u])
      BY <1>2, <1>4, <1>7, <2>3, <2>6, <2>7, <2>10
    <3> QED
      BY <1>5, <1>6, <2>5, <2>8, <2>10, <3>1
  <2> QED
    BY <2>9, <2>10
<1>10. CASE \E t \in Task, pc \in {"get", "post"} : Calls(th, t, pc)
  <2>1. PICK t \in Task, pc \in {"get", "post"} : Calls(th, t, pc)
    BY <1>10
  <2>2. u = th => Len(stack'[u]) = 1
    BY <2>1 DEF Calls
  <2>3. ASSUME u = th PROVE FALSE
    <3>1. d < 1
      BY <1>4, <2>2, <2>3
    <3> QED
      BY <1>4, <3>1
  <2>4. stack'[u] = stack[u]
    BY <2>1, <2>3 DEF Calls
  <2>5. x # <<th, 1>>
    BY <1>5, <2>3
  <2>6. fr'[x] = fr[x]
    BY <2>1, <2>5 DEF Calls
  <2> QED
    BY <1>4, <1>5, <1>6, <2>4, <2>6
<1> QED
  BY <1>3, <1>8, <1>9, <1>10, StackStep

\* Every notification is about a task that exists, and within its lists.
LEMMA FramesMatchStep ==
  ASSUME IInv, NEW th \in Thread, Step(th)
  PROVE  FramesMatch'
<1>1. Types /\ FramesMatch
  BY DEF IInv
<1>2. \A x \in Slot : fr[x] \in Frame \union {NoFrame} /\ FrameMatches(fr[x])
  BY <1>1, TopFrame DEF Types, FramesMatch
<1>3. SUFFICES ASSUME NEW x \in Slot
               PROVE  FrameMatches(fr[x])'
  BY DEF FramesMatch
<1>4. SUFFICES \E f \in Frame \union {NoFrame} : fr'[x] = f /\ FrameMatches(f)'
  <2>1. PICK f \in Frame \union {NoFrame} : fr'[x] = f /\ FrameMatches(f)'
    BY <1>4
  <2> QED
    BY <2>1 DEF FrameMatches
<1>5. ASSUME NEW f \in Frame \union {NoFrame}, fr'[x] = f, FrameMatches(f)
      PROVE  \E g \in Frame \union {NoFrame} : fr'[x] = g /\ FrameMatches(g)'
  BY <1>5, FrameKept
<1>6. ASSUME NEW t \in Task, life[t] # "unborn", NEW pc \in {"get", "post"}
      PROVE  AFrame(t, pc, 0) \in Frame /\ FrameMatches(AFrame(t, pc, 0))
  <2>1. PICK h : h = AFrame(t, pc, 0)
    OBVIOUS
  <2>2. h.task = t /\ h.pc = pc /\ h \in Frame
    BY <2>1 DEF AFrame, Frame, FramePcs
  <2> QED
    BY <1>6, <2>1, <2>2 DEF FrameMatches
<1>7. CASE fr'[x] = fr[x]
  BY <1>2, <1>5, <1>7
<1>8. CASE UNCHANGED stack
  BY <1>7, <1>8, SameStack
<1>9. CASE TurnsWell(th)
  BY <1>5, <1>7, <1>9 DEF TurnsWell, Turns
<1>10. CASE \E t \in Task : Nests(th, t) /\ top[th].i = 1 /\ life[t] # "unborn" /\ stack[th] # <<>>
  <2>1. PICK t \in Task : Nests(th, t) /\ top[th].i = 1 /\ life[t] # "unborn"
    BY <1>10
  <2>2. PICK h : h = AFrame(top[th].task, "followers", 0)
    OBVIOUS
  <2>3. h \in Frame /\ FrameMatches(h)
    <3>1. Len(followers[top[th].task]) \in Nat
      <4>1. top[th].task \in Task
        BY <1>1, <1>10, TopFrame DEF Types, Frame
      <4> QED
        BY <1>1, <4>1, FollowerIs
    <3>2. PICK q : q = top[th].task
      OBVIOUS
    <3>3. 0 <= Len(followers[q]) /\ "followers" \in FramePcs /\ 0 \in Nat /\ stack[th] # <<>>
      BY <1>10, <3>1, <3>2 DEF FramePcs
    <3>4. AFrame(q, "followers", 0) \in Frame /\ FrameMatches(AFrame(q, "followers", 0))
      BY <1>1, <3>2, <3>3, FrameFor
    <3> QED
      BY <2>2, <3>2, <3>4
  <2>4. fr'[x] = AFrame(t, "post", 0) \/ fr'[x] = h \/ fr'[x] = fr[x]
    BY <2>1, <2>2 DEF Nests
  <2> QED
    BY <1>5, <1>6, <1>7, <2>1, <2>3, <2>4
<1>11. CASE \E t \in Task, pc \in {"get", "post"} : Calls(th, t, pc) /\ life[t] # "unborn"
  <2>1. PICK t \in Task, pc \in {"get", "post"} : Calls(th, t, pc) /\ life[t] # "unborn"
    BY <1>11
  <2>2. fr'[x] = AFrame(t, pc, 0) \/ fr'[x] = fr[x]
    BY <2>1 DEF Calls
  <2> QED
    BY <1>5, <1>6, <1>7, <2>1, <2>2
<1> QED
  BY <1>8, <1>9, <1>10, <1>11, StackStep

\* Followers come after the task, and the first one of a child is its parent.
LEMMA FollowersMatchStep ==
  ASSUME IInv, NEW th \in Thread, Step(th)
  PROVE  FollowersMatch'
<1>1. Types /\ FollowersMatch
  BY DEF IInv
<1>2. \A q \in Task : /\ life[q] # "unborn" => life'[q] # "unborn"
                      /\ life[q] # "unborn" => parent'[q] = parent[q]
  BY FollowersStep
<1>3. CASE UNCHANGED followers
  <2>1. ASSUME NEW q \in Task, followers[q] # <<>> PROVE parent'[q] = parent[q]
    BY <1>1, <1>2, <2>1 DEF FollowersMatch
  <2>2. \A q \in Task : \A n \in DOMAIN followers[q] : followers[q] # <<>>
    OBVIOUS
  <2>3. \A q \in Task : \A n \in DOMAIN followers[q] : followers[q][n].task \in Task
    BY <1>1, FollowerIs
  <2> QED
    BY <1>1, <1>2, <1>3, <2>1, <2>2, <2>3 DEF FollowersMatch
<1>4. CASE Creates(th)
  <2>1. PICK t \in Task, a \in AccessSeq : CreateTask(th, t, a)
    BY <1>4 DEF Creates
  <2>2. PICK p : p = job[th].cur
    OBVIOUS
  <2>3. /\ InProgram(th) /\ life' = [life EXCEPT ![t] = "alive"]
        /\ parent' = [parent EXCEPT ![t] = p]
        /\ p = Root => followers' = followers
        /\ p # Root => followers' = [followers EXCEPT ![t] = <<PostOf(p)>>]
    BY <2>1, <2>2, CreateTaskIs
  <2>4. CASE p # Root
    <3>1. th \in Worker /\ p \in Task
      BY <2>2, <2>3, <2>4, InProgramIs
    <3>2. life[p] # "unborn"
      <4>1. InPlace("cur", th, p)
        BY <2>2, <3>1 DEF InPlace
      <4> QED
        BY <3>1, <4>1 DEF IInv, StatusMatches, PlaceKind, Holder
    <3>3. followers'[t] = <<PostOf(p)>> /\ parent'[t] = p /\ life'[t] = "alive"
          /\ \A q \in Task : q # t => followers'[q] = followers[q] /\ parent'[q] = parent[q]
                                      /\ life'[q] = life[q]
      BY <1>1, <2>3, <2>4 DEF Types
    <3>4. PostOf(p).task = p /\ PostOf(p).event = "post"
      BY DEF PostOf
    <3> SUFFICES ASSUME NEW q \in Task
                 PROVE  /\ life'[q] = "unborn" => followers'[q] = <<>>
                        /\ \A n \in DOMAIN followers'[q] :
                             LET e == followers'[q][n]
                             IN  /\ life'[e.task] # "unborn"
                                 /\ e.event = "post" => n = 1 /\ parent'[q] # Root /\ e.task = parent'[q]
                                 /\ e.event = "pre" => q <= e.task
      BY DEF FollowersMatch
    <3>5. CASE q = t
      <4>1. DOMAIN followers'[q] = {1} /\ followers'[q][1] = PostOf(p)
        BY <3>3, <3>5
      <4> QED
        BY <1>2, <2>4, <3>1, <3>2, <3>3, <3>4, <3>5, <4>1
    <3>6. CASE q # t
      <4>1. \A n \in DOMAIN followers[q] : followers[q][n].task \in Task
        BY <1>1, FollowerIs
      <4>2. followers'[q] = followers[q] /\ parent'[q] = parent[q] /\ life'[q] = life[q]
        BY <3>3, <3>6
      <4> QED
        BY <1>1, <1>2, <4>1, <4>2 DEF FollowersMatch
    <3> QED
      BY <3>5, <3>6
  <2> QED
    BY <1>3, <2>3, <2>4
<1>5. CASE th \in Worker /\ Link(th)
  <2>1. PICK t \in Task : t = job[th].cur
    BY <1>5, LinkIs
  <2>2. PICK p \in Task : p = Predecessor(th)
    BY <1>5, LinkIs
  <2>3. p <= t /\ followers' = [followers EXCEPT ![p] = Append(followers[p], PreOf(t))] /\ life[p] # "unborn"
    BY <1>5, <2>1, <2>2, LinkIs
  <2>4. UNCHANGED <<life, parent>>
    BY <1>5 DEF Link
  <2>5. life[t] # "unborn"
    <3>1. InPlace("cur", th, t)
      BY <1>5, <2>1 DEF InPlace
    <3> QED
      BY <1>5, <3>1 DEF IInv, StatusMatches, PlaceKind, Holder, Thread
  <2>6. PreOf(t).task = t /\ PreOf(t).event = "pre"
    BY DEF PreOf
  <2> SUFFICES ASSUME NEW q \in Task
               PROVE  /\ life'[q] = "unborn" => followers'[q] = <<>>
                      /\ \A n \in DOMAIN followers'[q] :
                           LET e == followers'[q][n]
                           IN  /\ life'[e.task] # "unborn"
                               /\ e.event = "post" => n = 1 /\ parent'[q] # Root /\ e.task = parent'[q]
                               /\ e.event = "pre" => q <= e.task
    BY DEF FollowersMatch
  <2>7. CASE q # p
    <3>1. followers'[q] = followers[q]
      BY <1>1, <2>3, <2>7 DEF Types
    <3> QED
      BY <1>1, <2>4, <3>1 DEF FollowersMatch
  <2>8. CASE q = p
    <3>1. followers'[q] = Append(followers[q], PreOf(t))
      BY <1>1, <2>3, <2>8 DEF Types
    <3>2. followers[q] \in Seq([task : Task, event : {"pre", "post"}])
          /\ PreOf(t) \in [task : Task, event : {"pre", "post"}]
      BY <1>1 DEF Types, PreOf
    <3>3. \A n \in DOMAIN followers'[q] :
            \/ n \in DOMAIN followers[q] /\ followers'[q][n] = followers[q][n]
            \/ followers'[q][n] = PreOf(t)
      BY <3>1, <3>2
    <3> QED
      BY <1>1, <2>3, <2>4, <2>5, <2>6, <2>8, <3>3 DEF FollowersMatch
  <2> QED
    BY <2>7, <2>8
<1> QED
  BY <1>3, <1>4, <1>5, StepSpares DEF Spares

\* A step is one of one thread.
LEMMA OthersKeepJob ==
  ASSUME IInv, NEW th \in Thread, Step(th)
  PROVE  job' \in [Thread -> Job] /\ \A u \in Thread : u # th => job'[u] = job[u]
<1>1. Types
  BY DEF IInv
<1>2. CASE \E pc, cur, new, k, it : Sets(th, pc, cur, new, k, it)
  BY <1>2 DEF Sets
<1>3. CASE UNCHANGED job
  BY <1>1, <1>3 DEF Types
<1>4. CASE Creates(th)
  BY <1>2, <1>4, CreateTaskIs DEF Creates
<1>5. CASE Register(th) \/ EmplaceTask(th)
  BY <1>2, <1>5, RegisterIs, EmplaceTaskIs
<1>6. CASE th = Main /\ EndGet
  BY <1>2, <1>6, EndGetIs
<1>7. CASE th = Main /\ ((\E t \in Task : BeginGet(t)) \/ BeginBarrier \/ EndBarrier)
  BY <1>2, <1>7, MainWaitsIs DEF MainWaits
<1>8. CASE th \in Worker /\ \E t \in Task : PopNew(th, t)
  BY <1>2, <1>8, PopNewIs
<1>9. CASE th \in Worker /\ \E t \in Task : PopReady(th, t)
  BY <1>2, <1>9, PopReadyIs
<1>10. CASE th \in Worker /\ LockUsers(th)
  BY <1>2, <1>10, LockUsersIs
<1>11. CASE th \in Worker /\ Scan(th)
  BY <1>2, <1>11, ScanIs DEF Advances
<1>12. CASE th \in Worker /\ Link(th)
  BY <1>2, <1>12, LinkIs
<1>13. CASE th \in Worker /\ CountEdge(th)
  BY <1>2, <1>13, CountEdgeIs DEF Advances
<1>14. CASE th \in Worker /\ EndInit(th)
  BY <1>2, <1>14, EndInitIs
<1>15. CASE th \in Worker /\ Execute(th)
  BY <1>2, <1>15, ExecuteIs
<1>16. CASE th \in Worker /\ EndBody(th)
  BY <1>2, <1>16, EndBodyIs
<1>17. CASE \/ \E t \in Task : DropFuture(th, t)
            \/ NotifyPost(th) \/ NotifyGet(th) \/ ReadWaker(th) \/ DeleteFromResource(th)
            \/ NotifyFollower(th) \/ ActivateTask(th) \/ CountDown(th) \/ FreeTask(th) \/ ReadDepth(th)
  BY Zenon, <1>3, <1>17 DEF DropFuture, NotifyPost, NotifyGet, ReadWaker, DeleteFromResource, NotifyFollower,
     ActivateTask, CountDown, FreeTask, ReadDepth
<1> QED
  BY <1>4, <1>5, <1>6, <1>7, <1>8, <1>9, <1>10, <1>11, <1>12, <1>13, <1>14, <1>15, <1>16, <1>17
     DEF Step, KeepsEdges, Creates

\* The states of events stay numbers.
LEMMA CountersStep ==
  ASSUME IInv, NEW th \in Thread, Step(th)
  PROVE  /\ pre' \in [Task -> Int] /\ post' \in [Task -> Int]
         /\ result_set' \in [Task -> Int] /\ result_get' \in [Task -> Int]
         /\ removal_countdown' \in [Task -> Int]
<1>1. /\ pre \in [Task -> Int] /\ post \in [Task -> Int]
      /\ result_set \in [Task -> Int] /\ result_get \in [Task -> Int]
      /\ removal_countdown \in [Task -> Int]
  BY DEF IInv, Types
<1>2. ASSUME NEW v \in [Task -> Int], NEW t \in Task, NEW i \in Int
      PROVE  [v EXCEPT ![t] = i] \in [Task -> Int]
  OBVIOUS
<1>3. ASSUME NEW v \in [Task -> Int], NEW t \in Task
      PROVE  v[t] + 1 \in Int /\ v[t] - 1 \in Int
  OBVIOUS
<1>4. CASE Creates(th)
  <2>1. PICK t \in Task, a \in AccessSeq : CreateTask(th, t, a)
    BY <1>4 DEF Creates
  <2>2. job[th].cur \in Task \union {Root}
    BY <2>1, CreateTaskIs, InProgramIs
  <2>3. UNCHANGED <<pre, result_set, result_get, removal_countdown>>
    BY <2>1 DEF CreateTask
  <2>4. post' = post \/ \E p \in Task : post' = [post EXCEPT ![p] = post[p] + 1]
    BY <2>1, <2>2, CreateTaskIs
  <2>5. post' \in [Task -> Int]
    BY <1>1, <2>4
  <2> QED
    BY <1>1, <2>3, <2>5
<1>5. CASE \E t \in Task : /\ \/ pre' = [pre EXCEPT ![t] = pre[t] + 1]
                              \/ pre' = [pre EXCEPT ![t] = pre[t] - 1]
                           /\ UNCHANGED <<post, result_set, result_get, removal_countdown>>
  BY <1>1, <1>2, <1>3, <1>5
<1>6. CASE th \in Worker /\ \E t \in Task : PopNew(th, t)
  BY Zenon, <1>5, <1>6, PopNewIs DEF PopNew, objVars
<1>7. CASE th \in Worker /\ (CountEdge(th) \/ EndInit(th) \/ Execute(th))
  <2>1. job[th].cur \in Task
    BY <1>7, CountEdgeIs, EndInitIs, ExecuteIs
  <2> QED
    BY <1>5, <1>7, <2>1, CountEdgeIs, EndInitIs, ExecuteIs DEF CountEdge, EndInit, Execute, objVars
<1>8. CASE UNCHANGED <<pre, post, result_set, result_get, removal_countdown>>
  BY <1>1, <1>8
<1>9. CASE NotifyFollower(th)
  <2>1. PICK g : g = followers[top[th].task][top[th].i]
    OBVIOUS
  <2>2. g.task \in Task /\ (pre' = [pre EXCEPT ![g.task] = pre[g.task] - 1] \/ pre' = pre)
    BY Zenon, <1>9, <2>1, NotifyFollowerIs
  <2>3. UNCHANGED <<post, result_set, result_get, removal_countdown>>
    BY Zenon, <1>9 DEF NotifyFollower, objVars
  <2> QED
    BY <1>5, <1>8, <2>2, <2>3
<1>10. CASE th \in Worker /\ EndBody(th)
  <2>1. UNCHANGED <<pre, post, result_get, removal_countdown>>
    BY <1>10 DEF EndBody, objVars
  <2>2. PICK t \in Task : result_set' = [result_set EXCEPT ![t] = result_set[t] - 1]
    BY <1>10, EndBodyIs
  <2> QED
    BY <1>1, <1>2, <1>3, <2>1, <2>2
<1>11. CASE NotifyPost(th)
  <2>1. UNCHANGED <<pre, result_set, result_get, removal_countdown>>
    BY <1>11 DEF NotifyPost, objVars
  <2>2. PICK t \in Task : post' = [post EXCEPT ![t] = post[t] - 1]
    BY <1>11, NotifyPostIs
  <2> QED
    BY <1>1, <1>2, <1>3, <2>1, <2>2
<1>12. CASE NotifyGet(th)
  <2>1. UNCHANGED <<pre, post, result_set, removal_countdown>>
    BY <1>12 DEF NotifyGet
  <2>2. PICK t \in Task : result_get' = [result_get EXCEPT ![t] = result_get[t] - 1]
    BY <1>12, NotifyGetIs
  <2> QED
    BY <1>1, <1>2, <1>3, <2>1, <2>2
<1>13. CASE CountDown(th)
  <2>1. UNCHANGED <<pre, post, result_set, result_get>>
    BY <1>13 DEF CountDown
  <2>2. PICK t \in Task : removal_countdown' = [removal_countdown EXCEPT ![t] = removal_countdown[t] - 1]
    BY <1>13, CountDownIs
  <2> QED
    BY <1>1, <1>2, <1>3, <2>1, <2>2
<1>14. CASE \/ Register(th) \/ EmplaceTask(th) \/ (\E t \in Task : DropFuture(th, t))
            \/ th = Main /\ EndGet
            \/ th = Main /\ ((\E t \in Task : BeginGet(t)) \/ BeginBarrier \/ EndBarrier)
            \/ th \in Worker /\ \E t \in Task : PopReady(th, t)
  BY Zenon, <1>8, <1>14 DEF Register, EmplaceTask, DropFuture, EndGet, BeginGet, BeginBarrier, EndBarrier,
     PopReady, objVars
<1>15. CASE \/ th \in Worker /\ (LockUsers(th) \/ Scan(th) \/ Link(th))
            \/ ReadWaker(th) \/ DeleteFromResource(th) \/ ActivateTask(th) \/ FreeTask(th) \/ ReadDepth(th)
  BY Zenon, <1>8, <1>15 DEF LockUsers, Scan, Link, ReadWaker, DeleteFromResource, ActivateTask, FreeTask,
     ReadDepth, objVars
<1> QED
  BY <1>4, <1>6, <1>7, <1>9, <1>10, <1>11, <1>12, <1>13, <1>14, <1>15 DEF Step, KeepsEdges, Creates

\* The types of all variables.
LEMMA TypesStep ==
  ASSUME IInv, NEW th \in Thread, Step(th)
  PROVE  Types'
<1>1. Types
  BY DEF IInv
<1>2. life' \in [Task -> {"unborn", "alive", "freed"}]
  <2>1. CASE Creates(th) \/ FreeTask(th)
    <3>1. \E t \in Task : life' = [life EXCEPT ![t] = "alive"] \/ life' = [life EXCEPT ![t] = "freed"]
      BY <2>1, CreateTaskIs, FreeTaskIs DEF Creates
    <3> QED
      BY <1>1, <3>1 DEF Types
  <2> QED
    BY <1>1, <2>1, StepSpares DEF Spares, Types
<1>3. parent' \in [Task -> Task \union {Root}] /\ access' \in [Task -> AccessSeq]
  <2>1. CASE Creates(th)
    <3>1. PICK t \in Task, a \in AccessSeq : CreateTask(th, t, a)
      BY <2>1 DEF Creates
    <3>2. PICK p \in Task \union {Root} : p = job[th].cur
      BY <3>1, CreateTaskIs, InProgramIs
    <3>3. parent' = [parent EXCEPT ![t] = p] /\ access' = [access EXCEPT ![t] = a]
      BY <3>1, <3>2, CreateTaskIs
    <3> QED
      BY <1>1, <3>3 DEF Types
  <2> QED
    BY <1>1, <2>1, StepSpares DEF Spares, Types
<1>4. followers' \in [Task -> Seq([task : Task, event : {"pre", "post"}])]
  <2>1. CASE Creates(th)
    <3>1. PICK t \in Task, a \in AccessSeq : CreateTask(th, t, a)
      BY <2>1 DEF Creates
    <3>2. PICK p \in Task \union {Root} : p = job[th].cur
      BY <3>1, CreateTaskIs, InProgramIs
    <3>3. followers' = followers \/ (p \in Task /\ followers' = [followers EXCEPT ![t] = <<PostOf(p)>>])
      BY <3>1, <3>2, CreateTaskIs
    <3>4. p \in Task => <<PostOf(p)>> \in Seq([task : Task, event : {"pre", "post"}])
      <4>1. p \in Task => PostOf(p) \in [task : Task, event : {"pre", "post"}]
        BY DEF PostOf
      <4> QED
        BY <4>1
    <3> QED
      BY <1>1, <3>3, <3>4 DEF Types
  <2>2. CASE th \in Worker /\ Link(th)
    <3>1. PICK t \in Task, q \in Task : followers' = [followers EXCEPT ![q] = Append(followers[q], PreOf(t))]
      BY <2>2, LinkIs
    <3>2. PreOf(t) \in [task : Task, event : {"pre", "post"}]
      BY DEF PreOf
    <3> QED
      BY <1>1, <3>1, <3>2 DEF Types
  <2> QED
    BY <1>1, <2>1, <2>2, StepSpares DEF Spares, Types
<1>5. future' \in [Task -> {"none", "held", "gone"}]
  <2>1. CASE EmplaceTask(th)
    BY ZenonT(60), <1>1, <2>1, EmplaceTaskIs DEF Types
  <2>2. CASE (\E t \in Task : DropFuture(th, t)) \/ (th = Main /\ EndGet)
    BY <1>1, <2>2, GetBeginsIs DEF Types, GetBegins
  <2> QED
    BY <1>1, <2>1, <2>2, StepSpares DEF Spares, Types
<1>6. users' \in [Resource -> Seq(Task \X Nat)]
  <2>1. CASE Register(th)
    <3>1. PICK t \in Task : t = job[th].new
      BY <2>1, RegisterIs
    <3>2. PICK k \in 1..Len(access[t]) : k = job[th].k
      BY <2>1, <3>1, RegisterIs
    <3>3. PICK r \in Resource : r = ResourceOf(t, k)
      BY <2>1, <3>1, <3>2, RegisterIs
    <3>4. users' = [users EXCEPT ![r] = Append(users[r], <<t, k>>)]
      BY Zenon, <2>1, <3>1, <3>2, <3>3, RegisterIs
    <3>5. <<t, k>> \in Task \X Nat
      BY <1>1, AccessIs
    <3> QED
      BY SMTT(60), <1>1, <3>4, <3>5 DEF Types
  <2>2. CASE DeleteFromResource(th)
    <3>1. PICK r \in Resource : r = ResourceOf(top[th].task, top[th].i)
      BY <2>2, DeleteIs
    <3>2. PICK n \in DOMAIN users[r] : users' = [users EXCEPT ![r] = Seqs!RemoveAt(users[r], n)]
      BY <2>2, <3>1, DeleteIs
    <3>3. users[r] \in Seq(Task \X Nat) /\ n \in 1..Len(users[r])
      BY <1>1, EntryIs DEF Types
    <3>4. Seqs!RemoveAt(users[r], n) \in Seq(Task \X Nat)
      BY <3>3, RemoveAtIs
    <3> QED
      BY <1>1, <3>2, <3>4 DEF Types
  <2> QED
    BY <1>1, <2>1, <2>2, StepSpares DEF Spares, Types
<1>7. users_mutex' \in [Resource -> Worker \union {NoThread}]
  <2>1. CASE th \in Worker /\ LockUsers(th)
    <3>1. PICK r : users_mutex' = [users_mutex EXCEPT ![r] = th]
      BY <2>1, LockUsersIs
    <3> QED
      BY <1>1, <2>1, <3>1 DEF Types
  <2>2. CASE th \in Worker /\ (Scan(th) \/ CountEdge(th))
    <3>1. \/ users_mutex' = users_mutex
          \/ users_mutex' = [users_mutex EXCEPT ![ResourceOf(job[th].cur, job[th].k)] = NoThread]
      BY <2>2, ScanIs, CountEdgeIs DEF Advances
    <3> QED
      BY <1>1, <3>1 DEF Types
  <2> QED
    BY <1>1, <2>1, <2>2, StepSpares DEF Spares, Types
<1>8. emplaced' \subseteq Task /\ started' \subseteq Task
  <2>1. emplaced' \subseteq Task
    <3>1. CASE EmplaceTask(th)
      <4>1. PICK t \in Task : emplaced' = emplaced \union {t}
        BY <3>1, EmplaceTaskIs
      <4> QED
        BY <1>1, <4>1 DEF Types
    <3>2. CASE th \in Worker /\ \E t \in Task : PopNew(th, t)
      <4>1. PICK t \in Task : emplaced' = emplaced \ {t}
        BY <3>2, PopNewIs
      <4> QED
        BY <1>1, <4>1 DEF Types
    <3> QED
      BY <1>1, <3>1, <3>2, StepSpares DEF Spares, Types
  <2>2. started' \subseteq Task
    <3>1. CASE th \in Worker /\ Execute(th)
      <4>1. PICK t \in Task : started' = started \union {t}
        BY <3>1, ExecuteIs
      <4> QED
        BY <1>1, <4>1 DEF Types
    <3> QED
      BY <1>1, <3>1, StepSpares DEF Spares, Types
  <2> QED
    BY <2>1, <2>2
<1>9. ready' \in [Task -> Nat]
  <2>1. CASE ActivateTask(th)
    <3>1. PICK t \in Task : ready' = [ready EXCEPT ![t] = ready[t] + 1]
      BY <2>1, ActivateTaskIs
    <3> QED
      BY <1>1, <3>1 DEF Types
  <2>2. CASE th \in Worker /\ \E t \in Task : PopReady(th, t)
    <3>1. PICK t \in Task : ready[t] > 0 /\ ready' = [ready EXCEPT ![t] = ready[t] - 1]
      BY <2>2, PopReadyIs
    <3> QED
      BY <1>1, <3>1 DEF Types
  <2> QED
    BY <1>1, <2>1, <2>2, StepSpares DEF Spares, Types
<1>10. stack' \in [Thread -> Seq(Frame)]
  BY <1>1, StackStep DEF TurnsWell, Turns, Nests, Calls, Types
<1> QED
  BY <1>2, <1>3, <1>4, <1>5, <1>6, <1>7, <1>8, <1>9, <1>10, OthersKeepJob, CountersStep DEF Types

-----------------------------------------------------------------------------
(***************************************************************************)
(* Where the tasks are.                                                    *)
(***************************************************************************)

\* OnePlace and StatusMatches for one task.
Placed(t) ==
  /\ ready[t] \in {0, 1}
  /\ \A k1, k2 \in PlaceKind, h1, h2 \in Holder :
       InPlace(k1, h1, t) /\ InPlace(k2, h2, t) => k1 = k2 /\ h1 = h2
  /\ \A k \in PlaceKind, h \in Holder : InPlace(k, h, t) =>
       /\ life[t] # "unborn"
       /\ k # "cur" \/ job[h].pc = "exec" => t \notin started /\ pre[t] = 1
       /\ k = "cur" /\ job[h].pc \in InitPcs \union {"up"} => t \notin started
       /\ k = "cur" /\ job[h].pc \in {"body", "register"} => t \in started
  /\ t \in started => pre[t] = 0
  /\ life[t] = "unborn" => t \notin started /\ pre[t] = 1

\* They are.
LEMMA PlacedIs ==
  (OnePlace /\ StatusMatches) <=> \A t \in Task : Placed(t)
BY DEF OnePlace, StatusMatches, Placed

\* A step moves no innermost notification but the one of its thread.
LEMMA OthersKeepTop ==
  ASSUME IInv, NEW th \in Thread, Step(th)
  PROVE  \A u \in Thread : u # th => top'[u] = top[u]
BY ZenonT(60), StackStep, SameStack DEF TurnsWell, Turns, Nests, Calls

\* The other threads have the same tasks in hand.
LEMMA OtherPlaces ==
  ASSUME IInv, NEW th \in Thread, Step(th), NEW u \in Thread, u # th, NEW t \in Task,
         NEW k \in {"register", "cur", "activate"}
  PROVE  InPlace(k, u, t)' <=> InPlace(k, u, t)
<1>1. job'[u] = job[u] /\ top'[u] = top[u]
  BY OthersKeepJob, OthersKeepTop
<1>2. top[u].pc = "activate" => followers'[top[u].task][top[u].i] = followers[top[u].task][top[u].i]
  <2>1. SUFFICES ASSUME top[u].pc = "activate"
                 PROVE  followers'[top[u].task][top[u].i] = followers[top[u].task][top[u].i]
    OBVIOUS
  <2>2. TopSlot(u) \in Slot /\ top[u] = fr[TopSlot(u)]
    BY TopFrame DEF IInv, Types
  <2>3. top[u].task \in Task /\ top[u].i \in 1..Len(followers[top[u].task])
    BY <2>1, <2>2 DEF IInv, FramesMatch, FrameMatches
  <2>4. PICK q \in Task : q = top[u].task
    BY <2>3
  <2> QED
    BY <2>3, <2>4, FollowersStep
<1>3. CASE k = "register"
  BY <1>1, <1>3 DEF InPlace
<1>4. CASE k = "cur"
  BY <1>1, <1>4 DEF InPlace
<1>5. CASE k = "activate"
  <2>1. InPlace(k, u, t) <=> top[u].pc = "activate" /\ followers[top[u].task][top[u].i] = PreOf(t)
    BY <1>5 DEF InPlace
  <2>2. InPlace(k, u, t)' <=> top'[u].pc = "activate" /\ followers'[top'[u].task][top'[u].i] = PreOf(t)
    BY <1>5 DEF InPlace, PreOf
  <2> QED
    BY <1>1, <1>2, <2>1, <2>2
<1> QED
  BY <1>3, <1>4, <1>5

\* No new place for t in a step of th.
NoNewPlace(th, t) ==
  /\ InPlace("register", th, t)' => InPlace("register", th, t)
  /\ t \in emplaced' => t \in emplaced
  /\ th \in Worker /\ job'[th].cur = t => job[th].cur = t
  /\ ready'[t] > 0 => ready[t] > 0
  /\ InPlace("activate", th, t)' => InPlace("activate", th, t)

\* What is kept then.
LEMMA PlacesKept ==
  ASSUME IInv, NEW th \in Thread, Step(th), NEW t \in Task, NoNewPlace(th, t)
  PROVE  \A k \in PlaceKind, h \in Holder : InPlace(k, h, t)' => InPlace(k, h, t)
<1> SUFFICES ASSUME NEW k \in PlaceKind, NEW h \in Holder, InPlace(k, h, t)'
             PROVE  InPlace(k, h, t)
  OBVIOUS
<1>1. CASE k = "emplaced"
  BY <1>1 DEF InPlace, NoNewPlace
<1>2. CASE k = "ready"
  BY <1>2 DEF InPlace, NoNewPlace
<1>3. CASE k \in {"register", "cur", "activate"}
  <2>1. h \in Thread
    BY <1>3, Constants DEF InPlace
  <2>2. CASE h # th
    BY <1>3, <2>1, <2>2, OtherPlaces
  <2>3. CASE h = th /\ k = "cur"
    BY <2>3 DEF InPlace, NoNewPlace
  <2>4. CASE h = th /\ k # "cur"
    BY <1>3, <2>4 DEF NoNewPlace
  <2> QED
    BY <2>2, <2>3, <2>4
<1> QED
  BY <1>1, <1>2, <1>3 DEF PlaceKind

\* The only place of t after a step of th is k2, h2.
OnlyPlace(th, t, k2, h2) ==
  /\ InPlace("register", th, t)' => k2 = "register" /\ h2 = th
  /\ t \in emplaced' => k2 = "emplaced" /\ h2 = NoThread
  /\ th \in Worker /\ job'[th].cur = t => k2 = "cur" /\ h2 = th
  /\ ready'[t] > 0 => k2 = "ready" /\ h2 = NoThread
  /\ InPlace("activate", th, t)' => k2 = "activate" /\ h2 = th

\* It is, when no other thread has t in hand.
LEMMA PlaceMoves ==
  ASSUME IInv, NEW th \in Thread, Step(th), NEW t \in Task,
         NEW k2 \in PlaceKind, NEW h2 \in Holder, OnlyPlace(th, t, k2, h2),
         \A k \in PlaceKind, h \in Thread : InPlace(k, h, t) => h = th
  PROVE  \A k \in PlaceKind, h \in Holder : InPlace(k, h, t)' => k = k2 /\ h = h2
<1> SUFFICES ASSUME NEW k \in PlaceKind, NEW h \in Holder, InPlace(k, h, t)'
             PROVE  k = k2 /\ h = h2
  OBVIOUS
<1>1. CASE k = "emplaced"
  BY <1>1 DEF InPlace, OnlyPlace
<1>2. CASE k = "ready"
  BY <1>2 DEF InPlace, OnlyPlace
<1>3. CASE k \in {"register", "cur", "activate"}
  <2>1. h \in Thread
    BY <1>3, Constants DEF InPlace
  <2>2. h = th
    BY <1>3, <2>1, OtherPlaces
  <2>3. CASE k = "cur"
    BY <2>2, <2>3 DEF InPlace, OnlyPlace
  <2>4. CASE k # "cur"
    BY <1>3, <2>2, <2>4 DEF OnlyPlace
  <2> QED
    BY <2>3, <2>4
<1> QED
  BY <1>1, <1>2, <1>3 DEF PlaceKind

\* A task that stays where it is.
LEMMA PlacedKept ==
  ASSUME IInv, NEW th \in Thread, Step(th), NEW t \in Task, NoNewPlace(th, t),
         ready'[t] \in {0, 1}, pre'[t] = pre[t] \/ (th \in Worker /\ job[th].cur = t) \/
                               (t \notin started /\ \A k \in PlaceKind, h \in Holder :
                                  InPlace(k, h, t) => k = "cur" /\ job[h].pc # "exec"),
         t \in started' <=> t \in started,
         life[t] = "unborn" => pre'[t] = pre[t],
         t \in started => pre'[t] = pre[t],
         life'[t] = "unborn" => life[t] = "unborn",
         th \in Worker /\ job'[th].cur = t =>
           /\ job'[th].pc = "exec" => t \notin started /\ pre'[t] = 1
           /\ job'[th].pc \in InitPcs \union {"up"} => t \notin started
           /\ job'[th].pc \in {"body", "register"} => t \in started
  PROVE  Placed(t)'
<1>1. Placed(t)
  BY PlacedIs DEF IInv
<1>2. \A k \in PlaceKind, h \in Holder : InPlace(k, h, t)' => InPlace(k, h, t)
  BY PlacesKept
<1>3. life[t] # "unborn" => life'[t] # "unborn"
  BY FollowersStep
<1>4. ASSUME NEW k \in PlaceKind, NEW h \in Holder, InPlace(k, h, t)'
      PROVE  /\ life'[t] # "unborn"
             /\ k # "cur" \/ job'[h].pc = "exec" => t \notin started' /\ pre'[t] = 1
             /\ k = "cur" /\ job'[h].pc \in InitPcs \union {"up"} => t \notin started'
             /\ k = "cur" /\ job'[h].pc \in {"body", "register"} => t \in started'
  <2>1. InPlace(k, h, t)
    BY <1>2, <1>4
  <2>2. /\ life[t] # "unborn"
        /\ k # "cur" \/ job[h].pc = "exec" => t \notin started /\ pre[t] = 1
        /\ k = "cur" /\ job[h].pc \in InitPcs \union {"up"} => t \notin started
        /\ k = "cur" /\ job[h].pc \in {"body", "register"} => t \in started
    BY <1>1, <2>1 DEF Placed
  <2>3. CASE k = "cur"
    <3>1. h \in Worker /\ job'[h].cur = t
      BY <1>4, <2>3 DEF InPlace
    <3>2. CASE h = th
      BY <1>3, <2>2, <2>3, <3>1, <3>2
    <3>3. CASE h # th
      <4>1. job'[h] = job[h]
        BY <3>1, <3>3, OthersKeepJob, Constants
      <4>2. job[th].cur # t \/ th \notin Worker
        <5>1. th \in Worker /\ job[th].cur = t => InPlace("cur", th, t)
          BY DEF InPlace
        <5> QED
          BY <1>1, <2>1, <2>3, <3>3, <5>1 DEF Placed, PlaceKind, Holder
      <4>3. job[h].pc = "exec" => pre'[t] = pre[t]
        BY <2>1, <2>3, <4>2
      <4> QED
        BY <1>3, <2>2, <2>3, <4>1, <4>3
    <3> QED
      BY <3>2, <3>3
  <2>4. CASE k # "cur"
    <3>1. ~ (th \in Worker /\ job[th].cur = t)
      <4>1. th \in Worker /\ job[th].cur = t => InPlace("cur", th, t)
        BY DEF InPlace
      <4> QED
        BY <1>1, <2>1, <2>4, <4>1 DEF Placed, PlaceKind, Holder
    <3>2. pre'[t] = pre[t]
      BY <2>1, <2>4, <3>1
    <3> QED
      BY <1>3, <2>2, <2>4, <3>2
  <2> QED
    BY <2>3, <2>4
<1>5. \A k1, k2 \in PlaceKind, h1, h2 \in Holder :
       InPlace(k1, h1, t)' /\ InPlace(k2, h2, t)' => k1 = k2 /\ h1 = h2
  BY <1>1, <1>2 DEF Placed
<1>6. t \in started' => pre'[t] = 0
  BY <1>1 DEF Placed
<1>7. life'[t] = "unborn" => t \notin started' /\ pre'[t] = 1
  BY <1>1 DEF Placed
<1> QED
  BY <1>4, <1>5, <1>6, <1>7 DEF Placed

\* A task that moves.
LEMMA PlacedMoved ==
  ASSUME IInv, NEW th \in Thread, Step(th), NEW t \in Task,
         NEW k2 \in PlaceKind, NEW h2 \in Holder, OnlyPlace(th, t, k2, h2),
         \A k \in PlaceKind, h \in Thread : InPlace(k, h, t) => h = th,
         ready'[t] \in {0, 1}, life'[t] # "unborn",
         k2 # "cur" \/ job'[h2].pc = "exec" => t \notin started' /\ pre'[t] = 1,
         k2 = "cur" /\ job'[h2].pc \in InitPcs \union {"up"} => t \notin started',
         k2 = "cur" /\ job'[h2].pc \in {"body", "register"} => t \in started',
         t \in started' => pre'[t] = 0
  PROVE  Placed(t)'
<1>1. \A k \in PlaceKind, h \in Holder : InPlace(k, h, t)' => k = k2 /\ h = h2
  BY PlaceMoves
<1> QED
  BY <1>1 DEF Placed

\* Two edges into one event.
LEMMA TwoEdges ==
  ASSUME NEW S, IsFiniteSet(S), NEW x \in S, NEW y \in S, x # y
  PROVE  Cardinality(S) >= 2
<1>1. IsFiniteSet(S \ {x}) /\ Cardinality(S \ {x}) = Cardinality(S) - 1
  BY FS_RemoveElement
<1>2. y \in S \ {x}
  OBVIOUS
<1>3. Cardinality(S \ {x}) >= 1 /\ Cardinality(S \ {x}) \in Nat
  BY <1>1, <1>2, NonEmptySize
<1>4. Cardinality(S) \in Nat
  BY NonEmptySize
<1> QED
  BY <1>1, <1>3, <1>4

\* A follower that is being notified does not run yet; if this is the last
\* edge, it is not being initialised either.
LEMMA NotifiedIsIdle ==
  ASSUME IInv, NEW th \in Thread, NotifyFollower(th), NEW t \in Task,
         followers[top[th].task][top[th].i] = PreOf(t)
  PROVE  /\ t \notin started /\ life[t] # "unborn"
         /\ \A k \in PlaceKind, h \in Holder : InPlace(k, h, t) =>
              k = "cur" /\ job[h].pc \in InitPcs \union {"up"} /\ pre[t] # 2
<1>1. Types /\ PreCounts /\ StatusMatches /\ FollowersMatch /\ ThreadsMatch /\ CarriedOnce
  BY DEF IInv
<1>2. PICK q \in Task : q = top[th].task
  BY Zenon, NotifyFollowerIs
<1>3. PICK i \in Nat : i = top[th].i
  BY Zenon, NotifyFollowerIs
<1>4. i \in DOMAIN followers[q] /\ followers[q][i] = PreOf(t) /\ top[th].pc = "followers"
  BY Zenon, <1>2, <1>3, NotifyFollowerIs
<1>5. Pending(q, i)
  BY <1>2, <1>3, NotifyFollowerPending DEF PendingDrops
<1>6. <<q, i>> \in Edges(PreOf(t))
  BY <1>4, <1>5 DEF Edges
<1>7. PICK c \in Nat : c = Cardinality(Edges(PreOf(t))) /\ c >= 1
  BY <1>1, <1>6, NonEmptySize DEF PreCounts
<1>8. /\ pre[t] = (IF t \in started THEN 0 ELSE 1) + (IF Initialised(t) THEN 1 ELSE 0) + c
      /\ pre[t] \in Int
  BY <1>1, <1>7 DEF PreCounts, Types
<1>9. t \notin started
  <2>1. t \in started => pre[t] = 0
    BY <1>1 DEF StatusMatches
  <2> QED
    BY <1>7, <1>8, <2>1
<1>10. life[t] # "unborn"
  <2>1. PreOf(t).task = t
    BY DEF PreOf
  <2> QED
    BY <1>1, <1>4, <2>1 DEF FollowersMatch
<1>11. ASSUME NEW k \in PlaceKind, NEW h \in Holder, InPlace(k, h, t)
       PROVE  k = "cur" /\ job[h].pc \in InitPcs \union {"up"} /\ pre[t] # 2
  <2>1. /\ k # "cur" \/ job[h].pc = "exec" => pre[t] = 1
        /\ k = "cur" /\ job[h].pc \in {"body", "register"} => t \in started
    BY <1>1, <1>11 DEF StatusMatches
  <2>2. pre[t] # 1
    BY <1>7, <1>8, <1>9
  <2>3. k = "cur"
    BY <2>1, <2>2
  <2>4. h \in Worker /\ job[h].cur = t
    BY <1>11, <2>3 DEF InPlace
  <2>5. h \in Thread /\ h # Main /\ t # Root
    BY <2>4, Constants
  <2>6. job[h].pc \in {"init", "scan", "link", "up"}
    <3>1. job[h].pc \in {"gather", "init", "scan", "link", "up", "exec", "body", "register"}
          /\ (job[h].pc = "gather" <=> job[h].cur = Root)
      BY <1>1, <2>5 DEF ThreadsMatch, JobMatches
    <3> QED
      BY <1>9, <2>1, <2>2, <2>3, <2>4, <2>5, <3>1
  <2>7. CASE job[h].pc \in InitPcs
    <3>1. Initialised(t)
      BY <2>4, <2>7 DEF Initialised
    <3>2. pre[t] # 2
      BY <1>7, <1>8, <1>9, <3>1
    <3> QED
      BY <2>3, <2>7, <3>2
  <2>8. CASE job[h].pc = "up"
    <3>1. PICK p \in Task : p = Predecessor(h)
      <4>1. job[h].it > 0
        BY <1>1, <2>4, <2>8 DEF ThreadsMatch, Searches
      <4> QED
        BY <2>4, <2>8, <4>1, PredecessorIs
    <3>2. PICK n \in Nat : Pending(p, n) /\ followers[p][n] = PreOf(t)
      BY <1>1, <2>4, <2>8, <3>1 DEF ThreadsMatch, Searches
    <3>3. <<p, n>> \in Edges(PreOf(t))
      BY <3>2 DEF Edges
    <3>4. p # q
      <4>1. SUFFICES ASSUME p = q PROVE FALSE
        OBVIOUS
      <4>2. PICK y \in Slot : y = TopSlot(th) /\ top[th] = fr[y]
        BY <1>1, TopFrame DEF Types
      <4>3. Carries(y, q)
        BY <1>2, <1>4, <4>2 DEF Carries
      <4>4. post[q] = 0
        BY <1>1, <4>3 DEF CarriedOnce
      <4>5. \E j \in Nat : Listed(p, j)
        <5>1. job[h].it > 0
          BY <1>1, <2>4, <2>8 DEF ThreadsMatch, Searches
        <5>2. PICK r \in Resource : r = ResourceOf(job[h].cur, job[h].k) /\ job[h].it \in DOMAIN users[r]
                                    /\ Listed(p, users[r][job[h].it][2])
          BY <2>4, <2>8, <3>1, <5>1, PredecessorIs
        <5> QED
          BY <1>1, <5>2, EntryIs
      <4>6. PICK x \in Slot : Carries(x, p) /\ fr[x].pc \in {"waker", "delete"}
        BY <4>1, <4>4, <4>5 DEF Listed
      <4>7. x = y
        BY <1>1, <4>1, <4>3, <4>6 DEF CarriedOnce
      <4> QED
        BY <1>4, <4>2, <4>6, <4>7
    <3>5. <<p, n>> # <<q, i>>
      BY <3>4
    <3>6. c >= 2
      BY <1>1, <1>6, <1>7, <3>3, <3>5, TwoEdges DEF PreCounts
    <3>7. pre[t] # 2
      BY <1>8, <1>9, <3>6
    <3> QED
      BY <2>3, <2>8, <3>7
  <2> QED
    BY <2>6, <2>7, <2>8 DEF InitPcs
<1> QED
  BY <1>9, <1>10, <1>11

\* When a task is where it is, by the step of its thread.
LEMMA NoPlace ==
  ASSUME NEW th \in Thread, NEW t \in Task
  PROVE  /\ top'[th].pc # "activate" => ~ InPlace("activate", th, t)'
         /\ job'[th].pc # "register" => ~ InPlace("register", th, t)'
         /\ job'[th].new # t => ~ InPlace("register", th, t)'
         /\ InPlace("register", th, t)' <=> job'[th].pc = "register" /\ job'[th].new = t
         /\ InPlace("register", th, t) <=> job[th].pc = "register" /\ job[th].new = t
         /\ InPlace("emplaced", NoThread, t) <=> t \in emplaced
         /\ InPlace("ready", NoThread, t) <=> ready[t] > 0
         /\ th \in Worker => (InPlace("cur", th, t) <=> job[th].cur = t)
         /\ InPlace("activate", th, t) <=>
              top[th].pc = "activate" /\ followers[top[th].task][top[th].i] = PreOf(t)
BY DEF InPlace, PreOf

\* The places are among these.
LEMMA PlaceNames ==
  /\ \A k \in {"register", "cur", "activate", "emplaced", "ready"} : k \in PlaceKind
  /\ NoThread \in Holder /\ \A th \in Thread : th \in Holder
BY DEF PlaceKind, Holder

\* Steps of notify that have no task to hand over.
LEMMA NotifyPlaces ==
  ASSUME IInv, NEW th \in Thread, Step(th), NEW t \in Task,
         UNCHANGED <<job, emplaced, ready, pre, started>>,
         top'[th].pc # "activate",
         life'[t] = "unborn" => life[t] = "unborn"
  PROVE  Placed(t)'
<1>1. Placed(t)
  BY PlacedIs DEF IInv
<1>2. NoNewPlace(th, t)
  BY NoPlace DEF NoNewPlace
<1>3. th \in Worker /\ job[th].cur = t =>
           /\ job[th].pc = "exec" => t \notin started /\ pre[t] = 1
           /\ job[th].pc \in InitPcs \union {"up"} => t \notin started
           /\ job[th].pc \in {"body", "register"} => t \in started
  BY <1>1, NoPlace, PlaceNames DEF Placed
<1>4. ready'[t] \in {0, 1}
  BY <1>1 DEF Placed
<1> QED
  BY <1>2, <1>3, <1>4, PlacedKept

\* They have none.
LEMMA QuietTop ==
  ASSUME IInv, NEW th \in Thread,
         \/ NotifyPost(th) \/ NotifyGet(th) \/ ReadWaker(th) \/ DeleteFromResource(th)
         \/ CountDown(th) \/ FreeTask(th) \/ ReadDepth(th)
  PROVE  top'[th].pc # "activate" /\ top[th].pc # "activate"
<1>1. ASSUME NEW h, Turns(th, h), h.pc # "activate"
      PROVE  top'[th].pc # "activate"
  BY <1>1 DEF Turns
<1>2. NoFrame.pc # "activate"
  BY DEF NoFrame
<1>3. ASSUME NEW pc, pc # "activate", NEW t, NEW i PROVE AFrame(t, pc, i).pc # "activate"
  BY <1>3 DEF AFrame
<1>4. CASE NotifyPost(th)
  BY <1>1, <1>2, <1>3, <1>4, NotifyPostIs
<1>5. CASE NotifyGet(th)
  BY <1>1, <1>2, <1>3, <1>5, NotifyGetIs
<1>6. CASE ReadWaker(th)
  BY <1>1, <1>2, <1>3, <1>6, ReadWakerIs
<1>7. CASE DeleteFromResource(th)
  <2>1. top[th].i > 1 \/ top[th].i = 1
    <3>1. top[th].task \in Task /\ top[th].i \in 1..Len(access[top[th].task])
      BY <1>7, DeleteIs
    <3>2. Len(access[top[th].task]) \in Nat
      BY <3>1, AccessIs DEF IInv
    <3> QED
      BY <3>1, <3>2
  <2> QED
    BY <1>1, <1>2, <1>3, <1>7, <2>1, DeleteIs
<1>8. CASE CountDown(th)
  BY <1>1, <1>2, <1>3, <1>8, CountDownIs
<1>9. CASE FreeTask(th)
  BY <1>1, <1>2, <1>3, <1>9, FreeTaskIs
<1>10. CASE ReadDepth(th)
  BY <1>1, <1>2, <1>3, <1>10, ReadDepthIs
<1> QED
  BY <1>4, <1>5, <1>6, <1>7, <1>8, <1>9, <1>10

\* Outside of notify: what a step of th means for a task that it does not move.
LEMMA StaysPlaced ==
  ASSUME IInv, NEW th \in Thread, Step(th), NEW t \in Task,
         NEW pc, NEW cur, NEW new, NEW k, NEW it, Sets(th, pc, cur, new, k, it),
         top'[th].pc # "activate",
         pc = "register" /\ new = t => job[th].pc = "register" /\ job[th].new = t,
         cur = t => job[th].cur = t,
         t \in emplaced' => t \in emplaced, ready'[t] = ready[t] \/ ready'[t] = 0,
         pre'[t] = pre[t] \/ (th \in Worker /\ job[th].cur = t /\ t \notin started),
         t \in started' <=> t \in started,
         life'[t] = "unborn" => life[t] = "unborn",
         th \in Worker /\ cur = t =>
           /\ pc = "exec" => t \notin started /\ pre'[t] = 1
           /\ pc \in InitPcs \union {"up"} => job[th].pc \in InitPcs \union {"up"}
           /\ pc \in {"body", "register"} => job[th].pc \in {"body", "register"}
  PROVE  Placed(t)'
<1>1. Placed(t)
  BY PlacedIs DEF IInv
<1>2. job'[th].pc = pc /\ job'[th].cur = cur /\ job'[th].new = new
  BY DEF Sets
<1>3. ready[t] \in {0, 1}
  BY <1>1 DEF Placed
<1>4. NoNewPlace(th, t)
  <2>1. ready'[t] > 0 => ready[t] > 0
    BY <1>3
  <2> QED
    BY <1>2, <2>1, NoPlace DEF NoNewPlace
<1>5. th \in Worker /\ job[th].cur = t =>
           /\ life[t] # "unborn"
           /\ job[th].pc = "exec" => t \notin started /\ pre[t] = 1
           /\ job[th].pc \in InitPcs \union {"up"} => t \notin started
           /\ job[th].pc \in {"body", "register"} => t \in started
  BY <1>1, NoPlace, PlaceNames DEF Placed
<1>6. ready'[t] \in {0, 1}
  BY <1>3
<1>7. th \in Worker /\ job'[th].cur = t =>
           /\ job'[th].pc = "exec" => t \notin started /\ pre'[t] = 1
           /\ job'[th].pc \in InitPcs \union {"up"} => t \notin started
           /\ job'[th].pc \in {"body", "register"} => t \in started
  BY <1>2, <1>5
<1>8. (life[t] = "unborn" => pre'[t] = pre[t]) /\ (t \in started => pre'[t] = pre[t])
  BY <1>5
<1> QED
  BY <1>4, <1>6, <1>7, <1>8, PlacedKept

\* The creation of a task puts it into the hands of its creator.
LEMMA CreatePlaces ==
  ASSUME IInv, NEW th \in Thread, Step(th), NEW t \in Task, NEW a \in AccessSeq, CreateTask(th, t, a),
         NEW u \in Task
  PROVE  Placed(u)'
<1>1. Types /\ Placed(u)
  BY PlacedIs DEF IInv
<1>2. PICK p : p = job[th].cur
  OBVIOUS
<1>3. /\ InProgram(th) /\ life[t] = "unborn" /\ life' = [life EXCEPT ![t] = "alive"]
      /\ Sets(th, "register", p, t, Len(a), job[th].it)
  BY <1>2, CreateTaskIs
<1>4. UNCHANGED <<pre, emplaced, ready, stack, started>>
  BY DEF CreateTask, queueVars
<1>5. /\ stack[th] = <<>> /\ top[th] = NoFrame
      /\ \/ th = Main /\ job[th].pc = "top" /\ job[th].cur = Root
         \/ th \in Worker /\ th # Main /\ job[th].pc = "body" /\ job[th].cur \in Task
  BY <1>3, InProgramIs
<1>6. top'[th].pc # "activate"
  BY <1>4, <1>5, SameStack DEF NoFrame
<1>7. life'[u] = IF u = t THEN "alive" ELSE life[u]
  BY <1>1, <1>3 DEF Types
<1>8. CASE u # t
  <2>1. th \in Worker /\ p = u => job[th].pc \in {"body", "register"}
    BY <1>5, Constants
  <2> QED
    BY <1>2, <1>3, <1>4, <1>6, <1>7, <1>8, <2>1, StaysPlaced DEF InitPcs
<1>9. CASE u = t
  <2>1. \A k \in PlaceKind, h \in Holder : ~ InPlace(k, h, t)
    BY <1>1, <1>3, <1>9 DEF Placed
  <2>2. \A k \in PlaceKind, h \in Thread : InPlace(k, h, t) => h = th
    BY <2>1, PlaceNames
  <2>3. t \notin emplaced /\ ~ (ready[t] > 0) /\ (th \in Worker => job[th].cur # t)
    BY <2>1, NoPlace, PlaceNames
  <2>4. OnlyPlace(th, t, "register", th)
    <3>1. job'[th].cur = p
      BY <1>3 DEF Sets
    <3> QED
      BY <1>2, <1>4, <1>6, <2>3, <3>1, NoPlace DEF OnlyPlace
  <2>5. t \notin started /\ pre[t] = 1 /\ ready[t] \in {0, 1}
    BY <1>1, <1>3, <1>9 DEF Placed
  <2>6. "register" \in PlaceKind /\ th \in Holder
    BY PlaceNames
  <2>7. Placed(t)'
    BY <1>4, <1>7, <1>9, <2>2, <2>4, <2>5, <2>6, PlacedMoved
  <2> QED
    BY <1>9, <2>7
<1> QED
  BY <1>8, <1>9

\* The scheduler gets it from there.
LEMMA EmplacePlaces ==
  ASSUME IInv, NEW th \in Thread, Step(th), EmplaceTask(th), NEW u \in Task
  PROVE  Placed(u)'
<1>1. Types /\ Placed(u)
  BY PlacedIs DEF IInv
<1>2. PICK p : p = job[th].cur
  OBVIOUS
<1>3. PICK t \in Task : t = job[th].new
  BY EmplaceTaskIs
<1>4. PICK pc : pc = IF th = Main THEN "top" ELSE "body"
  OBVIOUS
<1>5. /\ At(th, "register") /\ job[th].pc = "register" /\ emplaced' = emplaced \union {t}
      /\ Sets(th, pc, p, Root, job[th].k, job[th].it)
  BY <1>2, <1>3, <1>4, EmplaceTaskIs
<1>6. UNCHANGED <<life, pre, ready, stack, started>>
  BY DEF EmplaceTask
<1>7. top'[th].pc # "activate"
  BY <1>1, <1>5, <1>6, SameStack, AtIs DEF NoFrame
<1>8. t # Root /\ pc # "register"
  BY <1>4, Constants
<1>9. CASE u # t
  <2>1. th \in Worker => pc = "body"
    BY <1>4, Constants
  <2>2. t # u
    BY <1>9
  <2> QED
    BY <1>2, <1>5, <1>6, <1>7, <1>8, <2>1, <2>2, StaysPlaced DEF InitPcs
<1>10. CASE u = t
  <2>1. InPlace("register", th, t)
    BY <1>3, <1>5, NoPlace
  <2>2. \A k \in PlaceKind, h \in Holder : InPlace(k, h, t) => k = "register" /\ h = th
    BY <1>1, <1>10, <2>1, PlaceNames DEF Placed
  <2>3. \A k \in PlaceKind, h \in Thread : InPlace(k, h, t) => h = th
    BY <2>2, PlaceNames
  <2>4. ~ (ready[t] > 0) /\ (th \in Worker => job[th].cur # t)
    BY <2>2, NoPlace, PlaceNames
  <2>5. OnlyPlace(th, t, "emplaced", NoThread)
    <3>1. job'[th].cur = p /\ job'[th].pc = pc
      BY <1>5 DEF Sets
    <3> QED
      BY <1>2, <1>6, <1>7, <1>8, <2>4, <3>1, NoPlace DEF OnlyPlace
  <2>6. t \notin started /\ pre[t] = 1 /\ ready[t] \in {0, 1} /\ life[t] # "unborn"
    BY <1>1, <1>10, <2>1, PlaceNames DEF Placed
  <2>7. "emplaced" \in PlaceKind /\ NoThread \in Holder
    BY PlaceNames
  <2>8. Placed(t)'
    BY <1>6, <2>3, <2>5, <2>6, <2>7, PlacedMoved
  <2> QED
    BY <1>10, <2>8
<1> QED
  BY <1>9, <1>10

\* A worker takes a task from one of the queues.
LEMMA PopPlaces ==
  ASSUME IInv, NEW w \in Worker, w \in Thread, Step(w), NEW t \in Task, PopNew(w, t) \/ PopReady(w, t),
         NEW u \in Task
  PROVE  Placed(u)'
<1>1. Types /\ Placed(u)
  BY PlacedIs DEF IInv
<1>2. PICK k2 \in PlaceKind : /\ PopNew(w, t) => k2 = "emplaced"
                              /\ PopReady(w, t) => k2 = "ready"
                              /\ InPlace(k2, NoThread, t)
  <2>1. ~ (PopNew(w, t) /\ PopReady(w, t))
    <3>1. t \in emplaced /\ ready[t] > 0 => FALSE
      <4>1. Placed(t)
        BY PlacedIs DEF IInv
      <4>2. "emplaced" # "ready"
        OBVIOUS
      <4> QED
        BY <4>1, <4>2, NoPlace, PlaceNames DEF Placed
    <3> QED
      BY <3>1, PopNewIs, PopReadyIs
  <2> QED
    BY <2>1, PopNewIs, PopReadyIs, NoPlace, PlaceNames
<1>3. PICK pc \in {"init", "exec"} : /\ PopNew(w, t) => pc = "init"
                                     /\ PopReady(w, t) => pc = "exec"
                                     /\ job[w].pc = "gather" /\ stack[w] = <<>>
                                     /\ \E k : Sets(w, pc, t, job[w].new, k, job[w].it)
  BY <1>2, PopNewIs, PopReadyIs
<1>4. PICK k : Sets(w, pc, t, job[w].new, k, job[w].it)
  BY <1>3
<1>5. UNCHANGED <<life, stack, started>>
  BY DEF PopNew, PopReady, objVars
<1>6. top'[w].pc # "activate"
  BY SMTT(60), <1>1, <1>3, <1>5, SameStack, TopFrame DEF NoFrame, Types
<1>7. /\ PopNew(w, t) => emplaced' = emplaced \ {t} /\ ready' = ready
      /\ PopReady(w, t) => emplaced' = emplaced /\ ready' = [ready EXCEPT ![t] = ready[t] - 1] /\ pre' = pre
  BY Zenon, PopNewIs, PopReadyIs DEF PopNew, PopReady
<1>8. u # t => pre'[u] = pre[u] /\ ready'[u] = ready[u]
  <2>1. PopNew(w, t) => pre' = [pre EXCEPT ![t] = pre[t] + 1]
    BY PopNewIs
  <2> QED
    BY <1>1, <1>7, <2>1 DEF Types
<1>9. CASE u # t
  <2>1. t # u /\ (u \in emplaced' => u \in emplaced)
    BY <1>7, <1>9
  <2> QED
    BY <1>4, <1>5, <1>6, <1>8, <1>9, <2>1, StaysPlaced
<1>10. CASE u = t
  <2>1. \A kk \in PlaceKind, h \in Holder : InPlace(kk, h, t) => kk = k2 /\ h = NoThread
    BY <1>1, <1>2, <1>10, PlaceNames DEF Placed
  <2>2. \A kk \in PlaceKind, h \in Thread : InPlace(kk, h, t) => h = w
    BY <2>1, PlaceNames, Constants
  <2>3. t \notin emplaced' /\ ready'[t] = 0
    <3>1. CASE PopNew(w, t)
      <4>1. k2 # "ready"
        BY <1>2, <3>1
      <4>2. ~ (ready[t] > 0)
        BY <2>1, <4>1, NoPlace, PlaceNames
      <4>3. ready[t] \in {0, 1}
        BY <1>1, <1>10 DEF Placed
      <4> QED
        BY <1>7, <3>1, <4>2, <4>3
    <3>2. CASE PopReady(w, t)
      <4>1. k2 # "emplaced"
        BY <1>2, <3>2
      <4>2. t \notin emplaced
        BY <2>1, <4>1, NoPlace, PlaceNames
      <4>3. ready[t] \in {0, 1} /\ ready[t] > 0
        BY <1>1, <1>10, <3>2, PopReadyIs DEF Placed
      <4> QED
        BY <1>1, <1>7, <3>2, <4>2, <4>3 DEF Types
    <3> QED
      BY <3>1, <3>2
  <2>4. job'[w].pc = pc /\ job'[w].cur = t
    BY <1>4 DEF Sets
  <2>5. OnlyPlace(w, t, "cur", w)
    BY <1>6, <2>3, <2>4, NoPlace DEF OnlyPlace
  <2>6. t \notin started /\ pre[t] = 1 /\ life[t] # "unborn"
    BY <1>1, <1>2, <1>10, PlaceNames DEF Placed
  <2>7. "cur" \in PlaceKind /\ w \in Holder
    BY PlaceNames
  <2>8. pc = "exec" => pre'[t] = 1
    BY <1>3, <1>7, <2>6
  <2>9. Placed(t)'
    BY <1>5, <2>2, <2>3, <2>4, <2>5, <2>6, <2>7, <2>8, PlacedMoved
  <2> QED
    BY <1>10, <2>9
<1> QED
  BY <1>9, <1>10

\* The task stays with the worker that initialises it.
LEMMA InitPlaces ==
  ASSUME IInv, NEW w \in Worker, w \in Thread, Step(w),
         LockUsers(w) \/ Scan(w) \/ Link(w) \/ CountEdge(w) \/ EndInit(w),
         NEW u \in Task
  PROVE  Placed(u)'
<1>1. Types /\ Placed(u)
  BY PlacedIs DEF IInv
<1>2. PICK t \in Task : t = job[w].cur
  <2>1. CASE LockUsers(w) \/ Link(w) \/ CountEdge(w) \/ EndInit(w)
    BY <2>1, LockUsersIs, LinkIs, CountEdgeIs, EndInitIs
  <2>2. CASE Scan(w)
    BY <2>2, ScanIs, PredecessorIs
  <2> QED
    BY <2>1, <2>2
<1>3. /\ UNCHANGED <<life, stack, started, emplaced, ready>>
      /\ ~ CountEdge(w) /\ ~ EndInit(w) => pre' = pre
      /\ job[w].pc \in InitPcs \union {"up"} /\ stack[w] = <<>>
  <2>1. UNCHANGED <<life, stack, started, emplaced, ready>>
    BY DEF LockUsers, Scan, Link, CountEdge, EndInit, objVars, queueVars
  <2>2. ~ CountEdge(w) /\ ~ EndInit(w) => pre' = pre
    BY DEF LockUsers, Scan, Link
  <2>3. job[w].pc \in InitPcs \union {"up"} /\ stack[w] = <<>>
    BY LockUsersIs, ScanIs, LinkIs, CountEdgeIs, EndInitIs DEF InitPcs
  <2> QED
    BY <2>1, <2>2, <2>3
<1>4. top'[w].pc # "activate"
  BY SMTT(60), <1>1, <1>3, SameStack, TopFrame DEF NoFrame, Types
<1>5. job[w].cur = u => u \notin started
  BY <1>1, <1>3, NoPlace, PlaceNames DEF Placed
<1>6. pre'[u] = pre[u] \/ job[w].cur = u
  <2>1. CASE CountEdge(w) \/ EndInit(w)
    <3>1. pre' = [pre EXCEPT ![t] = pre[t] + 1] \/ pre' = [pre EXCEPT ![t] = pre[t] - 1]
      BY <1>2, <2>1, CountEdgeIs, EndInitIs
    <3> QED
      BY <1>1, <1>2, <3>1 DEF Types
  <2> QED
    BY <1>3, <2>1
<1>7. \E pc, cur, k, it : /\ Sets(w, pc, cur, job[w].new, k, it)
                          /\ \/ cur = t /\ pc \in InitPcs \union {"up"}
                             \/ cur = t /\ pc = "exec" /\ pre[t] = 2 /\ EndInit(w)
                             \/ cur = Root /\ pc = "gather"
  <2>1. CASE LockUsers(w) \/ Link(w)
    BY <1>2, <2>1, LockUsersIs, LinkIs DEF InitPcs
  <2>2. CASE Scan(w)
    BY <1>2, <2>2, ScanIs DEF Advances, InitPcs
  <2>3. CASE CountEdge(w)
    BY <1>2, <2>3, CountEdgeIs DEF Advances, InitPcs
  <2>4. CASE EndInit(w)
    BY <1>2, <2>4, EndInitIs
  <2> QED
    BY <2>1, <2>2, <2>3, <2>4
<1>8. PICK pc, cur, k, it : /\ Sets(w, pc, cur, job[w].new, k, it)
                            /\ \/ cur = t /\ pc \in InitPcs \union {"up"}
                               \/ cur = t /\ pc = "exec" /\ pre[t] = 2 /\ EndInit(w)
                               \/ cur = Root /\ pc = "gather"
  BY <1>7
<1>9. pc \notin {"body", "register"} /\ (cur = u => job[w].cur = u)
  BY <1>2, <1>8, Constants DEF InitPcs
<1>10. cur = u /\ pc = "exec" => pre'[u] = 1
  <2>1. EndInit(w) => pre' = [pre EXCEPT ![t] = pre[t] - 1]
    BY <1>2, EndInitIs
  <2> QED
    BY <1>1, <1>8, <2>1, Constants DEF InitPcs, Types
<1> QED
  BY <1>3, <1>4, <1>5, <1>6, <1>8, <1>9, <1>10, StaysPlaced

\* The body begins.
LEMMA ExecutePlaces ==
  ASSUME IInv, NEW w \in Worker, w \in Thread, Step(w), Execute(w), NEW u \in Task
  PROVE  Placed(u)'
<1>1. Types /\ Placed(u)
  BY PlacedIs DEF IInv
<1>2. PICK t \in Task : t = job[w].cur
  BY ExecuteIs
<1>3. /\ job[w].pc = "exec" /\ stack[w] = <<>>
      /\ pre' = [pre EXCEPT ![t] = pre[t] - 1] /\ started' = started \union {t}
      /\ Sets(w, "body", t, job[w].new, job[w].k, job[w].it)
  BY <1>2, ExecuteIs
<1>4. UNCHANGED <<life, stack, emplaced, ready>>
  BY DEF Execute, objVars, queueVars
<1>5. top'[w].pc # "activate"
  BY SMTT(60), <1>1, <1>3, <1>4, SameStack, TopFrame DEF NoFrame, Types
<1>6. CASE u # t
  <2>1. pre'[u] = pre[u] /\ (u \in started' <=> u \in started) /\ t # u
    BY <1>1, <1>3, <1>6 DEF Types
  <2> QED
    BY <1>3, <1>4, <1>5, <2>1, StaysPlaced
<1>7. CASE u = t
  <2>1. InPlace("cur", w, t)
    BY <1>2, NoPlace
  <2>2. \A k \in PlaceKind, h \in Holder : InPlace(k, h, t) => k = "cur" /\ h = w
    BY <1>1, <1>7, <2>1, PlaceNames DEF Placed
  <2>3. \A k \in PlaceKind, h \in Thread : InPlace(k, h, t) => h = w
    BY <2>2, PlaceNames
  <2>4. ~ (ready[t] > 0) /\ t \notin emplaced
    BY <2>2, NoPlace, PlaceNames
  <2>5. job'[w].pc = "body" /\ job'[w].cur = t
    BY <1>3 DEF Sets
  <2>6. OnlyPlace(w, t, "cur", w)
    BY <1>4, <1>5, <2>4, <2>5, NoPlace DEF OnlyPlace
  <2>7. pre[t] = 1 /\ ready[t] \in {0, 1} /\ life[t] # "unborn"
    BY <1>1, <1>3, <1>7, <2>1, PlaceNames DEF Placed
  <2>8. "cur" \in PlaceKind /\ w \in Holder
    BY PlaceNames
  <2>9. pre'[t] = 0 /\ t \in started'
    BY <1>1, <1>3, <2>7 DEF Types
  <2>10. Placed(t)'
    BY <1>4, <2>3, <2>5, <2>6, <2>7, <2>8, <2>9, PlacedMoved DEF InitPcs
  <2> QED
    BY <1>7, <2>10
<1> QED
  BY <1>6, <1>7

\* Futures, waiting, the end of a body and registration move no task on.
LEMMA ProgramPlaces ==
  ASSUME IInv, NEW th \in Thread, Step(th),
         \/ Register(th) \/ (\E t \in Task : DropFuture(th, t)) \/ (th = Main /\ EndGet)
         \/ th = Main /\ ((\E t \in Task : BeginGet(t)) \/ BeginBarrier \/ EndBarrier)
         \/ th \in Worker /\ EndBody(th),
         NEW u \in Task
  PROVE  Placed(u)'
<1>1. Types /\ Placed(u)
  BY PlacedIs DEF IInv
<1>2. UNCHANGED <<life, pre, started, emplaced, ready>>
  BY Zenon DEF Register, DropFuture, EndGet, BeginGet, BeginBarrier, EndBarrier, EndBody, objVars, queueVars
<1>3. CASE Register(th)
  <2>1. PICK t : t = job[th].new
    OBVIOUS
  <2>2. /\ At(th, "register") /\ job[th].pc = "register"
        /\ Sets(th, "register", job[th].cur, t, job[th].k - 1, job[th].it)
    BY <1>3, <2>1, RegisterIs
  <2>3. top'[th].pc # "activate"
    BY <1>1, <1>3, <2>2, AtIs, SameStack DEF NoFrame, Register
  <2> QED
    BY <1>2, <2>1, <2>2, <2>3, StaysPlaced DEF InitPcs
<1>4. CASE \E t \in Task : DropFuture(th, t)
  <2>1. job' = job
    BY <1>4 DEF DropFuture
  <2>2. PICK t \in Task : GetBegins(th, t)
    BY <1>4, GetBeginsIs
  <2>3. top'[th].pc # "activate"
    BY <2>2 DEF GetBegins, Calls, AFrame
  <2> QED
    BY <1>2, <2>1, <2>3, NotifyPlaces
<1>5. CASE th = Main /\ EndGet
  <2>1. PICK t \in Task : GetBegins(th, t)
    BY <1>5, GetBeginsIs
  <2>2. top'[th].pc # "activate"
    BY <2>1 DEF GetBegins, Calls, AFrame
  <2>3. Sets(th, "top", Root, Root, job[th].k, job[th].it) /\ Root # u /\ th \notin Worker
    BY <1>5, EndGetIs, Constants
  <2> QED
    BY <1>2, <2>2, <2>3, StaysPlaced
<1>6. CASE th = Main /\ ((\E t \in Task : BeginGet(t)) \/ BeginBarrier \/ EndBarrier)
  <2>1. MainWaits
    BY <1>6, MainWaitsIs
  <2>2. top'[th].pc # "activate"
    <3>1. stack[th] = <<>> /\ UNCHANGED stack
      BY <1>6, <2>1 DEF MainWaits
    <3>2. top[th] = NoFrame /\ top' = top
      BY <1>1, <3>1, SameStack, TopFrame DEF Types
    <3> QED
      BY <3>2 DEF NoFrame
  <2>3. \E pc, new : Sets(th, pc, Root, new, job[th].k, job[th].it) /\ pc # "register"
    BY <1>6, <2>1 DEF MainWaits
  <2>4. PICK pc, new : Sets(th, pc, Root, new, job[th].k, job[th].it) /\ pc # "register"
    BY <2>3
  <2>5. Root # u /\ th \notin Worker
    BY <1>6, Constants
  <2> QED
    BY <1>2, <2>2, <2>4, <2>5, StaysPlaced
<1>7. CASE th \in Worker /\ EndBody(th)
  <2>1. PICK t : t = job[th].cur
    OBVIOUS
  <2>2. Calls(th, t, "post") /\ Sets(th, "gather", Root, job[th].new, job[th].k, job[th].it)
    BY <1>7, <2>1, EndBodyIs
  <2>3. top'[th].pc # "activate"
    BY <2>2 DEF Calls, AFrame
  <2>4. Root # u
    BY Constants
  <2> QED
    BY <1>2, <2>2, <2>3, <2>4, StaysPlaced
<1> QED
  BY <1>3, <1>4, <1>5, <1>6, <1>7

\* A follower is notified: the last edge puts it into the hands of the notifier.
LEMMA FollowerPlaces ==
  ASSUME IInv, NEW th \in Thread, Step(th), NotifyFollower(th), NEW u \in Task
  PROVE  Placed(u)'
<1>1. Types /\ Placed(u)
  BY PlacedIs DEF IInv
<1>2. UNCHANGED <<life, started, emplaced, ready, job, followers>>
  BY Zenon DEF NotifyFollower, objVars, queueVars
<1>3. PICK q \in Task : q = top[th].task
  BY Zenon, NotifyFollowerIs
<1>4. PICK i \in Nat : i = top[th].i
  BY Zenon, NotifyFollowerIs
<1>5. PICK g : g = followers[q][i]
  OBVIOUS
<1>6. /\ top[th].pc = "followers" /\ g.task \in Task
      /\ \/ /\ g = PreOf(g.task) /\ pre' = [pre EXCEPT ![g.task] = pre[g.task] - 1]
            /\ pre[g.task] = 2 => Turns(th, AFrame(q, "activate", i))
            /\ pre[g.task] # 2 => Turns(th, AFrame(q, "followers", i - 1))
         \/ /\ pre' = pre /\ Nests(th, g.task)
  BY Zenon, <1>3, <1>4, <1>5, NotifyFollowerIs
<1>7. PICK t \in Task : t = g.task
  BY <1>6
<1>8. CASE pre' = pre /\ Nests(th, t)
  <2>1. top'[th].pc # "activate"
    BY <1>8 DEF Nests, AFrame
  <2> QED
    BY <1>2, <1>8, <2>1, NotifyPlaces
<1>9. CASE /\ g = PreOf(t) /\ pre' = [pre EXCEPT ![t] = pre[t] - 1]
           /\ pre[t] = 2 => Turns(th, AFrame(q, "activate", i))
           /\ pre[t] # 2 => Turns(th, AFrame(q, "followers", i - 1))
  <2>1. /\ t \notin started /\ life[t] # "unborn"
        /\ \A k \in PlaceKind, h \in Holder : InPlace(k, h, t) =>
              k = "cur" /\ job[h].pc \in InitPcs \union {"up"} /\ pre[t] # 2
    BY ZenonT(60), <1>3, <1>4, <1>5, <1>9, NotifiedIsIdle
  <2>2. u # t => pre'[u] = pre[u]
    BY <1>1, <1>9 DEF Types
  <2>3. th \in Worker /\ job[th].cur = u =>
           /\ job[th].pc = "exec" => u \notin started /\ pre[u] = 1
           /\ job[th].pc \in InitPcs \union {"up"} => u \notin started
           /\ job[th].pc \in {"body", "register"} => u \in started
    BY <1>1, NoPlace, PlaceNames DEF Placed
  <2>4. ready'[u] \in {0, 1}
    BY <1>1, <1>2 DEF Placed
  <2>5. CASE pre[t] # 2
    <3>1. top'[th].pc # "activate"
      <4>1. AFrame(q, "followers", i - 1) # NoFrame /\ AFrame(q, "followers", i - 1).pc = "followers"
        BY DEF AFrame, NoFrame
      <4> QED
        BY <1>9, <2>5, <4>1 DEF Turns
    <3>2. NoNewPlace(th, u)
      BY <1>2, <3>1, NoPlace DEF NoNewPlace
    <3>3. CASE u # t
      BY <1>2, <2>2, <2>3, <2>4, <3>2, <3>3, PlacedKept
    <3>4. CASE u = t
      <4>1. th \in Worker /\ job[th].cur = t => job[th].pc \in InitPcs \union {"up"}
        BY <2>1, NoPlace, PlaceNames
      <4>2. \A k \in PlaceKind, h \in Holder : InPlace(k, h, t) => k = "cur" /\ job[h].pc # "exec"
        BY <2>1 DEF InitPcs
      <4>3. th \in Worker /\ job[th].cur = t =>
           /\ job[th].pc # "exec"
           /\ job[th].pc \notin {"body", "register"}
        BY <4>1 DEF InitPcs
      <4>4. Placed(t)'
        BY <1>2, <2>1, <2>4, <3>2, <3>4, <4>2, <4>3, PlacedKept
      <4> QED
        BY <3>4, <4>4
    <3> QED
      BY <3>3, <3>4
  <2>6. CASE pre[t] = 2
    <3>1. top'[th] = AFrame(q, "activate", i)
      <4>1. AFrame(q, "activate", i) # NoFrame
        BY DEF AFrame, NoFrame
      <4> QED
        BY <1>9, <2>6, <4>1 DEF Turns
    <3>2. top'[th].task = q /\ top'[th].i = i
      BY <3>1 DEF AFrame
    <3>3. CASE u # t
      <4>1. PreOf(t) # PreOf(u)
        BY <3>3 DEF PreOf
      <4>2. ~ InPlace("activate", th, u)'
        <5>1. InPlace("activate", th, u)' => followers'[top'[th].task][top'[th].i] = PreOf(u)
          BY DEF InPlace, PreOf
        <5> QED
          BY <1>2, <1>5, <1>9, <3>2, <4>1, <5>1
      <4>3. NoNewPlace(th, u)
        BY <1>2, <4>2, NoPlace DEF NoNewPlace
      <4> QED
        BY <1>2, <2>2, <2>3, <2>4, <3>3, <4>3, PlacedKept
    <3>4. CASE u = t
      <4>1. \A k \in PlaceKind, h \in Holder : ~ InPlace(k, h, t)
        BY <2>1, <2>6
      <4>2. \A k \in PlaceKind, h \in Thread : InPlace(k, h, t) => h = th
        BY <4>1, PlaceNames
      <4>3. t \notin emplaced /\ ~ (ready[t] > 0) /\ (th \in Worker => job[th].cur # t)
            /\ ~ (job[th].pc = "register" /\ job[th].new = t)
        BY <4>1, NoPlace, PlaceNames
      <4>4. OnlyPlace(th, t, "activate", th)
        BY <1>2, <4>3, NoPlace DEF OnlyPlace
      <4>5. pre'[t] = 1
        BY <1>1, <1>9, <2>6 DEF Types
      <4>6. "activate" \in PlaceKind /\ th \in Holder
        BY PlaceNames
      <4>7. Placed(t)'
        BY <1>2, <2>1, <2>4, <3>4, <4>2, <4>4, <4>5, <4>6, PlacedMoved
      <4> QED
        BY <3>4, <4>7
    <3> QED
      BY <3>3, <3>4
  <2> QED
    BY <2>5, <2>6
<1> QED
  BY <1>6, <1>7, <1>8, <1>9

\* The scheduler gets the task from the notifier.
LEMMA ActivatePlaces ==
  ASSUME IInv, NEW th \in Thread, Step(th), ActivateTask(th), NEW u \in Task
  PROVE  Placed(u)'
<1>1. Types /\ Placed(u)
  BY PlacedIs DEF IInv
<1>2. UNCHANGED <<life, started, emplaced, pre, job>>
  BY DEF ActivateTask, objVars
<1>3. PICK q \in Task : q = top[th].task
  BY ActivateTaskIs
<1>4. PICK i \in Nat : i = top[th].i
  BY ActivateTaskIs
<1>5. PICK t \in Task : t = followers[q][i].task
  BY <1>3, <1>4, ActivateTaskIs
<1>6. /\ top[th].pc = "activate" /\ followers[q][i] = PreOf(t)
      /\ ready' = [ready EXCEPT ![t] = ready[t] + 1]
      /\ Turns(th, AFrame(q, "followers", i - 1))
  BY Zenon, <1>3, <1>4, <1>5, ActivateTaskIs
<1>7. top'[th].pc # "activate"
  <2>1. AFrame(q, "followers", i - 1) # NoFrame /\ AFrame(q, "followers", i - 1).pc = "followers"
    BY DEF AFrame, NoFrame
  <2> QED
    BY <1>6, <2>1 DEF Turns
<1>8. CASE u # t
  <2>1. th \in Worker /\ job[th].cur = u =>
           /\ job[th].pc = "exec" => u \notin started /\ pre[u] = 1
           /\ job[th].pc \in InitPcs \union {"up"} => u \notin started
           /\ job[th].pc \in {"body", "register"} => u \in started
    BY <1>1, NoPlace, PlaceNames DEF Placed
  <2>2. ready'[u] = ready[u]
    BY <1>1, <1>6, <1>8 DEF Types
  <2>3. ready'[u] \in {0, 1}
    BY <1>1, <2>2 DEF Placed
  <2>4. NoNewPlace(th, u)
    BY <1>2, <1>7, <2>2, NoPlace DEF NoNewPlace
  <2> QED
    BY <1>2, <2>1, <2>3, <2>4, PlacedKept
<1>9. CASE u = t
  <2>1. InPlace("activate", th, t)
    BY <1>3, <1>4, <1>6, NoPlace
  <2>2. \A k \in PlaceKind, h \in Holder : InPlace(k, h, t) => k = "activate" /\ h = th
    BY <1>1, <1>9, <2>1, PlaceNames DEF Placed
  <2>3. \A k \in PlaceKind, h \in Thread : InPlace(k, h, t) => h = th
    BY <2>2, PlaceNames
  <2>4. t \notin emplaced /\ ~ (ready[t] > 0) /\ (th \in Worker => job[th].cur # t)
        /\ ~ (job[th].pc = "register" /\ job[th].new = t)
    BY <2>2, NoPlace, PlaceNames
  <2>5. OnlyPlace(th, t, "ready", NoThread)
    BY <1>2, <1>7, <2>4, NoPlace DEF OnlyPlace
  <2>6. t \notin started /\ pre[t] = 1 /\ life[t] # "unborn" /\ ready[t] \in {0, 1}
    BY <1>1, <1>9, <2>1, PlaceNames DEF Placed
  <2>7. ready'[t] \in {0, 1}
    <3>1. ready[t] = 0
      BY <2>4, <2>6
    <3>2. ready'[t] = ready[t] + 1
      BY <1>1, <1>6 DEF Types
    <3> QED
      BY <3>1, <3>2
  <2>8. "ready" \in PlaceKind /\ NoThread \in Holder
    BY PlaceNames
  <2>9. Placed(t)'
    BY <1>2, <2>3, <2>5, <2>6, <2>7, <2>8, PlacedMoved
  <2> QED
    BY <1>9, <2>9
<1> QED
  BY <1>8, <1>9

\* A task is in one place, and its state says which kinds it can be.
LEMMA PlacesStep ==
  ASSUME IInv, NEW th \in Thread, Step(th)
  PROVE  OnePlace' /\ StatusMatches'
<1>1. SUFFICES ASSUME NEW u \in Task PROVE Placed(u)'
  BY DEF OnePlace, StatusMatches, Placed
<1>2. CASE \/ NotifyPost(th) \/ NotifyGet(th) \/ ReadWaker(th) \/ DeleteFromResource(th)
           \/ CountDown(th) \/ FreeTask(th) \/ ReadDepth(th)
  <2>1. UNCHANGED <<job, emplaced, ready, pre, started>>
    BY <1>2 DEF NotifyPost, NotifyGet, ReadWaker, DeleteFromResource, CountDown, FreeTask, ReadDepth,
       objVars, queueVars
  <2>2. life'[u] = "unborn" => life[u] = "unborn"
    BY FollowersStep
  <2> QED
    BY <1>2, <2>1, <2>2, QuietTop, NotifyPlaces
<1>3. CASE NotifyFollower(th)
  BY <1>3, FollowerPlaces
<1>4. CASE ActivateTask(th)
  BY <1>4, ActivatePlaces
<1>5. CASE \/ Register(th) \/ (\E t \in Task : DropFuture(th, t)) \/ (th = Main /\ EndGet)
           \/ th = Main /\ ((\E t \in Task : BeginGet(t)) \/ BeginBarrier \/ EndBarrier)
           \/ th \in Worker /\ EndBody(th)
  BY <1>5, ProgramPlaces
<1>6. CASE th \in Worker /\ Execute(th)
  BY <1>6, ExecutePlaces
<1>7. CASE th \in Worker /\ (LockUsers(th) \/ Scan(th) \/ Link(th) \/ CountEdge(th) \/ EndInit(th))
  BY <1>7, InitPlaces
<1>8. CASE th \in Worker /\ \E t \in Task : PopNew(th, t) \/ PopReady(th, t)
  BY <1>8, PopPlaces
<1>9. CASE EmplaceTask(th)
  BY <1>9, EmplacePlaces
<1>10. CASE \E t \in Task, a \in AccessSeq : CreateTask(th, t, a)
  BY <1>10, CreatePlaces
<1>11. CASE KeepsEdges(th)
  <2>1. CASE th \in Worker /\ \E t \in Task : PopNew(th, t)
    BY <1>8, <2>1
  <2>2. CASE th \in Worker /\ \E t \in Task : PopReady(th, t)
    BY <1>8, <2>2
  <2> QED
    BY <1>2, <1>4, <1>5, <1>6, <1>7, <1>9, <1>11, <2>1, <2>2 DEF KeepsEdges
<1> QED
  BY <1>3, <1>7, <1>10, <1>11 DEF Step

-----------------------------------------------------------------------------
(***************************************************************************)
(* What the threads have in hand.                                          *)
(***************************************************************************)

\* A thread that had no notification has none because of another thread.
LEMMA OthersKeepStack ==
  ASSUME IInv, NEW th \in Thread, Step(th)
  PROVE  \A u \in Thread : u # th /\ stack'[u] # <<>> => stack[u] # <<>>
BY StackStep DEF TurnsWell, Turns, Nests, Calls

\* The steps of others do not take away what a thread has in hand.
LEMMA OtherJobMatches ==
  ASSUME IInv, NEW th \in Thread, Step(th), NEW u \in Thread, u # th
  PROVE  JobMatches(u)'
<1>1. Types /\ JobMatches(u) /\ \A t \in Task : Placed(t)
  BY PlacedIs DEF IInv, ThreadsMatch
<1>2. PICK j \in Job : j = job[u] /\ job'[u] = j
  BY <1>1, OthersKeepJob DEF Types
<1>3. stack'[u] # <<>> => stack[u] # <<>>
  BY OthersKeepStack
<1>4. \A q \in Task : life[q] # "unborn" => life'[q] # "unborn" /\ access'[q] = access[q] /\ parent'[q] = parent[q]
  BY FollowersStep
<1>5. ASSUME j.pc = "register"
      PROVE  /\ j.new \in Task /\ life'[j.new] # "unborn"
             /\ parent'[j.new] = j.cur /\ future'[j.new] = "none"
             /\ j.k <= Len(access'[j.new])
  <2>1. /\ j.new \in Task /\ life[j.new] # "unborn"
        /\ parent[j.new] = j.cur /\ future[j.new] = "none"
        /\ j.k <= Len(access[j.new])
    BY <1>1, <1>2, <1>5 DEF JobMatches
  <2>2. InPlace("register", u, j.new)
    BY <1>2, <1>5 DEF InPlace
  <2>3. future'[j.new] = "none"
    <3>1. CASE EmplaceTask(th)
      <4>1. PICK t \in Task : t = job[th].new
        BY <3>1, EmplaceTaskIs
      <4>2. job[th].pc = "register" /\ future' = [future EXCEPT ![t] = "held"]
        BY <3>1, <4>1, EmplaceTaskIs
      <4>3. InPlace("register", th, t)
        BY <4>1, <4>2 DEF InPlace
      <4>4. t # j.new
        BY <1>1, <2>1, <2>2, <4>3, PlaceNames DEF Placed
      <4> QED
        BY <1>1, <2>1, <4>2, <4>4 DEF Types
    <3>2. CASE (\E t \in Task : DropFuture(th, t)) \/ (th = Main /\ EndGet)
      <4>1. PICK t \in Task : GetBegins(th, t)
        BY <3>2, GetBeginsIs
      <4> QED
        BY <1>1, <2>1, <4>1 DEF GetBegins, Types
    <3> QED
      BY <2>1, <3>1, <3>2, StepSpares DEF Spares
  <2> QED
    BY <1>4, <2>1, <2>3
<1>6. ASSUME j.pc = "get"
      PROVE  j.new \in Task /\ future'[j.new] = "held" /\ parent'[j.new] = Root
  <2>1. j.new \in Task /\ future[j.new] = "held" /\ parent[j.new] = Root /\ u = Main
    BY <1>1, <1>2, <1>6 DEF JobMatches
  <2>2. life[j.new] # "unborn"
    BY <2>1 DEF IInv, FutureMatches
  <2>3. future'[j.new] = "held"
    <3>1. CASE EmplaceTask(th)
      <4>1. PICK t \in Task : future[t] = "none" /\ future' = [future EXCEPT ![t] = "held"]
        BY <3>1, EmplaceTaskIs
      <4> QED
        BY <1>1, <2>1, <4>1 DEF Types
    <3>2. CASE \E t \in Task : DropFuture(th, t)
      <4>1. PICK t \in Task : DropFuture(th, t)
        BY <3>2
      <4>2. InProgram(th) /\ future' = [future EXCEPT ![t] = "gone"] /\ parent[t] = job[th].cur
        BY <4>1, DropFutureIs DEF DropFuture, Holds
      <4>3. job[th].cur # Root
        BY <2>1, <4>2, InProgramIs, Constants
      <4> QED
        BY <1>1, <2>1, <4>2, <4>3 DEF Types
    <3> QED
      BY <2>1, <3>1, <3>2, StepSpares DEF Spares
  <2> QED
    BY <1>4, <2>1, <2>2, <2>3
<1>7. ASSUME j.pc \in InitPcs \union {"up"}
      PROVE  j.k <= Len(access'[j.cur])
  <2>1. j.k <= Len(access[j.cur]) /\ u \in Worker
    BY <1>1, <1>2, <1>7, Constants DEF JobMatches, InitPcs
  <2>2. j.cur \in Task /\ life[j.cur] # "unborn"
    BY <1>2, <1>7, <2>1, ListedBefore
  <2> QED
    BY <1>4, <2>1, <2>2
<1>8. /\ u = Main => j.pc \in {"top", "get", "barrier", "done", "register"} /\ j.cur = Root
      /\ u # Main => j.pc \in {"gather", "init", "scan", "link", "up", "exec", "body", "register"}
                     /\ (j.pc = "gather" <=> j.cur = Root)
      /\ stack'[u] # <<>> => j.pc \in {"top", "gather", "body"}
  BY <1>1, <1>2, <1>3 DEF JobMatches
<1> HIDE <1>1, <1>2
<1>9. job'[u] = j
  BY <1>2
<1> QED
  BY <1>5, <1>6, <1>7, <1>8, <1>9 DEF JobMatches

\* A thread that is in a notification, or begins one.
LEMMA NotifyingJob ==
  ASSUME IInv, NEW th \in Thread, Step(th), UNCHANGED job, job[th].pc \in {"top", "gather", "body"}
  PROVE  JobMatches(th)'
<1>1. JobMatches(th)
  BY DEF IInv, ThreadsMatch
<1>2. job'[th] = job[th]
  OBVIOUS
<1> QED
  BY <1>1, <1>2 DEF JobMatches, InitPcs

\* The other steps leave the thread outside of notify.
LEMMA OwnJob ==
  ASSUME NEW th \in Thread, NEW pc, NEW cur, NEW new, NEW k, NEW it, Sets(th, pc, cur, new, k, it),
         th = Main => pc \in {"top", "get", "barrier", "done", "register"} /\ cur = Root,
         th # Main => pc \in {"gather", "init", "scan", "link", "up", "exec", "body", "register"}
                      /\ (pc = "gather" <=> cur = Root),
         stack'[th] = <<>> \/ pc \in {"top", "gather", "body"},
         pc = "register" =>
           /\ new \in Task /\ life'[new] # "unborn"
           /\ parent'[new] = cur /\ future'[new] = "none" /\ k <= Len(access'[new]),
         pc = "get" => new \in Task /\ future'[new] = "held" /\ parent'[new] = Root,
         pc \in InitPcs \union {"up"} => k <= Len(access'[cur])
  PROVE  JobMatches(th)'
<1>1. job'[th].pc = pc /\ job'[th].cur = cur /\ job'[th].new = new /\ job'[th].k = k
  BY DEF Sets
<1> QED
  BY <1>1 DEF JobMatches

\* A step of a thread leaves it with what belongs to its next point.
LEMMA OwnJobMatches ==
  ASSUME IInv, NEW th \in Thread, Step(th)
  PROVE  JobMatches(th)'
<1>1. Types /\ JobMatches(th)
  BY DEF IInv, ThreadsMatch
<1>2. CASE Creates(th)
  <2>1. PICK t \in Task, a \in AccessSeq : CreateTask(th, t, a)
    BY <1>2 DEF Creates
  <2>2. PICK p : p = job[th].cur
    OBVIOUS
  <2>3. /\ InProgram(th) /\ life[t] = "unborn" /\ life' = [life EXCEPT ![t] = "alive"]
        /\ parent' = [parent EXCEPT ![t] = p] /\ access' = [access EXCEPT ![t] = a]
        /\ Len(a) \in Nat
        /\ Sets(th, "register", p, t, Len(a), job[th].it)
    BY <2>1, <2>2, CreateTaskIs
  <2>4. future' = future /\ stack' = stack
    BY <2>1 DEF CreateTask
  <2>5. future[t] = "none"
    BY <2>3 DEF IInv, FutureMatches
  <2>6. life'[t] # "unborn" /\ parent'[t] = p /\ access'[t] = a
    BY <1>1, <2>3 DEF Types
  <2>7. /\ stack[th] = <<>>
        /\ th = Main => p = Root
        /\ th # Main => p # Root
    BY <2>2, <2>3, InProgramIs, Constants
  <2>8. Len(a) <= Len(access'[t])
    BY <2>3, <2>6
  <2> QED
    BY <2>3, <2>4, <2>5, <2>6, <2>7, <2>8, OwnJob DEF InitPcs
<1>3. CASE Register(th)
  <2>1. PICK t \in Task : t = job[th].new
    BY <1>3, RegisterIs
  <2>2. PICK k : k = job[th].k
    OBVIOUS
  <2>3. /\ At(th, "register") /\ job[th].pc = "register" /\ life[t] # "unborn" /\ k \in 1..Len(access[t])
        /\ Sets(th, "register", job[th].cur, t, k - 1, job[th].it)
    BY <1>3, <2>1, <2>2, RegisterIs
  <2>4. UNCHANGED <<life, parent, access, future, stack>>
    BY <1>3 DEF Register, objVars
  <2>5. Len(access[t]) \in Nat
    BY <1>1, AccessIs
  <2>6. k - 1 <= Len(access[t])
    BY <2>3, <2>5
  <2>7. /\ parent[t] = job[th].cur /\ future[t] = "none"
        /\ th = Main => job[th].cur = Root
        /\ th # Main => job[th].cur # Root
    BY <1>1, <2>1, <2>3 DEF JobMatches
  <2>8. stack[th] = <<>>
    BY <2>3 DEF At
  <2> QED
    BY <2>3, <2>4, <2>6, <2>7, <2>8, OwnJob DEF InitPcs
<1>4. CASE EmplaceTask(th)
  <2>1. PICK pc : pc = IF th = Main THEN "top" ELSE "body"
    OBVIOUS
  <2>2. At(th, "register") /\ job[th].pc = "register" /\ Sets(th, pc, job[th].cur, Root, job[th].k, job[th].it)
    BY <1>4, <2>1, EmplaceTaskIs
  <2>3. /\ th = Main => job[th].cur = Root
        /\ th # Main => job[th].cur # Root
    BY <1>1, <2>2 DEF JobMatches
  <2> QED
    BY <2>1, <2>2, <2>3, OwnJob DEF InitPcs
<1>5. CASE \E t \in Task : DropFuture(th, t)
  <2>1. InProgram(th) /\ UNCHANGED job
    BY <1>5 DEF DropFuture
  <2> QED
    BY <2>1, InProgramIs, NotifyingJob
<1>6. CASE th = Main /\ EndGet
  <2>1. Sets(th, "top", Root, Root, job[th].k, job[th].it)
    BY <1>6, EndGetIs
  <2> QED
    BY <1>6, <2>1, OwnJob DEF InitPcs
<1>7. CASE th = Main /\ ((\E t \in Task : BeginGet(t)) \/ BeginBarrier \/ EndBarrier)
  <2>1. MainWaits
    BY <1>7, MainWaitsIs
  <2>2. UNCHANGED <<future, parent, stack>> /\ stack[th] = <<>>
    BY <1>7, <2>1 DEF MainWaits, objVars
  <2>3. CASE \E t \in Task : /\ Sets(Main, "get", Root, t, job[Main].k, job[Main].it)
                             /\ future[t] = "held" /\ parent[t] = Root
    BY <1>7, <2>2, <2>3, OwnJob DEF InitPcs
  <2>4. CASE \E pc \in {"barrier", "done"} : Sets(Main, pc, Root, job[Main].new, job[Main].k, job[Main].it)
    BY <1>7, <2>2, <2>4, OwnJob DEF InitPcs
  <2> QED
    BY <2>1, <2>3, <2>4 DEF MainWaits
<1>8. CASE th \in Worker /\ \E t \in Task : PopNew(th, t)
  <2>1. PICK t \in Task : PopNew(th, t)
    BY <1>8
  <2>2. stack[th] = <<>> /\ Sets(th, "init", t, job[th].new, Len(access[t]), job[th].it)
    BY <1>8, <2>1, PopNewIs
  <2>3. stack' = stack /\ access' = access /\ th # Main /\ t # Root
    BY <1>8, <2>1, Constants DEF PopNew, objVars
  <2>4. Len(access[t]) \in Nat
    BY <1>1, AccessIs
  <2> QED
    BY <2>2, <2>3, <2>4, OwnJob
<1>9. CASE th \in Worker /\ \E t \in Task : PopReady(th, t)
  <2>1. PICK t \in Task : PopReady(th, t)
    BY <1>9
  <2>2. stack[th] = <<>> /\ Sets(th, "exec", t, job[th].new, job[th].k, job[th].it)
    BY <1>9, <2>1, PopReadyIs
  <2>3. stack' = stack /\ th # Main /\ t # Root
    BY <1>9, <2>1, Constants DEF PopReady
  <2> QED
    BY <2>2, <2>3, OwnJob DEF InitPcs
<1>10. ASSUME th \in Worker, job[th].pc \in InitPcs \union {"up"}, UNCHANGED <<stack, access>>, stack[th] = <<>>,
              NEW pc, NEW k, NEW it, Sets(th, pc, job[th].cur, job[th].new, k, it), k <= job[th].k, k \in Int,
              pc \in InitPcs \union {"up", "exec"}
       PROVE  JobMatches(th)'
  <2>1. th # Main /\ job[th].cur # Root /\ job[th].k <= Len(access[job[th].cur]) /\ job[th].k \in Nat
        /\ Len(access[job[th].cur]) \in Nat
    BY <1>1, <1>10, ListedBefore, Constants, AccessIs
  <2>2. k <= Len(access'[job[th].cur])
    BY <1>10, <2>1
  <2>3. pc \in {"init", "scan", "link", "up", "exec"}
    BY <1>10 DEF InitPcs
  <2>4. PICK cur, new : cur = job[th].cur /\ new = job[th].new
    OBVIOUS
  <2> QED
    BY <1>10, <2>1, <2>2, <2>3, <2>4, OwnJob
<1>11. CASE th \in Worker /\ LockUsers(th)
  <2>1. PICK n : Sets(th, "scan", job[th].cur, job[th].new, job[th].k, n - 1)
    BY <1>11, LockUsersIs
  <2>2. job[th].pc = "init" /\ stack[th] = <<>> /\ UNCHANGED <<stack, access>>
    BY <1>11, LockUsersIs DEF LockUsers, objVars
  <2>3. job[th].k \in Int /\ job[th].k <= job[th].k
    BY <1>1 DEF Types, Job
  <2> QED
    BY <1>10, <1>11, <2>1, <2>2, <2>3 DEF InitPcs
<1>12. ASSUME th \in Worker, Advances(th), job[th].pc \in {"scan", "up"}, stack[th] = <<>>,
              UNCHANGED <<stack, access>>
       PROVE  JobMatches(th)'
  <2>1. job[th].k \in Nat
    BY <1>1 DEF Types, Job
  <2>2. job[th].k - 1 <= job[th].k /\ job[th].k - 1 \in Int /\ job[th].k <= job[th].k /\ job[th].k \in Int
    BY <2>1
  <2> QED
    BY <1>10, <1>12, <2>2 DEF Advances, InitPcs
<1>13. CASE th \in Worker /\ Scan(th)
  <2>1. job[th].pc = "scan" /\ stack[th] = <<>> /\ UNCHANGED <<stack, access>>
    BY <1>13, ScanIs DEF Scan, objVars
  <2>2. job[th].k \in Int /\ job[th].k <= job[th].k
    BY <1>1 DEF Types, Job
  <2>3. Advances(th) \/ Sets(th, "link", job[th].cur, job[th].new, job[th].k, job[th].it)
    BY <1>13, ScanIs
  <2> QED
    BY <1>10, <1>12, <1>13, <2>1, <2>2, <2>3 DEF InitPcs
<1>14. CASE th \in Worker /\ Link(th)
  <2>1. job[th].pc = "link" /\ stack[th] = <<>> /\ UNCHANGED <<stack, access>>
        /\ Sets(th, "up", job[th].cur, job[th].new, job[th].k, job[th].it)
    BY <1>14, LinkIs DEF Link
  <2>2. job[th].k \in Int /\ job[th].k <= job[th].k
    BY <1>1 DEF Types, Job
  <2> QED
    BY <1>10, <1>14, <2>1, <2>2 DEF InitPcs
<1>15. CASE th \in Worker /\ CountEdge(th)
  <2>1. job[th].pc = "up" /\ stack[th] = <<>> /\ UNCHANGED <<stack, access>> /\ Advances(th)
    BY <1>15, CountEdgeIs DEF CountEdge, objVars
  <2> QED
    BY <1>12, <1>15, <2>1
<1>16. CASE th \in Worker /\ EndInit(th)
  <2>1. job[th].pc = "init" /\ stack[th] = <<>> /\ UNCHANGED <<stack, access>>
    BY <1>16, EndInitIs DEF EndInit, objVars
  <2>2. \/ Sets(th, "exec", job[th].cur, job[th].new, job[th].k, job[th].it)
        \/ Sets(th, "gather", Root, job[th].new, job[th].k, job[th].it)
    BY <1>16, EndInitIs
  <2>3. job[th].k \in Int /\ job[th].k <= job[th].k
    BY <1>1 DEF Types, Job
  <2>4. CASE Sets(th, "exec", job[th].cur, job[th].new, job[th].k, job[th].it)
    BY <1>10, <1>16, <2>1, <2>3, <2>4 DEF InitPcs
  <2>5. CASE Sets(th, "gather", Root, job[th].new, job[th].k, job[th].it)
    <3>1. th # Main
      BY <1>16, Constants
    <3> QED
      BY <2>5, <3>1, OwnJob DEF InitPcs
  <2> QED
    BY <2>2, <2>4, <2>5
<1>17. CASE th \in Worker /\ (Execute(th) \/ EndBody(th))
  <2>1. th # Main
    BY <1>17, Constants
  <2>2. CASE Execute(th)
    <3>1. job[th].cur # Root /\ Sets(th, "body", job[th].cur, job[th].new, job[th].k, job[th].it)
      BY <1>17, <2>2, ExecuteIs, Constants
    <3> QED
      BY <2>1, <3>1, OwnJob DEF InitPcs
  <2>3. CASE EndBody(th)
    <3>1. Sets(th, "gather", Root, job[th].new, job[th].k, job[th].it)
      BY <1>17, <2>3, EndBodyIs
    <3> QED
      BY <2>1, <3>1, OwnJob DEF InitPcs
  <2> QED
    BY <1>17, <2>2, <2>3
<1>18. CASE \/ NotifyPost(th) \/ NotifyGet(th) \/ ReadWaker(th) \/ DeleteFromResource(th)
            \/ NotifyFollower(th) \/ ActivateTask(th) \/ CountDown(th) \/ FreeTask(th) \/ ReadDepth(th)
  <2>1. UNCHANGED job /\ stack[th] # <<>>
    BY Zenon, <1>18 DEF NotifyPost, NotifyGet, ReadWaker, DeleteFromResource, NotifyFollower, ActivateTask,
       CountDown, FreeTask, ReadDepth, InFrame
  <2>2. job[th].pc \in {"top", "gather", "body"}
    BY <1>1, <2>1 DEF JobMatches
  <2> QED
    BY <2>1, <2>2, NotifyingJob
<1>19. CASE KeepsEdges(th)
  BY <1>3, <1>4, <1>5, <1>6, <1>7, <1>8, <1>9, <1>11, <1>13, <1>15, <1>16, <1>17, <1>18, <1>19
     DEF KeepsEdges
<1> QED
  BY <1>2, <1>14, <1>18, <1>19 DEF Step, Creates

\* Entries are added at the end of a users list; none is deleted while
\* somebody has the users_mutex.
LEMMA UsersStep ==
  ASSUME IInv, NEW th \in Thread, Step(th), NEW r \in Resource, users_mutex[r] # NoThread
  PROVE  /\ users' = users \/ Register(th) \/ users'[r] = users[r]
         /\ \A n \in DOMAIN users[r] : n \in DOMAIN users'[r] /\ users'[r][n] = users[r][n]
<1>1. Types
  BY DEF IInv
<1>2. CASE Register(th)
  <2>1. PICK t \in Task : t = job[th].new
    BY <1>2, RegisterIs
  <2>2. PICK k \in 1..Len(access[t]) : k = job[th].k
    BY <1>2, <2>1, RegisterIs
  <2>3. PICK s \in Resource : s = ResourceOf(t, k)
    BY <1>2, <2>1, <2>2, RegisterIs
  <2>4. users' = [users EXCEPT ![s] = Append(users[s], <<t, k>>)]
    BY Zenon, <1>2, <2>1, <2>2, <2>3, RegisterIs
  <2>5. <<t, k>> \in Task \X Nat /\ users[r] \in Seq(Task \X Nat)
    <3>1. <<t, k>> \in Task \X Nat
      BY <1>1, AccessIs
    <3> QED
      BY <1>1, <3>1 DEF Types
  <2>6. users'[r] = users[r] \/ users'[r] = Append(users[r], <<t, k>>)
    BY <1>1, <2>4 DEF Types
  <2>7. \A n \in DOMAIN users[r] : n \in DOMAIN users'[r] /\ users'[r][n] = users[r][n]
    <3>1. CASE users'[r] = Append(users[r], <<t, k>>)
      <4>1. Len(users[r]) \in Nat /\ DOMAIN users[r] = 1..Len(users[r])
        BY <2>5
      <4>2. /\ Len(users'[r]) = Len(users[r]) + 1 /\ DOMAIN users'[r] = 1..(Len(users[r]) + 1)
            /\ \A n \in 1..Len(users[r]) : users'[r][n] = users[r][n]
        BY <2>5, <3>1, AppendProperties
      <4> QED
        BY <4>1, <4>2
    <3> QED
      BY <2>6, <3>1
  <2> QED
    BY <1>2, <2>7
<1>3. CASE DeleteFromResource(th)
  <2>1. PICK s \in Resource : s = ResourceOf(top[th].task, top[th].i)
    BY <1>3, DeleteIs
  <2>2. users_mutex[s] = NoThread /\ \E n : users' = [users EXCEPT ![s] = Seqs!RemoveAt(users[s], n)]
    BY <1>3, <2>1, DeleteIs
  <2>3. users'[r] = users[r]
    BY <1>1, <2>2 DEF Types
  <2> QED
    BY <2>3
<1>4. CASE users' = users
  BY <1>4
<1> QED
  BY <1>2, <1>3, <1>4, StepSpares DEF Spares

\* A worker has the users_mutex until it gives it back.
LEMMA MutexStep ==
  ASSUME IInv, NEW th \in Thread, Step(th), NEW u \in Worker, u # th, NEW r \in Resource, users_mutex[r] = u
  PROVE  users_mutex'[r] = u
<1>1. Types /\ u # NoThread
  BY Constants DEF IInv
<1>2. CASE th \in Worker /\ LockUsers(th)
  <2>1. PICK s \in Resource : users_mutex[s] = NoThread /\ users_mutex' = [users_mutex EXCEPT ![s] = th]
    BY <1>2, LockUsersIs
  <2> QED
    BY <1>1, <2>1 DEF Types
<1>3. CASE th \in Worker /\ (Scan(th) \/ CountEdge(th))
  <2>1. PICK s : s = ResourceOf(job[th].cur, job[th].k)
    OBVIOUS
  <2>2. job[th].pc \in {"scan", "link", "up"}
    BY <1>3, ScanIs, CountEdgeIs
  <2>3. s \in Resource /\ users_mutex[s] = th
    BY <1>3, <2>1, <2>2, PredecessorIs
  <2>4. users_mutex' = users_mutex \/ users_mutex' = [users_mutex EXCEPT ![s] = NoThread]
    BY <1>3, <2>1, ScanIs, CountEdgeIs DEF Advances
  <2> QED
    BY <1>1, <2>3, <2>4 DEF Types
<1> QED
  BY <1>2, <1>3, StepSpares DEF Spares

\* A predecessor under consideration has not begun to notify its followers.
LEMMA PredecessorWaits ==
  ASSUME IInv, NEW w \in Worker, job[w].pc \in {"scan", "link", "up"}, job[w].it > 0,
         NEW q, q = Predecessor(w), NEW x \in Slot, Carries(x, q)
  PROVE  fr[x].pc \in {"waker", "delete"}
<1>1. Types /\ CarriedOnce
  BY DEF IInv
<1>2. PICK r \in Resource : r = ResourceOf(job[w].cur, job[w].k) /\ job[w].it \in DOMAIN users[r]
                            /\ q \in Task /\ Listed(q, users[r][job[w].it][2])
  BY PredecessorIs
<1>3. post[q] = 0
  BY <1>1, <1>2 DEF CarriedOnce
<1>4. PICK y \in Slot : Carries(y, q) /\ fr[y].pc \in {"waker", "delete"}
  BY <1>2, <1>3 DEF Listed
<1>5. x = y
  BY <1>1, <1>2, <1>4 DEF CarriedOnce
<1> QED
  BY <1>4, <1>5

\* So its edge to the task stays until the search has ended.
LEMMA EdgeStays ==
  ASSUME IInv, NEW th \in Thread, Step(th), NEW w \in Worker, job[w].pc \in {"scan", "link", "up"},
         job[w].it > 0, NEW q \in Task, q = Predecessor(w), NEW n \in Nat, Pending(q, n)
  PROVE  Pending(q, n)' /\ followers'[q][n] = followers[q][n]
<1>1. Types
  BY DEF IInv
<1>2. CASE KeepsEdges(th)
  BY <1>2, KeepsEdgesIs DEF PendingSame
<1>3. CASE Creates(th)
  <2>1. PICK t \in Task, a \in AccessSeq : CreateTask(th, t, a)
    BY <1>3 DEF Creates
  <2>2. PICK p : p = job[th].cur
    OBVIOUS
  <2>3. PendingSame \/ PendingAdds(t, 1, PostOf(p))
    BY <2>1, <2>2, CreateTaskPending
  <2> QED
    BY <2>3 DEF PendingSame, PendingAdds, OthersPending
<1>4. CASE th \in Worker /\ Link(th)
  <2>1. PICK p : p = Predecessor(th)
    OBVIOUS
  <2>2. PICK t : t = job[th].cur
    OBVIOUS
  <2>3. PICK m : m = Len(followers[p]) + 1
    OBVIOUS
  <2>4. PendingAdds(p, m, PreOf(t))
    BY <1>4, <2>1, <2>2, <2>3, LinkPending
  <2> QED
    BY <2>4 DEF PendingAdds, OthersPending
<1>5. CASE NotifyFollower(th)
  <2>1. PICK p : p = top[th].task
    OBVIOUS
  <2>2. PICK i : i = top[th].i
    OBVIOUS
  <2>3. PendingDrops(p, i)
    BY <1>5, <2>1, <2>2, NotifyFollowerPending
  <2>4. q # p
    <3>1. PICK y \in Slot : y = TopSlot(th) /\ top[th] = fr[y]
      BY <1>1, TopFrame DEF Types
    <3>2. top[th].pc = "followers"
      BY Zenon, <1>5, NotifyFollowerIs
    <3>3. q = p => Carries(y, q)
      BY <2>1, <3>1, <3>2 DEF Carries
    <3> QED
      BY <3>1, <3>2, <3>3, PredecessorWaits
  <2> QED
    BY <2>3, <2>4 DEF PendingDrops, OthersPending
<1> QED
  BY <1>2, <1>3, <1>4, <1>5 DEF Step, Creates

\* A worker goes on with its search whatever the others do.
LEMMA OtherSearches ==
  ASSUME IInv, NEW th \in Thread, Step(th), NEW u \in Worker, u # th
  PROVE  Searches(u)'
<1>1. Types /\ Searches(u)
  BY DEF IInv, ThreadsMatch
<1>2. PICK j \in Job : j = job[u] /\ job'[u] = j
  BY <1>1, OthersKeepJob, Constants DEF Types
<1>3. SUFFICES ASSUME j.pc \in {"scan", "link", "up"}
               PROVE  Searches(u)'
  <2>1. CASE j.pc \notin {"scan", "link", "up"}
    BY <1>2, <2>1 DEF Searches
  <2> QED
    BY <1>3, <2>1
<1>4. PICK t \in Task : t = j.cur
  BY <1>2, <1>3, PredecessorIs
<1>5. PICK r \in Resource : r = ResourceOf(t, j.k)
  BY <1>2, <1>3, <1>4, PredecessorIs
<1>6. /\ j.k > 0 /\ users_mutex[r] = u
      /\ \E n \in DOMAIN users[r] : j.it < n /\ users[r][n] = <<t, j.k>>
      /\ j.pc \in {"link", "up"} => j.it > 0 /\ parent[Predecessor(u)] = parent[t]
      /\ j.pc = "up" => \E n \in Nat : Pending(Predecessor(u), n) /\ followers[Predecessor(u)][n] = PreOf(t)
  BY <1>1, <1>2, <1>3, <1>4, <1>5 DEF Searches
<1>7. life[t] # "unborn"
  BY <1>2, <1>3, <1>4, ListedBefore DEF InitPcs
<1>8. access'[t] = access[t] /\ parent'[t] = parent[t]
  BY <1>7, FollowersStep
<1>9. ResourceOf(t, j.k)' = r
  BY <1>5, <1>8 DEF ResourceOf
<1>10. users_mutex'[r] = u
  BY <1>6, MutexStep
<1>11. \A n \in DOMAIN users[r] : n \in DOMAIN users'[r] /\ users'[r][n] = users[r][n]
  <2>1. users_mutex[r] # NoThread
    BY <1>6, Constants
  <2> QED
    BY <2>1, UsersStep
<1>12. \E n \in DOMAIN users'[r] : j.it < n /\ users'[r][n] = <<t, j.k>>
  BY <1>6, <1>11
<1>13. ASSUME j.it > 0
       PROVE  /\ Predecessor(u)' = Predecessor(u) /\ Predecessor(u) \in Task
              /\ parent'[Predecessor(u)] = parent[Predecessor(u)]
  <2>1. PICK q \in Task : q = Predecessor(u) /\ j.it \in DOMAIN users[r] /\ life[q] # "unborn"
    BY <1>2, <1>3, <1>4, <1>5, <1>13, PredecessorIs
  <2>2. Predecessor(u) = users[r][j.it][1]
    BY <1>2, <1>4, <1>5 DEF Predecessor
  <2>3. Predecessor(u)' = users'[r][j.it][1]
    <3>1. Predecessor(u)' = users'[access'[job'[u].cur][job'[u].k].res][job'[u].it][1]
      BY DEF Predecessor, ResourceOf
    <3>3. access'[t][j.k].res = r
      BY <1>5, <1>8 DEF ResourceOf
    <3> QED
      BY <1>2, <1>4, <3>1, <3>3
  <2>4. parent'[q] = parent[q]
    BY <2>1, FollowersStep
  <2> QED
    BY <1>11, <2>1, <2>2, <2>3, <2>4
<1>14. ASSUME j.pc = "up"
       PROVE  \E n \in Nat : /\ Pending(Predecessor(u), n)'
                             /\ followers'[Predecessor(u)'][n] = PreOf(t)
  <2>1. j.it > 0
    BY <1>6, <1>14
  <2>2. PICK q \in Task : q = Predecessor(u)
    BY <1>13, <2>1
  <2>3. PICK n \in Nat : Pending(q, n) /\ followers[q][n] = PreOf(t)
    BY <1>6, <1>14, <2>2
  <2>4. Pending(q, n)' /\ followers'[q][n] = followers[q][n]
    BY <1>2, <1>3, <2>1, <2>2, <2>3, EdgeStays
  <2>5. Predecessor(u)' = q
    BY <1>13, <2>1, <2>2
  <2>6. Pending(Predecessor(u), n)' <=> Pending(q, n)'
    BY <2>5 DEF Pending, Carries, StillTo
  <2> QED
    BY <2>3, <2>4, <2>5, <2>6
<1> QED
  <2>1. job'[u].pc = j.pc /\ job'[u].cur = t /\ job'[u].k = j.k /\ job'[u].it = j.it
    BY <1>2, <1>4
  <2>2. ResourceOf(job[u].cur, job[u].k)' = r
    BY <1>5, <1>8, <2>1 DEF ResourceOf
  <2>3. PreOf(job[u].cur)' = PreOf(t)
    BY <2>1 DEF PreOf
  <2>4. j.pc \in {"link", "up"} => j.it > 0 /\ parent'[Predecessor(u)'] = parent'[t]
    BY <1>6, <1>8, <1>13
  <2> QED
    BY <1>6, <1>10, <1>12, <1>14, <2>1, <2>2, <2>3, <2>4 DEF Searches

\* The worker that searches: it has found its entry, and goes towards the front.
LEMMA OwnSearches ==
  ASSUME IInv, NEW w \in Worker, w \in Thread, Step(w)
  PROVE  Searches(w)'
<1>1. Types /\ Searches(w) /\ JobMatches(w) /\ w # Main
  BY Constants DEF IInv, ThreadsMatch
<1>2. CASE job'[w].pc \notin {"scan", "link", "up"}
  BY <1>2 DEF Searches
<1>3. ASSUME NEW pc, NEW cur, NEW new, NEW k, NEW it, Sets(w, pc, cur, new, k, it),
             pc \notin {"scan", "link", "up"}
      PROVE  Searches(w)'
  BY <1>2, <1>3 DEF Sets
<1>4. ASSUME NEW pc \in {"scan", "link"}, NEW it, NEW t \in Task, t = job[w].cur, NEW k, k = job[w].k,
             NEW r \in Resource, r = ResourceOf(t, k),
             Sets(w, pc, t, job[w].new, k, it), UNCHANGED <<users, access, parent>>,
             k > 0, users_mutex'[r] = w,
             \E n \in DOMAIN users[r] : it < n /\ users[r][n] = <<t, k>>,
             pc = "link" => it > 0 /\ it = job[w].it /\ parent[Predecessor(w)] = parent[t]
      PROVE  Searches(w)'
  <2>1. job'[w].pc = pc /\ job'[w].cur = t /\ job'[w].k = k /\ job'[w].it = it
    BY <1>4 DEF Sets
  <2>2. ResourceOf(job[w].cur, job[w].k)' = r
    BY Zenon, <1>4, <2>1 DEF ResourceOf
  <2>3. pc = "link" => Predecessor(w)' = Predecessor(w)
    <3>1. Predecessor(w) = users[r][job[w].it][1]
      BY <1>4 DEF Predecessor
    <3>2. Predecessor(w)' = users'[ResourceOf(job[w].cur, job[w].k)'][job'[w].it][1]
      BY DEF Predecessor
    <3> QED
      BY Zenon, <1>4, <2>1, <2>2, <3>1, <3>2
  <2>4. pc = "link" => parent'[Predecessor(w)'] = parent'[t]
    BY <1>4, <2>3
  <2>5. \E n \in DOMAIN users'[r] : it < n /\ users'[r][n] = <<t, k>>
    BY <1>4
  <2> QED
    BY Zenon, <1>4, <2>1, <2>2, <2>4, <2>5 DEF Searches
<1>5. CASE LockUsers(w)
  <2>1. PICK t \in Task : t = job[w].cur
    BY <1>5, LockUsersIs
  <2>2. PICK k \in 1..Len(access[t]) : k = job[w].k
    BY <1>5, <2>1, LockUsersIs
  <2>3. PICK r \in Resource : r = ResourceOf(t, k)
    BY <1>5, <2>1, <2>2, LockUsersIs
  <2>4. PICK n \in DOMAIN users[r] : /\ users[r][n] = <<t, k>> /\ n - 1 \in Nat
                                     /\ Sets(w, "scan", t, job[w].new, k, n - 1)
    BY <1>5, <2>1, <2>2, <2>3, LockUsersIs
  <2>5. users_mutex' = [users_mutex EXCEPT ![r] = w]
    BY <1>5, <2>1, <2>2, <2>3, LockUsersIs
  <2>6. users_mutex'[r] = w
    BY <1>1, <2>5 DEF Types
  <2>7. UNCHANGED <<users, access, parent>>
    BY <1>5 DEF LockUsers, objVars
  <2>8. n - 1 < n /\ k > 0
    <3>1. n \in Nat /\ Len(access[t]) \in Nat
      BY <1>1, AccessIs, EntryIs
    <3> QED
      BY <3>1
  <2>9. \E m \in DOMAIN users[r] : n - 1 < m /\ users[r][m] = <<t, k>>
    BY <2>4, <2>8
  <2> QED
    BY <1>4, <2>1, <2>2, <2>3, <2>4, <2>6, <2>7, <2>8, <2>9
<1>6. ASSUME job[w].pc \in {"scan", "up"}, UNCHANGED <<users, access, parent>>,
             \/ Advances(w)
             \/ /\ job[w].it > 0 /\ parent[Predecessor(w)] = parent[job[w].cur] /\ UNCHANGED users_mutex
                /\ Sets(w, "link", job[w].cur, job[w].new, job[w].k, job[w].it)
      PROVE  Searches(w)'
  <2>1. PICK t \in Task : t = job[w].cur
    BY <1>6, PredecessorIs
  <2>2. PICK k : k = job[w].k
    OBVIOUS
  <2>3. PICK r \in Resource : r = ResourceOf(t, k) /\ users_mutex[r] = w
    BY <1>6, <2>1, <2>2, PredecessorIs
  <2>4. k > 0 /\ \E n \in DOMAIN users[r] : job[w].it < n /\ users[r][n] = <<t, k>>
    BY <1>1, <1>6, <2>1, <2>2, <2>3 DEF Searches
  <2>5. PICK n \in DOMAIN users[r] : job[w].it < n /\ users[r][n] = <<t, k>>
    BY <2>4
  <2>6. job[w].it \in Nat /\ n \in Nat
    BY <1>1, <1>6, EntryIs DEF Types, Job
  <2>7. job[w].it - 1 < n
    BY <2>5, <2>6
  <2>8. CASE /\ job[w].it > 0 /\ UNCHANGED users_mutex
             /\ Sets(w, "scan", job[w].cur, job[w].new, job[w].k, job[w].it - 1)
    BY <1>4, <1>6, <2>1, <2>2, <2>3, <2>4, <2>5, <2>7, <2>8
  <2>9. CASE Sets(w, "init", job[w].cur, job[w].new, job[w].k - 1, 0)
    BY <1>3, <2>9
  <2>10. CASE /\ job[w].it > 0 /\ parent[Predecessor(w)] = parent[job[w].cur] /\ UNCHANGED users_mutex
              /\ Sets(w, "link", job[w].cur, job[w].new, job[w].k, job[w].it)
    BY <1>4, <1>6, <2>1, <2>2, <2>3, <2>4, <2>5, <2>10
  <2> QED
    BY <1>6, <2>8, <2>9, <2>10 DEF Advances
<1>7. CASE Scan(w)
  <2>1. UNCHANGED <<users, access, parent>>
    BY <1>7 DEF Scan, objVars
  <2> QED
    BY <1>6, <1>7, <2>1, ScanIs
<1>8. CASE CountEdge(w)
  <2>1. UNCHANGED <<users, access, parent>>
    BY <1>8 DEF CountEdge, objVars
  <2> QED
    BY <1>6, <1>8, <2>1, CountEdgeIs
<1>9. CASE Link(w)
  <2>1. PICK t \in Task : t = job[w].cur
    BY <1>9, LinkIs
  <2>2. PICK q \in Task : q = Predecessor(w)
    BY <1>9, LinkIs
  <2>3. PICK n : n = Len(followers[q]) + 1
    OBVIOUS
  <2>4. n \in Nat /\ Pending(q, n)' /\ followers'[q][n] = PreOf(t)
    BY <1>9, <2>1, <2>2, <2>3, LinkPending DEF PendingAdds
  <2>5. /\ job[w].pc = "link" /\ parent[q] = parent[t] /\ job[w].it > 0
        /\ Sets(w, "up", t, job[w].new, job[w].k, job[w].it)
    BY <1>9, <2>1, <2>2, LinkIs
  <2>6. UNCHANGED <<users, users_mutex, access, parent>>
    BY <1>9 DEF Link
  <2>7. job'[w].pc = "up" /\ job'[w].cur = t /\ job'[w].k = job[w].k /\ job'[w].it = job[w].it
    BY <2>5 DEF Sets
  <2>8. ResourceOf(job[w].cur, job[w].k)' = ResourceOf(t, job[w].k)
    BY <2>6, <2>7 DEF ResourceOf
  <2>9. Predecessor(w)' = q
    <3>1. Predecessor(w) = users[ResourceOf(t, job[w].k)][job[w].it][1]
      BY <2>1 DEF Predecessor
    <3>2. Predecessor(w)' = users'[ResourceOf(job[w].cur, job[w].k)'][job'[w].it][1]
      BY DEF Predecessor
    <3> QED
      BY <2>2, <2>6, <2>7, <2>8, <3>1, <3>2
  <2>10. PICK r : r = ResourceOf(t, job[w].k)
    OBVIOUS
  <2>11. /\ job[w].k > 0 /\ users_mutex[r] = w
         /\ \E m \in DOMAIN users[r] : job[w].it < m /\ users[r][m] = <<t, job[w].k>>
    BY <1>1, <2>1, <2>5, <2>10 DEF Searches
  <2>12. Pending(Predecessor(w), n)' /\ followers'[Predecessor(w)'][n] = PreOf(t)
    <3>1. Pending(Predecessor(w), n)' <=> Pending(q, n)'
      BY <2>9 DEF Pending, Carries, StillTo
    <3> QED
      BY <2>4, <2>9, <3>1
  <2>13. PreOf(job[w].cur)' = PreOf(t)
    BY <2>7 DEF PreOf
  <2>14. parent'[Predecessor(w)'] = parent'[t]
    BY <2>5, <2>6, <2>9
  <2>15. \E m \in DOMAIN users'[r] : job'[w].it < m /\ users'[r][m] = <<t, job'[w].k>>
    BY <2>6, <2>7, <2>11
  <2>16. \E m \in Nat : Pending(Predecessor(w), m)' /\ followers'[Predecessor(w)'][m] = PreOf(t)
    BY <2>4, <2>12
  <2> QED
    BY <2>5, <2>6, <2>7, <2>8, <2>10, <2>11, <2>13, <2>14, <2>15, <2>16 DEF Searches
<1>10. CASE Creates(w)
  BY <1>3, <1>10, CreateTaskIs DEF Creates
<1>11. CASE Register(w)
  BY <1>3, <1>11, RegisterIs
<1>12. CASE EmplaceTask(w)
  <2>1. Sets(w, "body", job[w].cur, Root, job[w].k, job[w].it)
    BY <1>1, <1>12, EmplaceTaskIs
  <2> QED
    BY <1>3, <2>1
<1>13. CASE \E t \in Task : PopNew(w, t) \/ PopReady(w, t)
  BY <1>3, <1>13, PopNewIs, PopReadyIs
<1>14. CASE EndInit(w)
  BY <1>3, <1>14, EndInitIs
<1>15. CASE Execute(w) \/ EndBody(w)
  BY <1>3, <1>15, ExecuteIs, EndBodyIs
<1>16. CASE \E t \in Task : DropFuture(w, t)
  <2>1. InProgram(w) /\ job' = job
    BY <1>16 DEF DropFuture
  <2>2. job[w].pc = "body"
    BY <1>1, <2>1, InProgramIs
  <2> QED
    BY <1>2, <2>1, <2>2
<1>17. CASE \/ NotifyPost(w) \/ NotifyGet(w) \/ ReadWaker(w) \/ DeleteFromResource(w)
            \/ NotifyFollower(w) \/ ActivateTask(w) \/ CountDown(w) \/ FreeTask(w) \/ ReadDepth(w)
  <2>1. UNCHANGED job /\ stack[w] # <<>>
    BY Zenon, <1>17 DEF NotifyPost, NotifyGet, ReadWaker, DeleteFromResource, NotifyFollower, ActivateTask,
       CountDown, FreeTask, ReadDepth, InFrame
  <2>2. job[w].pc \in {"top", "gather", "body"}
    BY <1>1, <2>1 DEF JobMatches
  <2> QED
    BY <1>2, <2>1, <2>2
<1>18. CASE KeepsEdges(w)
  <2>1. CASE \E t \in Task : PopNew(w, t)
    BY <1>13, <2>1
  <2>2. CASE \E t \in Task : PopReady(w, t)
    BY <1>13, <2>2
  <2> QED
    BY <1>1, <1>5, <1>7, <1>8, <1>11, <1>12, <1>14, <1>15, <1>16, <1>17, <1>18, <2>1, <2>2 DEF KeepsEdges
<1> QED
  BY <1>9, <1>10, <1>17, <1>18 DEF Step, Creates

\* ThreadsMatch is kept.
LEMMA ThreadsMatchStep ==
  ASSUME IInv, NEW th \in Thread, Step(th)
  PROVE  ThreadsMatch'
<1>1. \A u \in Thread : JobMatches(u)'
  BY OwnJobMatches, OtherJobMatches
<1>2. \A u \in Worker : Searches(u)'
  BY OwnSearches, OtherSearches
<1> QED
  BY <1>1, <1>2 DEF ThreadsMatch

-----------------------------------------------------------------------------
(***************************************************************************)
(* The users of resources.                                                 *)
(***************************************************************************)

\* This notification has not come to the entry of q for its k-th resource.
IsEarly(f, q, k) ==
  f.task = q /\ ((f.pc = "waker" /\ f.i = 0) \/ (f.pc = "delete" /\ k <= f.i))

\* q has not deleted that entry ...
Undeleted(q, k) == post[q] = 0 => \E x \in Slot : IsEarly(fr[x], q, k)

\* ... and has made it.
Made(q, k) ==
  \A th \in Thread : job[th].pc = "register" /\ job[th].new = q => job[th].k < k

\* That is what Listed says.
LEMMA ListedIs ==
  ASSUME NEW q, NEW k
  PROVE  Listed(q, k) <=> Undeleted(q, k) /\ Made(q, k)
<1>1. ASSUME NEW x \in Slot
      PROVE  IsEarly(fr[x], q, k) <=> /\ Carries(x, q) /\ fr[x].pc \in {"waker", "delete"}
                                      /\ fr[x].pc = "delete" => k <= fr[x].i
  BY DEF IsEarly, Carries
<1>2. ASSUME NEW th \in Thread
      PROVE  InPlace("register", th, q) <=> job[th].pc = "register" /\ job[th].new = q
  BY DEF InPlace
<1> QED
  BY <1>1, <1>2 DEF Listed, Undeleted, Made

\* In the next state too.
LEMMA ListedNext ==
  ASSUME NEW q, NEW k
  PROVE  Listed(q, k)' <=> Undeleted(q, k)' /\ Made(q, k)'
<1>1. ASSUME NEW x \in Slot
      PROVE  IsEarly(fr'[x], q, k) <=> /\ Carries(x, q)' /\ fr'[x].pc \in {"waker", "delete"}
                                       /\ fr'[x].pc = "delete" => k <= fr'[x].i
  BY DEF IsEarly, Carries
<1>2. ASSUME NEW th \in Thread
      PROVE  InPlace("register", th, q)' <=> job'[th].pc = "register" /\ job'[th].new = q
  BY DEF InPlace
<1>3. Undeleted(q, k)' <=> (post'[q] = 0 => \E x \in Slot : IsEarly(fr'[x], q, k))
  BY DEF Undeleted, IsEarly
<1> QED
  BY <1>1, <1>2, <1>3 DEF Listed, Made

\* A frame that is not at the entries of q.
NotEarly(f) == f.pc \notin {"waker", "delete"} \/ (f.pc = "waker" /\ f.i = 1)

\* When the frame of one slot is replaced.
LEMMA TurnUndeleted ==
  ASSUME NEW y \in Slot, NEW h, \A x \in Slot : fr'[x] = IF x = y THEN h ELSE fr[x],
         NEW q, NEW k, IsEarly(h, q, k) <=> IsEarly(fr[y], q, k), post'[q] = 0 <=> post[q] = 0
  PROVE  Undeleted(q, k)' <=> Undeleted(q, k)
<1>1. \A x \in Slot : IsEarly(fr'[x], q, k) <=> IsEarly(fr[x], q, k)
  OBVIOUS
<1>2. Undeleted(q, k)' <=> (post'[q] = 0 => \E x \in Slot : IsEarly(fr'[x], q, k))
  BY DEF Undeleted, IsEarly
<1> QED
  BY <1>1, <1>2 DEF Undeleted

\* The steps of a notification other than delete_from_resources.
LEMMA NotifyKeepsEntries ==
  ASSUME IInv, NEW th \in Thread,
         \/ NotifyPost(th) \/ NotifyGet(th) \/ ReadWaker(th) \/ NotifyFollower(th) \/ ActivateTask(th)
         \/ CountDown(th) \/ FreeTask(th) \/ ReadDepth(th),
         NEW q \in Task, NEW k \in 1..Len(access[q])
  PROVE  Undeleted(q, k)' <=> Undeleted(q, k)
<1>1. Types
  BY DEF IInv
<1>2. PICK y \in Slot : y = TopSlot(th) /\ fr[y] = top[th]
  BY <1>1, TopFrame DEF Types
<1>3. ASSUME NEW h, Turns(th, h), NotEarly(h), NotEarly(top[th]), post'[q] = 0 <=> post[q] = 0
      PROVE  Undeleted(q, k)' <=> Undeleted(q, k)
  <2>1. \A x \in Slot : fr'[x] = IF x = y THEN h ELSE fr[x]
    BY <1>2, <1>3 DEF Turns
  <2>2. ~ IsEarly(h, q, k) /\ ~ IsEarly(fr[y], q, k)
    BY <1>2, <1>3 DEF NotEarly, IsEarly
  <2> QED
    BY <1>3, <2>1, <2>2, TurnUndeleted
<1>4. PICK t \in Task : t = top[th].task
  BY Zenon, NotifyPostIs, NotifyGetIs, ReadWakerIs, NotifyFollowerIs, ActivateTaskIs, CountDownIs, FreeTaskIs, ReadDepthIs
<1>5. NotEarly(NoFrame)
  BY DEF NotEarly, NoFrame
<1>6. ASSUME NEW pc, pc \notin {"waker", "delete"}, NEW i PROVE NotEarly(AFrame(t, pc, i))
  BY <1>6 DEF NotEarly, AFrame
<1>7. CASE NotifyPost(th)
  <2>1. /\ top[th].pc = "post" /\ post[t] \in Nat /\ post[t] >= 1
        /\ post' = [post EXCEPT ![t] = post[t] - 1]
        /\ post[t] > 2 => Turns(th, NoFrame)
        /\ ~ (post[t] > 2) => Turns(th, AFrame(t, "waker", post[t] - 1))
    BY <1>4, <1>7, NotifyPostIs
  <2>2. NotEarly(top[th])
    BY <2>1 DEF NotEarly
  <2>3. post'[q] = IF q = t THEN post[t] - 1 ELSE post[q]
    BY <1>1, <2>1 DEF Types
  <2>4. CASE post[t] = 1
    <3>1. Turns(th, AFrame(t, "waker", 0))
      BY <2>1, <2>4
    <3>2. \A x \in Slot : fr'[x] = IF x = y THEN AFrame(t, "waker", 0) ELSE fr[x]
      BY <1>2, <3>1 DEF Turns
    <3>3. CASE q = t
      <4>1. IsEarly(fr'[y], q, k)
        BY <3>2, <3>3 DEF IsEarly, AFrame
      <4>2. Undeleted(q, k)' <=> (post'[q] = 0 => \E x \in Slot : IsEarly(fr'[x], q, k))
        BY DEF Undeleted, IsEarly
      <4> QED
        BY <2>4, <3>3, <4>1, <4>2 DEF Undeleted
    <3>4. CASE q # t
      <4>1. ~ IsEarly(AFrame(t, "waker", 0), q, k) /\ ~ IsEarly(fr[y], q, k)
        BY <1>2, <2>2, <3>4 DEF IsEarly, AFrame, NotEarly
      <4> QED
        BY <2>3, <3>2, <3>4, <4>1, TurnUndeleted
    <3> QED
      BY <3>3, <3>4
  <2>5. CASE post[t] # 1
    <3>1. post'[q] = 0 <=> post[q] = 0
      BY <2>1, <2>3, <2>5
    <3>2. CASE post[t] > 2
      BY <1>3, <1>5, <2>1, <2>2, <3>1, <3>2
    <3>3. CASE ~ (post[t] > 2)
      <4>1. post[t] - 1 = 1
        BY <2>1, <2>5, <3>3
      <4>2. Turns(th, AFrame(t, "waker", 1))
        BY <2>1, <3>3, <4>1
      <4>3. NotEarly(AFrame(t, "waker", 1))
        BY DEF NotEarly, AFrame
      <4> QED
        BY <1>3, <2>2, <3>1, <4>2, <4>3
    <3> QED
      BY <3>2, <3>3
  <2> QED
    BY <2>4, <2>5
<1>8. CASE NotifyGet(th)
  <2>1. top[th].pc = "get" /\ Turns(th, AFrame(t, "countdown", 0)) /\ post' = post
    BY <1>4, <1>8, NotifyGetIs DEF NotifyGet
  <2> QED
    BY <1>3, <1>6, <2>1 DEF NotEarly
<1>9. CASE ReadWaker(th)
  <2>1. PICK h : /\ Turns(th, h)
                 /\ \/ top[th].i = 1 /\ h = NoFrame
                    \/ top[th].i = 0 /\ access[t] # <<>> /\ h = AFrame(t, "delete", Len(access[t]))
                    \/ top[th].i = 0 /\ access[t] = <<>> /\ h = AFrame(t, "followers", Len(followers[t]))
    BY <1>4, <1>9, ReadWakerIs
  <2>2. top[th].pc = "waker" /\ post' = post
    BY <1>9, ReadWakerIs DEF ReadWaker
  <2>3. \A x \in Slot : fr'[x] = IF x = y THEN h ELSE fr[x]
    BY <1>2, <2>1 DEF Turns
  <2>4. CASE top[th].i = 1 /\ h = NoFrame
    BY <1>3, <1>5, <2>1, <2>2, <2>4 DEF NotEarly
  <2>5. CASE top[th].i = 0 /\ access[t] # <<>> /\ h = AFrame(t, "delete", Len(access[t]))
    <3>1. Len(access[q]) \in Nat
      BY <1>1, AccessIs
    <3>2. q = t => k <= Len(access[t])
      BY <3>1
    <3>3. h.task = t /\ h.pc = "delete" /\ h.i = Len(access[t])
      BY <2>5 DEF AFrame
    <3>4. IsEarly(h, q, k) <=> IsEarly(fr[y], q, k)
      BY <1>2, <1>4, <2>2, <2>5, <3>2, <3>3 DEF IsEarly
    <3> QED
      BY <2>2, <2>3, <3>4, TurnUndeleted
  <2>6. CASE top[th].i = 0 /\ access[t] = <<>> /\ h = AFrame(t, "followers", Len(followers[t]))
    <3>1. q # t
      <4>1. Len(access[t]) = 0
        BY <1>1, <2>6, AccessIs
      <4> QED
        BY <4>1
    <3>2. ~ IsEarly(h, q, k) /\ ~ IsEarly(fr[y], q, k)
      BY <1>2, <1>4, <2>6, <3>1 DEF IsEarly, AFrame
    <3> QED
      BY <2>2, <2>3, <3>2, TurnUndeleted
  <2> QED
    BY <2>1, <2>4, <2>5, <2>6
<1>10. CASE NotifyFollower(th)
  <2>1. PICK u : u = followers[top[th].task][top[th].i].task
    OBVIOUS
  <2>2. /\ top[th].pc = "followers" /\ post' = post
        /\ \/ \E pc \in {"followers", "activate"} : \E i : Turns(th, AFrame(t, pc, i))
           \/ Nests(th, u)
    BY Zenon, <1>4, <1>10, <2>1, NotifyFollowerIs DEF NotifyFollower
  <2>3. NotEarly(top[th])
    BY <2>2 DEF NotEarly
  <2>4. CASE \E pc \in {"followers", "activate"} : \E i : Turns(th, AFrame(t, pc, i))
    BY <1>3, <1>6, <2>2, <2>3, <2>4
  <2>5. CASE Nests(th, u)
    <3>1. PICK z \in Slot : z = <<th, Len(stack[th]) + 1>> /\ fr[z] = NoFrame
      BY <2>5 DEF Nests
    <3>2. PICK i : i = top[th].i - 1
      OBVIOUS
    <3>3. \A x \in Slot : fr'[x] = IF x = z THEN AFrame(u, "post", 0)
                                   ELSE IF x = y THEN AFrame(t, "followers", i) ELSE fr[x]
      BY <1>2, <1>4, <2>5, <3>1, <3>2 DEF Nests
    <3>4. /\ ~ IsEarly(AFrame(u, "post", 0), q, k) /\ ~ IsEarly(AFrame(t, "followers", i), q, k)
          /\ ~ IsEarly(fr[y], q, k) /\ ~ IsEarly(fr[z], q, k)
      BY <1>2, <2>2, <3>1 DEF IsEarly, AFrame, NoFrame
    <3>5. \A x \in Slot : IsEarly(fr'[x], q, k) <=> IsEarly(fr[x], q, k)
      BY <3>3, <3>4
    <3>6. Undeleted(q, k)' <=> (post'[q] = 0 => \E x \in Slot : IsEarly(fr'[x], q, k))
      BY DEF Undeleted, IsEarly
    <3> QED
      BY <2>2, <3>5, <3>6 DEF Undeleted
  <2> QED
    BY <2>2, <2>4, <2>5
<1>11. CASE ActivateTask(th)
  <2>1. top[th].pc = "activate" /\ post' = post /\ Turns(th, AFrame(t, "followers", top[th].i - 1))
    BY Zenon, <1>4, <1>11, ActivateTaskIs DEF ActivateTask
  <2> QED
    BY <1>3, <1>6, <2>1 DEF NotEarly
<1>12. CASE CountDown(th)
  <2>1. top[th].pc \in {"countdown", "followers"} /\ post' = post
        /\ (Turns(th, NoFrame) \/ Turns(th, AFrame(t, "free", 0)))
    BY <1>4, <1>12, CountDownIs DEF CountDown
  <2> QED
    BY <1>3, <1>5, <1>6, <2>1 DEF NotEarly
<1>13. CASE FreeTask(th)
  <2>1. top[th].pc = "free" /\ post' = post /\ Turns(th, AFrame(t, "depth", 0))
    BY <1>4, <1>13, FreeTaskIs DEF FreeTask
  <2> QED
    BY <1>3, <1>6, <2>1 DEF NotEarly
<1>14. CASE ReadDepth(th)
  <2>1. top[th].pc = "depth" /\ post' = post /\ Turns(th, NoFrame)
    BY <1>14, ReadDepthIs DEF ReadDepth
  <2> QED
    BY <1>3, <1>5, <2>1 DEF NotEarly
<1> QED
  BY <1>7, <1>8, <1>9, <1>10, <1>11, <1>12, <1>13, <1>14

\* The steps outside of notify.
Outside(th) ==
  \/ Creates(th) \/ Register(th) \/ EmplaceTask(th)
  \/ \E t \in Task : DropFuture(th, t)
  \/ th = Main /\ EndGet
  \/ th = Main /\ ((\E t \in Task : BeginGet(t)) \/ BeginBarrier \/ EndBarrier)
  \/ th \in Worker /\ \E t \in Task : PopNew(th, t) \/ PopReady(th, t)
  \/ th \in Worker /\ (LockUsers(th) \/ Scan(th) \/ Link(th) \/ CountEdge(th) \/ EndInit(th))
  \/ th \in Worker /\ Execute(th)
  \/ th \in Worker /\ EndBody(th)

\* They come to no entry.
LEMMA OutsideKeepsEntries ==
  ASSUME IInv, NEW th \in Thread, Outside(th), NEW q \in Task, NEW k
  PROVE  Undeleted(q, k)' <=> Undeleted(q, k)
<1>1. post'[q] = 0 <=> post[q] = 0
  <2>1. KeepsCarriers(th)
    BY DEF Outside, KeepsCarriers, Creates
  <2> QED
    BY <2>1, KeepsCarriersIs
<1>2. Undeleted(q, k)' <=> (post'[q] = 0 => \E x \in Slot : IsEarly(fr'[x], q, k))
  BY DEF Undeleted, IsEarly
<1>3. CASE UNCHANGED stack
  <2>1. fr' = fr
    BY <1>3, SameStack
  <2> QED
    BY <1>1, <1>2, <2>1 DEF Undeleted
<1>4. ASSUME NEW t, NEW pc \in {"get", "post"}, Calls(th, t, pc)
      PROVE  Undeleted(q, k)' <=> Undeleted(q, k)
  <2>1. PICK y \in Slot : y = <<th, 1>> /\ fr[y] = NoFrame
    BY <1>4 DEF Calls
  <2>2. \A x \in Slot : fr'[x] = IF x = y THEN AFrame(t, pc, 0) ELSE fr[x]
    BY <1>4, <2>1 DEF Calls
  <2>3. ~ IsEarly(AFrame(t, pc, 0), q, k) /\ ~ IsEarly(fr[y], q, k)
    BY <2>1 DEF IsEarly, AFrame, NoFrame
  <2> QED
    BY <1>1, <2>2, <2>3, TurnUndeleted
<1>5. CASE \/ Creates(th) \/ Register(th) \/ EmplaceTask(th)
           \/ th = Main /\ ((\E t \in Task : BeginGet(t)) \/ BeginBarrier \/ EndBarrier)
           \/ th \in Worker /\ \E t \in Task : PopNew(th, t) \/ PopReady(th, t)
           \/ th \in Worker /\ (LockUsers(th) \/ Scan(th) \/ Link(th) \/ CountEdge(th) \/ EndInit(th))
           \/ th \in Worker /\ Execute(th)
  <2>1. UNCHANGED stack
    BY Zenon, <1>5 DEF Creates, CreateTask, Register, EmplaceTask, BeginGet, BeginBarrier, EndBarrier, PopNew,
                PopReady, LockUsers, Scan, Link, CountEdge, EndInit, Execute
  <2> QED
    BY <1>3, <2>1
<1>6. CASE \E t \in Task : DropFuture(th, t)
  BY <1>4, <1>6, DropFutureIs
<1>7. CASE th = Main /\ EndGet
  BY <1>4, <1>7, EndGetIs
<1>8. CASE th \in Worker /\ EndBody(th)
  BY <1>4, <1>8, EndBodyIs
<1> QED
  BY <1>5, <1>6, <1>7, <1>8 DEF Outside

\* Only delete_from_resources takes an entry away.
LEMMA UndeletedStep ==
  ASSUME IInv, NEW th \in Thread, Step(th), ~ DeleteFromResource(th),
         NEW q \in Task, NEW k \in 1..Len(access[q])
  PROVE  Undeleted(q, k)' <=> Undeleted(q, k)
<1>1. \/ Outside(th)
      \/ NotifyPost(th) \/ NotifyGet(th) \/ ReadWaker(th) \/ NotifyFollower(th) \/ ActivateTask(th)
      \/ CountDown(th) \/ FreeTask(th) \/ ReadDepth(th)
  BY DEF Step, KeepsEdges, Outside, Creates
<1> QED
  BY <1>1, OutsideKeepsEntries, NotifyKeepsEntries

\* Only the creation of a task has to do with registration.
LEMMA RegisterSteps ==
  ASSUME IInv, NEW th \in Thread, Step(th), ~ Creates(th), ~ Register(th), ~ EmplaceTask(th)
  PROVE  job[th].pc # "register" /\ job'[th].pc # "register"
<1>1. Types /\ JobMatches(th)
  BY DEF IInv, ThreadsMatch
<1>2. CASE \E t \in Task : DropFuture(th, t)
  <2>1. InProgram(th) /\ UNCHANGED job
    BY <1>2 DEF DropFuture
  <2> QED
    BY <2>1, InProgramIs
<1>3. CASE th = Main /\ EndGet
  <2>1. job[th].pc = "get" /\ Sets(th, "top", Root, Root, job[th].k, job[th].it)
    BY <1>3, EndGetIs
  <2> QED
    BY <2>1 DEF Sets
<1>4. CASE th = Main /\ ((\E t \in Task : BeginGet(t)) \/ BeginBarrier \/ EndBarrier)
  <2>1. MainWaits
    BY <1>4, MainWaitsIs
  <2> QED
    BY <1>4, <2>1 DEF MainWaits, Sets
<1>5. CASE th \in Worker /\ \E t \in Task : PopNew(th, t)
  <2>1. PICK t \in Task : PopNew(th, t)
    BY <1>5
  <2>2. job[th].pc = "gather" /\ Sets(th, "init", t, job[th].new, Len(access[t]), job[th].it)
    BY <1>5, <2>1, PopNewIs
  <2> QED
    BY <2>2 DEF Sets
<1>6. CASE th \in Worker /\ \E t \in Task : PopReady(th, t)
  <2>1. PICK t \in Task : PopReady(th, t)
    BY <1>6
  <2>2. job[th].pc = "gather" /\ Sets(th, "exec", t, job[th].new, job[th].k, job[th].it)
    BY <1>6, <2>1, PopReadyIs
  <2> QED
    BY <2>2 DEF Sets
<1>7. CASE th \in Worker /\ LockUsers(th)
  <2>1. job[th].pc = "init" /\ \E n : Sets(th, "scan", job[th].cur, job[th].new, job[th].k, n - 1)
    BY <1>7, LockUsersIs
  <2> QED
    BY <2>1 DEF Sets
<1>8. CASE th \in Worker /\ Scan(th)
  <2>1. /\ job[th].pc = "scan"
        /\ Advances(th) \/ Sets(th, "link", job[th].cur, job[th].new, job[th].k, job[th].it)
    BY <1>8, ScanIs
  <2> QED
    BY <2>1 DEF Sets, Advances
<1>9. CASE th \in Worker /\ Link(th)
  <2>1. job[th].pc = "link" /\ Sets(th, "up", job[th].cur, job[th].new, job[th].k, job[th].it)
    BY <1>9, LinkIs
  <2> QED
    BY <2>1 DEF Sets
<1>10. CASE th \in Worker /\ CountEdge(th)
  <2>1. job[th].pc = "up" /\ Advances(th)
    BY <1>10, CountEdgeIs
  <2> QED
    BY <2>1 DEF Sets, Advances
<1>11. CASE th \in Worker /\ EndInit(th)
  <2>1. job[th].pc = "init" /\ \E pc \in {"exec", "gather"} : \E cur : Sets(th, pc, cur, job[th].new, job[th].k, job[th].it)
    BY <1>11, EndInitIs
  <2> QED
    BY <2>1 DEF Sets
<1>12. CASE th \in Worker /\ Execute(th)
  <2>1. job[th].pc = "exec" /\ Sets(th, "body", job[th].cur, job[th].new, job[th].k, job[th].it)
    BY <1>12, ExecuteIs
  <2> QED
    BY <2>1 DEF Sets
<1>13. CASE th \in Worker /\ EndBody(th)
  <2>1. job[th].pc = "body" /\ Sets(th, "gather", Root, job[th].new, job[th].k, job[th].it)
    BY <1>13, EndBodyIs
  <2> QED
    BY <2>1 DEF Sets
<1>14. CASE \/ NotifyPost(th) \/ NotifyGet(th) \/ ReadWaker(th) \/ DeleteFromResource(th)
            \/ NotifyFollower(th) \/ ActivateTask(th) \/ CountDown(th) \/ FreeTask(th) \/ ReadDepth(th)
  <2>1. UNCHANGED job /\ stack[th] # <<>>
    BY Zenon, <1>14 DEF NotifyPost, NotifyGet, ReadWaker, DeleteFromResource, NotifyFollower, ActivateTask,
       CountDown, FreeTask, ReadDepth, InFrame
  <2>2. job[th].pc \in {"top", "gather", "body"}
    BY <1>1, <2>1 DEF JobMatches
  <2> QED
    BY <2>1, <2>2
<1>15. CASE KeepsEdges(th)
  BY <1>2, <1>3, <1>4, <1>5, <1>6, <1>7, <1>8, <1>10, <1>11, <1>12, <1>13, <1>14, <1>15 DEF KeepsEdges
<1> QED
  BY <1>9, <1>14, <1>15 DEF Step, Creates

\* submit makes one entry after the other.
LEMMA MadeStep ==
  ASSUME IInv, NEW th \in Thread, Step(th), NEW q \in Task, NEW k \in Nat, k > 0,
         NEW t0, t0 = job[th].new, NEW k0, k0 = job[th].k
  PROVE  /\ Register(th) => (Made(q, k)' <=> Made(q, k) \/ (q = t0 /\ k = k0))
         /\ ~ Register(th) /\ (Creates(th) => life[q] # "unborn") => (Made(q, k)' <=> Made(q, k))
<1>1. Types
  BY DEF IInv
<1>2. \A u \in Thread : u # th => job'[u] = job[u]
  BY OthersKeepJob
<1>3. Made(q, k)' <=> \A u \in Thread : job'[u].pc = "register" /\ job'[u].new = q => job'[u].k < k
  BY DEF Made
<1>4. CASE Register(th)
  <2>1. /\ t0 \in Task /\ k0 \in 1..Len(access[t0])
        /\ job[th].pc = "register" /\ job'[th].pc = "register" /\ job'[th].new = t0 /\ job'[th].k = k0 - 1
    BY <1>4, RegisterIs DEF Sets
  <2>2. k0 \in Nat
    BY <1>1, <2>1, AccessIs
  <2>3. CASE q = t0
    <3>1. \A u \in Thread : u # th => ~ (job[u].pc = "register" /\ job[u].new = q)
      <4>1. SUFFICES ASSUME NEW u \in Thread, job[u].pc = "register", job[u].new = q PROVE u = th
        OBVIOUS
      <4>2. InPlace("register", u, q) /\ InPlace("register", th, q)
        BY <2>1, <2>3, <4>1 DEF InPlace
      <4> QED
        BY <4>2, PlaceNames DEF IInv, OnePlace
    <3>2. Made(q, k) <=> k0 < k
      BY <2>1, <2>3, <3>1 DEF Made
    <3>3. Made(q, k)' <=> k0 - 1 < k
      BY <1>2, <1>3, <2>1, <2>3, <3>1
    <3> QED
      BY <1>4, <2>2, <2>3, <3>2, <3>3
  <2>4. CASE q # t0
    BY <1>2, <1>3, <1>4, <2>1, <2>4 DEF Made
  <2> QED
    BY <2>3, <2>4
<1>5. CASE Creates(th)
  <2>1. PICK t \in Task, a \in AccessSeq : CreateTask(th, t, a)
    BY <1>5 DEF Creates
  <2>2. life[t] = "unborn" /\ job'[th].new = t /\ job[th].pc # "register"
    BY <2>1, CreateTaskIs, InProgramIs DEF Sets
  <2>3. ~ Register(th)
    BY <2>2, RegisterIs
  <2> QED
    BY <1>2, <1>3, <1>5, <2>2, <2>3 DEF Made
<1>6. CASE EmplaceTask(th)
  <2>1. job[th].k = 0 /\ job'[th].pc # "register"
    BY <1>6, EmplaceTaskIs DEF Sets
  <2>2. ~ Register(th)
    BY <2>1 DEF Register
  <2> QED
    BY <1>2, <1>3, <2>1, <2>2 DEF Made
<1>7. CASE ~ Creates(th) /\ ~ Register(th) /\ ~ EmplaceTask(th)
  <2>1. job[th].pc # "register" /\ job'[th].pc # "register"
    BY <1>7, RegisterSteps
  <2> QED
    BY <1>2, <1>3, <1>7, <2>1 DEF Made
<1> QED
  BY <1>4, <1>5, <1>6, <1>7

\* delete_from_resources takes one entry away.
LEMMA DeleteListed ==
  ASSUME IInv, NEW th \in Thread, DeleteFromResource(th), NEW t \in Task, t = top[th].task,
         NEW i, i = top[th].i, NEW q \in Task, NEW k \in Nat, k > 0
  PROVE  Listed(q, k)' <=> Listed(q, k) /\ ~ (q = t /\ k = i)
<1>1. Types /\ CarriedOnce
  BY DEF IInv
<1>2. PICK y \in Slot : y = TopSlot(th) /\ fr[y] = top[th]
  BY <1>1, TopFrame DEF Types
<1>3. /\ top[th].pc = "delete" /\ i \in 1..Len(access[t])
      /\ i > 1 => Turns(th, AFrame(t, "delete", i - 1))
      /\ i = 1 => Turns(th, AFrame(t, "followers", Len(followers[t])))
  BY DeleteIs
<1>4. i \in Nat /\ i >= 1
  BY <1>1, <1>3, AccessIs
<1>5. PICK h : /\ Turns(th, h) /\ h.task = t
               /\ i > 1 => h.pc = "delete" /\ h.i = i - 1
               /\ i = 1 => h.pc = "followers"
  <2>1. CASE i > 1
    <3>1. PICK h : h = AFrame(t, "delete", i - 1)
      OBVIOUS
    <3>2. h.task = t /\ h.pc = "delete" /\ h.i = i - 1
      BY <3>1 DEF AFrame
    <3> QED
      BY <1>3, <1>4, <2>1, <3>1, <3>2
  <2>2. CASE i = 1
    <3>1. PICK h : h = AFrame(t, "followers", Len(followers[t]))
      OBVIOUS
    <3>2. h.task = t /\ h.pc = "followers"
      BY <3>1 DEF AFrame
    <3> QED
      BY <1>3, <2>2, <3>1, <3>2
  <2> QED
    BY <1>4, <2>1, <2>2
<1>6. \A x \in Slot : fr'[x] = IF x = y THEN h ELSE fr[x]
  BY <1>2, <1>5 DEF Turns
<1>7. UNCHANGED <<post, job>>
  BY DEF DeleteFromResource
<1>8. Made(q, k)' <=> Made(q, k)
  BY <1>7 DEF Made
<1>9. Undeleted(q, k)' <=> Undeleted(q, k) /\ ~ (q = t /\ k = i)
  <2>1. CASE q # t
    <3>1. ~ IsEarly(h, q, k) /\ ~ IsEarly(fr[y], q, k)
      BY <1>2, <1>5, <2>1 DEF IsEarly
    <3> QED
      BY <1>6, <1>7, <2>1, <3>1, TurnUndeleted
  <2>2. CASE q = t
    <3>1. Carries(y, t)
      BY <1>2, <1>3 DEF Carries
    <3>2. post[t] = 0
      BY <1>1, <3>1 DEF CarriedOnce
    <3>3. \A x \in Slot : x # y => ~ IsEarly(fr[x], t, k)
      <4>1. \A x \in Slot : IsEarly(fr[x], t, k) => Carries(x, t)
        BY DEF IsEarly, Carries
      <4> QED
        BY <1>1, <3>1, <4>1 DEF CarriedOnce
    <3>4. IsEarly(fr[y], t, k) <=> k <= i
      BY <1>2, <1>3 DEF IsEarly
    <3>5. IsEarly(h, t, k) <=> k <= i - 1
      BY <1>4, <1>5 DEF IsEarly
    <3>6. Undeleted(t, k) <=> k <= i
      BY <3>2, <3>3, <3>4 DEF Undeleted
    <3>7. Undeleted(t, k)' <=> (post'[t] = 0 => \E x \in Slot : IsEarly(fr'[x], t, k))
      BY DEF Undeleted, IsEarly
    <3>8. Undeleted(t, k)' <=> k <= i - 1
      BY <1>6, <1>7, <3>2, <3>3, <3>5, <3>7
    <3>9. k <= i - 1 <=> k <= i /\ k # i
      BY <1>4
    <3> QED
      BY <2>2, <3>6, <3>8, <3>9
  <2> QED
    BY <2>1, <2>2
<1> QED
  BY <1>8, <1>9, ListedIs, ListedNext

\* An argument of a task has one entry.
LEMMA EntryUnique ==
  ASSUME IInv, NEW r \in Resource, NEW m \in DOMAIN users[r], NEW n \in DOMAIN users[r],
         users[r][m] = users[r][n]
  PROVE  m = n
<1>1. /\ m \in Nat /\ n \in Nat /\ users[r][m][1] \in Task /\ Types
  BY EntryIs DEF IInv
<1>2. ~ (m < n) /\ ~ (n < m)
  <2>1. PICK e : e = users[r][m] /\ e[1] \in Task
    BY <1>1
  <2>2. ~ Precedes(e, e)
    BY <2>1, Constants DEF Precedes
  <2>3. m < n => Precedes(e, e)
    BY <2>1 DEF IInv, UsersOrdered
  <2>4. n < m => Precedes(e, e)
    BY <2>1 DEF IInv, UsersOrdered
  <2> QED
    BY <2>2, <2>3, <2>4
<1> QED
  BY <1>1, <1>2

\* An entry that was made stays listed in all other steps.
LEMMA ListedStays ==
  ASSUME IInv, NEW th \in Thread, Step(th), ~ DeleteFromResource(th),
         NEW q \in Task, life[q] # "unborn", NEW k \in 1..Len(access[q])
  PROVE  /\ life'[q] # "unborn" /\ k \in 1..Len(access'[q]) /\ access'[q] = access[q]
         /\ Listed(q, k) => Listed(q, k)'
         /\ ~ Register(th) => (Listed(q, k)' <=> Listed(q, k))
         /\ Register(th) => (Listed(q, k)' <=> Undeleted(q, k) /\ (Made(q, k) \/ (q = job[th].new /\ k = job[th].k)))
<1>1. life'[q] # "unborn" /\ access'[q] = access[q]
  BY FollowersStep
<1>2. k \in Nat /\ k > 0
  BY AccessIs DEF IInv
<1>3. Undeleted(q, k)' <=> Undeleted(q, k)
  BY UndeletedStep
<1>4. PICK t0, k0 : t0 = job[th].new /\ k0 = job[th].k
  OBVIOUS
<1>5. /\ Register(th) => (Made(q, k)' <=> Made(q, k) \/ (q = t0 /\ k = k0))
      /\ ~ Register(th) => (Made(q, k)' <=> Made(q, k))
  BY <1>2, <1>4, MadeStep
<1> QED
  BY <1>1, <1>3, <1>4, <1>5, ListedIs, ListedNext

\* What submit adds to a users list.
LEMMA RegisterEntries ==
  ASSUME IInv, NEW th \in Thread, Register(th)
  PROVE  \E t \in Task, k \in Nat, r \in Resource :
           /\ t = job[th].new /\ k = job[th].k /\ r = ResourceOf(t, k) /\ InPlace("register", th, t)
           /\ k \in 1..Len(access[t]) /\ life[t] # "unborn" /\ Undeleted(t, k) /\ ~ Made(t, k)
           /\ \A s \in Resource : s # r => users'[s] = users[s]
           /\ DOMAIN users'[r] = 1..(Len(users[r]) + 1)
           /\ users'[r][Len(users[r]) + 1] = <<t, k>>
           /\ \A n \in 1..Len(users[r]) : users'[r][n] = users[r][n]
<1>1. Types
  BY DEF IInv
<1>2. PICK t \in Task : t = job[th].new
  BY RegisterIs
<1>3. PICK k \in 1..Len(access[t]) : k = job[th].k
  BY <1>2, RegisterIs
<1>4. PICK r \in Resource : r = ResourceOf(t, k)
  BY <1>2, <1>3, RegisterIs
<1>5. /\ job[th].pc = "register" /\ life[t] # "unborn"
      /\ users' = [users EXCEPT ![r] = Append(users[r], <<t, k>>)]
  BY Zenon, <1>2, <1>3, <1>4, RegisterIs
<1>6. k \in Nat /\ <<t, k>> \in Task \X Nat /\ users[r] \in Seq(Task \X Nat)
  <2>1. k \in Nat
    BY <1>1, AccessIs
  <2> QED
    BY <1>1, <2>1 DEF Types
<1>7. /\ users'[r] = Append(users[r], <<t, k>>)
      /\ \A s \in Resource : s # r => users'[s] = users[s]
  BY <1>1, <1>5 DEF Types
<1>8. /\ Len(users'[r]) = Len(users[r]) + 1 /\ DOMAIN users'[r] = 1..(Len(users[r]) + 1)
      /\ \A n \in 1..Len(users[r]) : users'[r][n] = users[r][n]
      /\ users'[r][Len(users[r]) + 1] = <<t, k>>
  BY <1>6, <1>7, AppendProperties
<1>9. InPlace("register", th, t)
  BY <1>2, <1>5 DEF InPlace
<1>10. Undeleted(t, k)
  <2>1. t \notin started
    BY <1>9, PlaceNames DEF IInv, StatusMatches
  <2>2. post[t] # 0
    BY <2>1, PostPositive DEF IInv
  <2> QED
    BY <2>2 DEF Undeleted
<1>11. ~ Made(t, k)
  BY <1>2, <1>3, <1>5, <1>6 DEF Made
<1>12. k \in Nat
  BY <1>6
<1>13. /\ t = job[th].new /\ k = job[th].k /\ r = ResourceOf(t, k) /\ InPlace("register", th, t)
       /\ k \in 1..Len(access[t]) /\ life[t] # "unborn" /\ Undeleted(t, k) /\ ~ Made(t, k)
       /\ \A s \in Resource : s # r => users'[s] = users[s]
       /\ DOMAIN users'[r] = 1..(Len(users[r]) + 1)
       /\ users'[r][Len(users[r]) + 1] = <<t, k>>
       /\ \A n \in 1..Len(users[r]) : users'[r][n] = users[r][n]
  BY Zenon, <1>2, <1>3, <1>4, <1>5, <1>7, <1>8, <1>9, <1>10, <1>11
<1> QED
  BY Zenon, <1>12, <1>13

\* What delete_from_resources takes from one: all later entries move up.
LEMMA DeleteEntries ==
  ASSUME IInv, NEW th \in Thread, DeleteFromResource(th)
  PROVE  \E t \in Task, i \in Nat, r \in Resource, p \in Nat :
           /\ t = top[th].task /\ i = top[th].i /\ r = ResourceOf(t, i)
           /\ p \in DOMAIN users[r] /\ users[r][p] = <<t, i>>
           /\ \A s \in Resource : s # r => users'[s] = users[s]
           /\ DOMAIN users'[r] = 1..(Len(users[r]) - 1)
           /\ \A n \in 1..(Len(users[r]) - 1) :
                users'[r][n] = IF n < p THEN users[r][n] ELSE users[r][n + 1]
<1>1. Types
  BY DEF IInv
<1>2. PICK t \in Task : t = top[th].task
  BY DeleteIs
<1>3. PICK i \in 1..Len(access[t]) : i = top[th].i
  BY <1>2, DeleteIs
<1>4. PICK r \in Resource : r = ResourceOf(t, i)
  BY <1>2, <1>3, DeleteIs
<1>5. PICK p \in DOMAIN users[r] : /\ users[r][p] = <<t, i>>
                                   /\ users' = [users EXCEPT ![r] = Seqs!RemoveAt(users[r], p)]
  BY Zenon, <1>2, <1>3, <1>4, DeleteIs
<1>6. i \in Nat /\ p \in Nat /\ p \in 1..Len(users[r]) /\ users[r] \in Seq(Task \X Nat)
  <2>1. i \in Nat
    BY <1>1, AccessIs
  <2>2. p \in Nat /\ p \in 1..Len(users[r])
    BY <1>1, EntryIs
  <2> QED
    BY <1>1, <2>1, <2>2 DEF Types
<1>7. /\ users'[r] = Seqs!RemoveAt(users[r], p)
      /\ \A s \in Resource : s # r => users'[s] = users[s]
  BY <1>1, <1>5 DEF Types
<1>8. /\ users'[r] \in Seq(Task \X Nat) /\ Len(users'[r]) = Len(users[r]) - 1
      /\ \A n \in 1..(Len(users[r]) - 1) :
                users'[r][n] = IF n < p THEN users[r][n] ELSE users[r][n + 1]
  BY ZenonT(60), <1>6, <1>7, RemoveAtIs
<1>9. DOMAIN users'[r] = 1..(Len(users[r]) - 1)
  BY <1>8
<1>10. i \in Nat /\ p \in Nat
  BY <1>6
<1>11. /\ t = top[th].task /\ i = top[th].i /\ r = ResourceOf(t, i)
       /\ p \in DOMAIN users[r] /\ users[r][p] = <<t, i>>
       /\ \A s \in Resource : s # r => users'[s] = users[s]
       /\ DOMAIN users'[r] = 1..(Len(users[r]) - 1)
       /\ \A n \in 1..(Len(users[r]) - 1) :
            users'[r][n] = IF n < p THEN users[r][n] ELSE users[r][n + 1]
  BY Zenon, <1>2, <1>3, <1>4, <1>5, <1>7, <1>8, <1>9
<1> QED
  BY ZenonT(60), <1>10, <1>11

\* This entry of resource r is right.
EntryMatches(r, q, k) ==
  k \in 1..Len(access[q]) /\ ResourceOf(q, k) = r /\ life[q] # "unborn" /\ Listed(q, k)

\* EntriesMatch for the next state, with the entry given.
LEMMA EntriesMatchNext ==
  ASSUME \A r \in Resource : \A n \in DOMAIN users'[r] : \A q, k :
           q = users'[r][n][1] /\ k = users'[r][n][2] => EntryMatches(r, q, k)'
  PROVE  EntriesMatch'
<1>1. SUFFICES ASSUME NEW r \in Resource, NEW n \in DOMAIN users'[r]
               PROVE  (LET q == users[r][n][1]
                           k == users[r][n][2]
                       IN  /\ k \in 1..Len(access[q]) /\ ResourceOf(q, k) = r /\ life[q] # "unborn"
                           /\ Listed(q, k))'
  BY DEF EntriesMatch
<1>2. PICK q, k : q = users'[r][n][1] /\ k = users'[r][n][2]
  OBVIOUS
<1>3. EntryMatches(r, q, k)'
  BY <1>2
<1>4. k \in 1..Len(access'[q]) /\ ResourceOf(q, k)' = r /\ life'[q] # "unborn" /\ Listed(q, k)'
  BY <1>3 DEF EntryMatches
<1>5. Listed(q, k)' <=> Listed(users[r][n][1], users[r][n][2])'
  BY <1>2 DEF Listed, Carries, InPlace
<1>6. ResourceOf(q, k)' = ResourceOf(users[r][n][1], users[r][n][2])'
  BY <1>2 DEF ResourceOf
<1> QED
  BY Zenon, <1>2, <1>4, <1>5, <1>6

\* An entry that no step takes away stays right.
LEMMA EntryStays ==
  ASSUME IInv, NEW th \in Thread, Step(th), NEW r \in Resource, NEW n \in DOMAIN users[r],
         NEW q, q = users[r][n][1], NEW k, k = users[r][n][2],
         DeleteFromResource(th) => ~ (q = top[th].task /\ k = top[th].i)
  PROVE  EntryMatches(r, q, k)'
<1>1. /\ q \in Task /\ k \in Nat /\ k > 0 /\ k \in 1..Len(access[q]) /\ ResourceOf(q, k) = r
      /\ life[q] # "unborn" /\ Listed(q, k)
  <2>1. q \in Task /\ k \in Nat
    BY EntryIs DEF IInv
  <2>2. k \in 1..Len(access[q]) /\ ResourceOf(q, k) = r /\ life[q] # "unborn" /\ Listed(q, k)
    BY DEF IInv, EntriesMatch
  <2>3. Len(access[q]) \in Nat
    BY <2>1, AccessIs DEF IInv
  <2> QED
    BY <2>1, <2>2, <2>3
<1>2. life'[q] # "unborn" /\ access'[q] = access[q]
  BY <1>1, FollowersStep
<1>3. Listed(q, k)'
  <2>1. CASE DeleteFromResource(th)
    <3>1. PICK t \in Task : t = top[th].task
      BY <2>1, DeleteIs
    <3>2. PICK i : i = top[th].i
      OBVIOUS
    <3> QED
      BY <1>1, <2>1, <3>1, <3>2, DeleteListed
  <2>2. CASE ~ DeleteFromResource(th)
    BY <1>1, <2>2, ListedStays
  <2> QED
    BY <2>1, <2>2
<1> QED
  BY <1>1, <1>2, <1>3 DEF EntryMatches, ResourceOf

\* Every entry of a users list is of a task that has not deleted it.
LEMMA EntriesMatchStep ==
  ASSUME IInv, NEW th \in Thread, Step(th)
  PROVE  EntriesMatch'
<1>1. SUFFICES ASSUME NEW r \in Resource, NEW n \in DOMAIN users'[r], NEW q, NEW k,
                      q = users'[r][n][1], k = users'[r][n][2]
               PROVE  EntryMatches(r, q, k)'
  BY EntriesMatchNext
<1>2. Types
  BY DEF IInv
<1>3. Len(users[r]) \in Nat /\ DOMAIN users[r] = 1..Len(users[r])
  BY <1>2, EntryIs
<1>4. CASE Register(th)
  <2>1. PICK t \in Task, k0 \in Nat, r0 \in Resource :
           /\ t = job[th].new /\ k0 = job[th].k /\ r0 = ResourceOf(t, k0) /\ InPlace("register", th, t)
           /\ k0 \in 1..Len(access[t]) /\ life[t] # "unborn" /\ Undeleted(t, k0) /\ ~ Made(t, k0)
           /\ \A s \in Resource : s # r0 => users'[s] = users[s]
           /\ DOMAIN users'[r0] = 1..(Len(users[r0]) + 1)
           /\ users'[r0][Len(users[r0]) + 1] = <<t, k0>>
           /\ \A m \in 1..Len(users[r0]) : users'[r0][m] = users[r0][m]
    BY <1>4, RegisterEntries
  <2>2. ~ DeleteFromResource(th)
    BY <1>4 DEF Register, DeleteFromResource, At, InFrame
  <2>3. CASE r = r0 /\ n = Len(users[r]) + 1
    <3>1. q = t /\ k = k0
      <4>1. users'[r][n] = <<t, k0>>
        BY Zenon, <2>1, <2>3
      <4> QED
        BY <1>1, <4>1
    <3>2. life'[t] # "unborn" /\ k0 \in 1..Len(access'[t]) /\ access'[t] = access[t] /\ Listed(t, k0)'
      BY Zenon, <1>4, <2>1, <2>2, ListedStays
    <3> QED
      BY Zenon, <2>1, <2>3, <3>1, <3>2 DEF EntryMatches, ResourceOf
  <2>4. CASE ~ (r = r0 /\ n = Len(users[r]) + 1)
    <3>1. n \in DOMAIN users[r] /\ users'[r][n] = users[r][n]
      <4>1. CASE r # r0
        <5>1. users'[r] = users[r]
          BY Zenon, <2>1, <4>1
        <5> QED
          BY Zenon, <1>1, <5>1
      <4>2. CASE r = r0
        <5>1. n \in 1..(Len(users[r]) + 1)
          BY Zenon, <1>1, <2>1, <4>2
        <5>2. n \in 1..Len(users[r])
          BY <1>3, <2>4, <4>2, <5>1
        <5> QED
          BY Zenon, <1>3, <2>1, <4>2, <5>2
      <4> QED
        BY Zenon, <4>1, <4>2
    <3> QED
      BY <1>1, <2>2, <3>1, EntryStays
  <2> QED
    BY <2>3, <2>4
<1>5. CASE DeleteFromResource(th)
  <2>1. PICK t \in Task, i \in Nat, r0 \in Resource, p \in Nat :
           /\ t = top[th].task /\ i = top[th].i /\ r0 = ResourceOf(t, i)
           /\ p \in DOMAIN users[r0] /\ users[r0][p] = <<t, i>>
           /\ \A s \in Resource : s # r0 => users'[s] = users[s]
           /\ DOMAIN users'[r0] = 1..(Len(users[r0]) - 1)
           /\ \A m \in 1..(Len(users[r0]) - 1) :
                users'[r0][m] = IF m < p THEN users[r0][m] ELSE users[r0][m + 1]
    BY <1>5, DeleteEntries
  <2>2. PICK m \in DOMAIN users[r] : users'[r][n] = users[r][m] /\ (r = r0 => m # p)
    <3>1. CASE r # r0
      BY <1>1, <2>1, <3>1
    <3>2. CASE r = r0 /\ n < p
      <4>0. n \in 1..(Len(users[r]) - 1)
        BY <1>1, <2>1, <3>2
      <4>1. n \in DOMAIN users[r] /\ n # p
        BY <1>3, <2>1, <3>2, <4>0
      <4>2. users'[r][n] = users[r][n]
        BY <2>1, <3>2, <4>0
      <4> QED
        BY <3>2, <4>1, <4>2
    <3>3. CASE r = r0 /\ ~ (n < p)
      <4>0. n \in 1..(Len(users[r]) - 1)
        BY <1>1, <2>1, <3>3
      <4>1. n + 1 \in DOMAIN users[r] /\ n + 1 # p
        BY <1>3, <2>1, <3>3, <4>0
      <4>2. users'[r][n] = users[r][n + 1]
        BY <2>1, <3>3, <4>0
      <4> QED
        BY <3>3, <4>1, <4>2
    <3> QED
      BY <3>1, <3>2, <3>3
  <2>3. ~ (q = t /\ k = i)
    <3>1. SUFFICES ASSUME q = t, k = i PROVE FALSE
      OBVIOUS
    <3>2. ResourceOf(q, k) = r
      BY <1>1, <2>2 DEF IInv, EntriesMatch
    <3>3. r = r0
      BY <2>1, <3>1, <3>2
    <3>4. users[r][m] = <<q, k>>
      <4>1. users[r][m] = <<users[r][m][1], users[r][m][2]>>
        BY <1>1, EntryIs DEF IInv
      <4> QED
        BY <1>1, <2>2, <4>1
    <3>5. m = p
      <4>1. p \in DOMAIN users[r] /\ users[r][p] = <<q, k>>
        BY Zenon, <2>1, <3>1, <3>3
      <4>2. users[r][m] = users[r][p]
        BY <3>4, <4>1
      <4> QED
        BY Zenon, <1>1, <2>2, <4>1, <4>2, EntryUnique
    <3> QED
      BY <2>2, <3>3, <3>5
  <2> QED
    BY <1>1, <2>1, <2>2, <2>3, EntryStays
<1>6. CASE ~ Register(th) /\ ~ DeleteFromResource(th)
  <2>1. users' = users
    BY <1>6, StepSpares DEF Spares
  <2> QED
    BY <1>1, <1>6, <2>1, EntryStays
<1> QED
  BY <1>4, <1>5, <1>6

\* The entry of t for its k-th resource r is in the list.
HasEntry(r, t, k) == \E n \in DOMAIN users[r] : users[r][n] = <<t, k>>

\* Every entry that a task has made and not deleted is in the list.
LEMMA EnteredStep ==
  ASSUME IInv, NEW th \in Thread, Step(th)
  PROVE  Entered'
<1>1. SUFFICES ASSUME NEW t \in Task, NEW k \in 1..Len(access'[t]), life'[t] # "unborn", Listed(t, k)',
                      NEW r, r = ResourceOf(t, k)'
               PROVE  HasEntry(r, t, k)'
  <2>1. SUFFICES ASSUME NEW t \in Task, NEW k \in 1..Len(access'[t]), life'[t] # "unborn", Listed(t, k)'
                 PROVE  \E n \in DOMAIN users'[ResourceOf(t, k)'] : users'[ResourceOf(t, k)'][n] = <<t, k>>
    BY DEF Entered, ResourceOf
  <2>2. PICK r : r = ResourceOf(t, k)'
    OBVIOUS
  <2>3. HasEntry(r, t, k)'
    BY <1>1, <2>1, <2>2
  <2> QED
    BY <2>2, <2>3 DEF HasEntry
<1>2. Types /\ Types'
  BY TypesStep DEF IInv
<1>3. Len(access'[t]) \in Nat /\ k \in Nat /\ k > 0
  <2>1. access'[t] \in AccessSeq
    BY <1>2 DEF Types
  <2>2. access'[t] \in Seq(Range(access'[t]))
    BY <2>1, GraphAssumption
  <2>3. Len(access'[t]) \in Nat
    BY <2>2
  <2> QED
    BY <2>3
<1>4. life[t] # "unborn"
  <2>1. CASE Creates(th)
    <3>1. PICK u \in Task, a \in AccessSeq : CreateTask(th, u, a)
      BY <2>1 DEF Creates
    <3>2. /\ life' = [life EXCEPT ![u] = "alive"] /\ access' = [access EXCEPT ![u] = a]
          /\ \A c \in Task : life[c] = "unborn" <=> c >= u
          /\ job'[th].pc = "register" /\ job'[th].new = u /\ job'[th].k = Len(a)
      BY <3>1, CreateTaskIs DEF Sets
    <3>3. CASE t = u
      <4>1. access'[t] = a
        BY <1>2, <3>2, <3>3 DEF Types
      <4>2. job'[th].k < k
        BY <1>1, <3>2, <3>3, ListedNext DEF Made
      <4> QED
        BY <1>3, <3>2, <4>1, <4>2
    <3>4. CASE t # u
      BY <1>1, <1>2, <3>2, <3>4 DEF Types
    <3> QED
      BY <3>3, <3>4
  <2>2. CASE FreeTask(th)
    <3>1. PICK u \in Task : u = top[th].task
      BY <2>2, FreeTaskIs
    <3>2. top[th].pc = "free" /\ life' = [life EXCEPT ![u] = "freed"]
      BY <2>2, <3>1, FreeTaskIs
    <3>3. life[u] # "unborn"
      <4>1. TopSlot(th) \in Slot /\ fr[TopSlot(th)] = top[th]
        BY <1>2, TopFrame DEF Types
      <4> QED
        BY <3>1, <3>2, <4>1 DEF IInv, FramesMatch, FrameMatches
    <3> QED
      BY <1>1, <1>2, <3>2, <3>3 DEF Types
  <2>3. CASE life' = life
    BY <1>1, <2>3
  <2> QED
    BY <2>1, <2>2, <2>3, StepSpares DEF Spares
<1>5. access'[t] = access[t] /\ r = ResourceOf(t, k) /\ k \in 1..Len(access[t]) /\ r \in Resource
  <2>1. access'[t] = access[t]
    BY <1>4, FollowersStep
  <2>2. r = ResourceOf(t, k) /\ k \in 1..Len(access[t])
    BY <1>1, <2>1 DEF ResourceOf
  <2> QED
    BY <1>2, <2>1, <2>2, AccessIs
<1>6. Listed(t, k) => HasEntry(r, t, k)
  BY <1>4, <1>5 DEF IInv, Entered, HasEntry
<1>7. Len(users[r]) \in Nat /\ DOMAIN users[r] = 1..Len(users[r])
  BY <1>2, <1>5, EntryIs
<1>8. CASE Register(th)
  <2>1. PICK t0 \in Task, k0 \in Nat, r0 \in Resource :
           /\ t0 = job[th].new /\ k0 = job[th].k /\ r0 = ResourceOf(t0, k0) /\ InPlace("register", th, t0)
           /\ k0 \in 1..Len(access[t0]) /\ life[t0] # "unborn" /\ Undeleted(t0, k0) /\ ~ Made(t0, k0)
           /\ \A s \in Resource : s # r0 => users'[s] = users[s]
           /\ DOMAIN users'[r0] = 1..(Len(users[r0]) + 1)
           /\ users'[r0][Len(users[r0]) + 1] = <<t0, k0>>
           /\ \A m \in 1..Len(users[r0]) : users'[r0][m] = users[r0][m]
    BY <1>8, RegisterEntries
  <2>2. ~ DeleteFromResource(th)
    BY <1>8 DEF Register, DeleteFromResource, At, InFrame
  <2>3. CASE t = t0 /\ k = k0
    <3>1. r = r0
      BY Zenon, <1>5, <2>1, <2>3
    <3>2. Len(users[r]) + 1 \in DOMAIN users'[r] /\ users'[r][Len(users[r]) + 1] = <<t, k>>
      <4>1. Len(users[r]) \in Nat
        BY <1>7
      <4>2. Len(users[r]) + 1 \in 1..(Len(users[r]) + 1)
        BY <4>1
      <4> QED
        BY Zenon, <2>1, <2>3, <3>1, <4>2
    <3> QED
      BY <3>2 DEF HasEntry
  <2>4. CASE ~ (t = t0 /\ k = k0)
    <3>1. Listed(t, k)
      BY Zenon, <1>1, <1>4, <1>5, <1>8, <2>1, <2>2, <2>4, ListedStays, ListedIs
    <3>2. PICK n \in DOMAIN users[r] : users[r][n] = <<t, k>>
      BY <1>6, <3>1 DEF HasEntry
    <3>3. n \in DOMAIN users'[r] /\ users'[r][n] = users[r][n]
      BY SMTT(60), <1>5, <1>7, <2>1, <3>2
    <3> QED
      BY <3>2, <3>3 DEF HasEntry
  <2> QED
    BY <2>3, <2>4
<1>9. CASE DeleteFromResource(th)
  <2>1. PICK u \in Task, i \in Nat, r0 \in Resource, p \in Nat :
           /\ u = top[th].task /\ i = top[th].i /\ r0 = ResourceOf(u, i)
           /\ p \in DOMAIN users[r0] /\ users[r0][p] = <<u, i>>
           /\ \A s \in Resource : s # r0 => users'[s] = users[s]
           /\ DOMAIN users'[r0] = 1..(Len(users[r0]) - 1)
           /\ \A m \in 1..(Len(users[r0]) - 1) :
                users'[r0][m] = IF m < p THEN users[r0][m] ELSE users[r0][m + 1]
    BY <1>9, DeleteEntries
  <2>2. Listed(t, k) /\ ~ (t = u /\ k = i)
    BY <1>1, <1>3, <1>9, <2>1, DeleteListed
  <2>3. PICK n \in DOMAIN users[r] : users[r][n] = <<t, k>>
    BY <1>6, <2>2 DEF HasEntry
  <2>4. CASE r # r0
    BY <1>5, <2>1, <2>3, <2>4 DEF HasEntry
  <2>5. CASE r = r0 /\ n < p
    <3>1. n \in 1..(Len(users[r]) - 1)
      <4>1. n \in DOMAIN users[r] /\ p \in DOMAIN users[r] /\ p \in Nat
        BY Zenon, <2>1, <2>3, <2>5
      <4> QED
        BY <1>7, <2>5, <4>1
    <3>2. n \in DOMAIN users'[r] /\ users'[r][n] = users[r][n]
      BY Zenon, <2>1, <2>5, <3>1
    <3> QED
      BY <2>3, <3>2 DEF HasEntry
  <2>6. CASE r = r0 /\ ~ (n < p)
    <3>1. n # p
      BY <2>1, <2>2, <2>3, <2>6
    <3>2. n - 1 \in DOMAIN users'[r] /\ ~ (n - 1 < p) /\ n - 1 + 1 = n
      BY SMTT(60), <1>7, <2>1, <2>3, <2>6, <3>1
    <3>3. users'[r][n - 1] = users[r][n]
      BY ZenonT(60), <2>1, <2>6, <3>2
    <3> QED
      BY <2>3, <3>2, <3>3 DEF HasEntry
  <2> QED
    BY <2>4, <2>5, <2>6
<1>10. CASE ~ Register(th) /\ ~ DeleteFromResource(th)
  <2>1. users' = users
    BY <1>10, StepSpares DEF Spares
  <2>2. Listed(t, k)
    BY <1>1, <1>4, <1>5, <1>10, ListedStays
  <2> QED
    BY <1>6, <2>1, <2>2 DEF HasEntry
<1> QED
  BY <1>8, <1>9, <1>10

\* The list of one resource is in order.
InOrder(r) ==
  \A m, n \in DOMAIN users[r] :
    m < n /\ parent[users[r][m][1]] = parent[users[r][n][1]] => Precedes(users[r][m], users[r][n])

\* The task that a thread registers is the newest one of its space.
IsNewest(th) ==
  \A t, u \in Task :
    InPlace("register", th, t) /\ life[u] # "unborn" /\ parent[u] = parent[t] => u <= t

\* Every users list stays in the order of creation.
LEMMA InOrderStep ==
  ASSUME IInv, NEW th \in Thread, Step(th), NEW r \in Resource
  PROVE  InOrder(r)'
<1>1. Types
  BY DEF IInv
<1>2. Len(users[r]) \in Nat /\ DOMAIN users[r] = 1..Len(users[r])
  BY <1>1, EntryIs
<1>3. ASSUME NEW m \in DOMAIN users[r]
      PROVE  /\ m \in Nat /\ users[r][m][1] \in Task /\ life[users[r][m][1]] # "unborn"
             /\ parent'[users[r][m][1]] = parent[users[r][m][1]]
  <2>1. m \in Nat /\ users[r][m][1] \in Task
    BY <1>1, EntryIs
  <2>2. life[users[r][m][1]] # "unborn"
    BY DEF IInv, EntriesMatch
  <2>3. PICK q \in Task : q = users[r][m][1]
    BY <2>1
  <2>4. parent'[q] = parent[q]
    BY <2>2, <2>3, FollowersStep
  <2> QED
    BY <2>1, <2>2, <2>3, <2>4
<1>4. InOrder(r)
  BY DEF IInv, UsersOrdered, InOrder
<1>5. SUFFICES ASSUME NEW m \in DOMAIN users'[r], NEW n \in DOMAIN users'[r], m < n,
                      NEW e, NEW f, e = users'[r][m], f = users'[r][n], parent'[e[1]] = parent'[f[1]]
               PROVE  Precedes(e, f)
  BY DEF InOrder
<1>6. ASSUME NEW m1 \in DOMAIN users[r], NEW n1 \in DOMAIN users[r], m1 < n1,
             e = users[r][m1], f = users[r][n1]
      PROVE  Precedes(e, f)
  <2>1. parent[e[1]] = parent[f[1]]
    BY <1>3, <1>5, <1>6
  <2> QED
    BY <1>4, <1>6, <2>1 DEF InOrder
<1>7. CASE Register(th)
  <2>1. PICK t \in Task, k0 \in Nat, r0 \in Resource :
           /\ t = job[th].new /\ k0 = job[th].k /\ r0 = ResourceOf(t, k0) /\ InPlace("register", th, t)
           /\ k0 \in 1..Len(access[t]) /\ life[t] # "unborn" /\ Undeleted(t, k0) /\ ~ Made(t, k0)
           /\ \A s \in Resource : s # r0 => users'[s] = users[s]
           /\ DOMAIN users'[r0] = 1..(Len(users[r0]) + 1)
           /\ users'[r0][Len(users[r0]) + 1] = <<t, k0>>
           /\ \A c \in 1..Len(users[r0]) : users'[r0][c] = users[r0][c]
    BY <1>7, RegisterEntries
  <2>2. CASE r # r0
    <3>1. users'[r] = users[r]
      BY Zenon, <2>1, <2>2
    <3> QED
      BY <1>5, <1>6, <3>1
  <2>3. CASE r = r0
    <3>1. m \in 1..Len(users[r]) /\ n \in 1..(Len(users[r]) + 1)
      <4>1. m \in 1..(Len(users[r]) + 1) /\ n \in 1..(Len(users[r]) + 1)
        BY Zenon, <2>1, <2>3
      <4> QED
        BY <1>2, <1>5, <4>1
    <3>2. m \in DOMAIN users[r] /\ e = users[r][m]
      BY Zenon, <1>2, <1>5, <2>1, <2>3, <3>1
    <3>3. CASE n \in 1..Len(users[r])
      <4>1. n \in DOMAIN users[r] /\ f = users[r][n]
        BY Zenon, <1>2, <1>5, <2>1, <2>3, <3>3
      <4> QED
        BY <1>5, <1>6, <3>2, <4>1
    <3>4. CASE n = Len(users[r]) + 1
      <4>1. f = <<t, k0>>
        BY Zenon, <1>5, <2>1, <2>3, <3>4
      <4>2. parent'[t] = parent[t]
        BY Zenon, <2>1, FollowersStep
      <4>3. PICK q \in Task : q = e[1] /\ life[q] # "unborn" /\ parent[q] = parent[t]
        <5>1. e[1] \in Task /\ life[e[1]] # "unborn" /\ parent'[e[1]] = parent[e[1]]
          BY <1>3, <3>2
        <5>2. f[1] = t
          BY <4>1
        <5> QED
          BY <1>5, <4>2, <5>1, <5>2
      <4>4. q <= t
        BY Zenon, <2>1, <4>3 DEF IInv, UsersOrdered
      <4>5. q = t => e[2] # k0
        <5>1. SUFFICES ASSUME q = t, e[2] = k0 PROVE FALSE
          OBVIOUS
        <5>2. Listed(q, e[2])
          BY <3>2, <4>3 DEF IInv, EntriesMatch
        <5> QED
          BY Zenon, <2>1, <5>1, <5>2, ListedIs
      <4>6. f[1] = t /\ f[2] = k0
        BY <4>1
      <4> QED
        BY <4>3, <4>4, <4>5, <4>6, Constants DEF Precedes
    <3> QED
      BY <1>2, <3>1, <3>3, <3>4
  <2> QED
    BY <2>2, <2>3
<1>8. CASE DeleteFromResource(th)
  <2>1. PICK t \in Task, i \in Nat, r0 \in Resource, p \in Nat :
           /\ t = top[th].task /\ i = top[th].i /\ r0 = ResourceOf(t, i)
           /\ p \in DOMAIN users[r0] /\ users[r0][p] = <<t, i>>
           /\ \A s \in Resource : s # r0 => users'[s] = users[s]
           /\ DOMAIN users'[r0] = 1..(Len(users[r0]) - 1)
           /\ \A c \in 1..(Len(users[r0]) - 1) :
                users'[r0][c] = IF c < p THEN users[r0][c] ELSE users[r0][c + 1]
    BY <1>8, DeleteEntries
  <2>2. CASE r # r0
    <3>1. users'[r] = users[r]
      BY <2>1, <2>2
    <3> QED
      BY <1>5, <1>6, <3>1
  <2>3. CASE r = r0
    <3> DEFINE F(c) == IF c < p THEN c ELSE c + 1
    <3>1. m \in 1..(Len(users[r]) - 1) /\ n \in 1..(Len(users[r]) - 1)
      BY <2>1, <2>3
    <3>2. F(m) \in DOMAIN users[r] /\ F(n) \in DOMAIN users[r] /\ F(m) < F(n)
      BY SMTT(60), <1>2, <1>5, <2>1, <3>1
    <3>3. users'[r][m] = users[r][F(m)] /\ users'[r][n] = users[r][F(n)]
      BY <2>1, <2>3, <3>1
    <3> HIDE DEF F
    <3> QED
      BY <1>5, <1>6, <3>2, <3>3
  <2> QED
    BY <2>2, <2>3
<1>9. CASE ~ Register(th) /\ ~ DeleteFromResource(th)
  <2>1. users' = users
    BY <1>9, StepSpares DEF Spares
  <2> QED
    BY <1>5, <1>6, <2>1
<1> QED
  BY <1>7, <1>8, <1>9

\* Tasks come into existence by creation only.
LEMMA BornStep ==
  ASSUME IInv, NEW th \in Thread, Step(th), ~ Creates(th), NEW u \in Task, life'[u] # "unborn"
  PROVE  life[u] # "unborn"
<1>1. CASE FreeTask(th)
  <2>1. PICK t \in Task : t = top[th].task
    BY <1>1, FreeTaskIs
  <2>2. top[th].pc = "free" /\ life' = [life EXCEPT ![t] = "freed"]
    BY <1>1, <2>1, FreeTaskIs
  <2>3. life[t] # "unborn"
    <3>1. TopSlot(th) \in Slot /\ fr[TopSlot(th)] = top[th]
      BY TopFrame DEF IInv, Types
    <3> QED
      BY <2>1, <2>2, <3>1 DEF IInv, FramesMatch, FrameMatches
  <2> QED
    BY <2>2, <2>3 DEF IInv, Types
<1>2. CASE life' = life
  BY <1>2
<1> QED
  BY <1>1, <1>2, StepSpares DEF Spares

\* One thread at a time creates tasks in a space.
LEMMA IsNewestStep ==
  ASSUME IInv, NEW th \in Thread, Step(th), NEW v \in Thread
  PROVE  IsNewest(v)'
<1>1. Types /\ (\A c \in Thread : JobMatches(c)) /\ OnePlace /\ IsNewest(v)
  BY DEF IInv, ThreadsMatch, UsersOrdered, IsNewest
<1>2. SUFFICES ASSUME NEW t \in Task, NEW u \in Task, InPlace("register", v, t)', life'[u] # "unborn",
                      parent'[u] = parent'[t]
               PROVE  u <= t
  BY DEF IsNewest
<1>3. job'[v].pc = "register" /\ job'[v].new = t
  BY <1>2, NoPlace
<1>4. \A c \in Thread : c # th => job'[c] = job[c]
  BY OthersKeepJob
<1>5. CASE ~ Creates(th)
  <2>1. life[u] # "unborn" /\ parent[u] = parent[t]
    <3>1. parent' = parent
      BY <1>5, StepSpares DEF Spares
    <3> QED
      BY <1>2, <1>5, <3>1, BornStep
  <2>2. job[v].pc = "register" /\ job[v].new = t
    <3>1. CASE v # th
      BY <1>3, <1>4, <3>1
    <3>2. CASE v = th /\ Register(th)
      <4>1. job[th].pc = "register" /\ job'[th].new = job[th].new
        BY <3>2, RegisterIs DEF Sets
      <4> QED
        BY <1>3, <3>2, <4>1
    <3>3. CASE v = th /\ EmplaceTask(th)
      BY <1>3, <3>3, EmplaceTaskIs DEF Sets
    <3>4. CASE v = th /\ ~ Register(th) /\ ~ EmplaceTask(th)
      BY <1>3, <1>5, <3>4, RegisterSteps
    <3> QED
      BY <3>1, <3>2, <3>3, <3>4
  <2>3. InPlace("register", v, t)
    BY <2>2 DEF InPlace
  <2> QED
    BY <1>1, <2>1, <2>3 DEF IsNewest
<1>6. CASE Creates(th)
  <2>1. PICK c \in Task, a \in AccessSeq : CreateTask(th, c, a)
    BY <1>6 DEF Creates
  <2>2. PICK p : p = job[th].cur
    OBVIOUS
  <2>3. /\ InProgram(th) /\ \A x \in Task : life[x] = "unborn" <=> x >= c
        /\ life' = [life EXCEPT ![c] = "alive"] /\ parent' = [parent EXCEPT ![c] = p]
        /\ job'[th].new = c
    BY <2>1, <2>2, CreateTaskIs DEF Sets
  <2>4. /\ parent'[c] = p /\ \A x \in Task : x # c => parent'[x] = parent[x] /\ life'[x] = life[x]
    BY <1>1, <2>3 DEF Types
  <2>5. CASE v = th
    <3>1. t = c
      BY <1>3, <2>3, <2>5
    <3>2. u = c \/ ~ (u >= c)
      BY <1>2, <2>3, <2>4
    <3> QED
      BY <3>1, <3>2, Constants
  <2>6. CASE v # th
    <3>1. job[v].pc = "register" /\ job[v].new = t
      BY <1>3, <1>4, <2>6
    <3>2. life[t] # "unborn" /\ parent[t] = job[v].cur
      BY <1>1, <3>1 DEF JobMatches
    <3>3. t # c
      BY <2>3, <3>2, Constants
    <3>4. InPlace("register", v, t)
      BY <3>1 DEF InPlace
    <3>5. CASE u # c
      BY <1>1, <1>2, <2>4, <3>3, <3>4, <3>5 DEF IsNewest
    <3>6. CASE u = c
      <4>1. job[v].cur = p
        BY <1>2, <2>4, <3>2, <3>3, <3>6
      <4>2. CASE th = Main
        <5>1. p = Root /\ v # Main
          BY <2>2, <2>3, <2>6, <4>2, InProgramIs, Constants
        <5> QED
          BY <1>1, <3>1, <4>1, <5>1 DEF JobMatches
      <4>3. CASE th # Main
        <5>1. th \in Worker /\ p \in Task
          BY <2>2, <2>3, <4>3, InProgramIs
        <5>2. v \in Worker
          BY <1>1, <4>1, <5>1, Constants DEF JobMatches
        <5>3. InPlace("cur", th, p) /\ InPlace("cur", v, p)
          BY <2>2, <4>1, <5>1, <5>2 DEF InPlace
        <5> QED
          BY <1>1, <2>6, <5>1, <5>3, PlaceNames DEF OnePlace
      <4> QED
        BY <4>2, <4>3
    <3> QED
      BY <3>5, <3>6
  <2> QED
    BY <2>5, <2>6
<1> QED
  BY <1>5, <1>6

\* The order of entries and of what is about to be entered.
LEMMA UsersOrderedStep ==
  ASSUME IInv, NEW th \in Thread, Step(th)
  PROVE  UsersOrdered'
<1>1. \A r \in Resource : InOrder(r)'
  BY InOrderStep
<1>2. \A v \in Thread : IsNewest(v)'
  BY IsNewestStep
<1> QED
  BY <1>1, <1>2 DEF UsersOrdered, InOrder, IsNewest

-----------------------------------------------------------------------------
(***************************************************************************)
(* The invariant holds.                                                    *)
(***************************************************************************)

\* Before the first step there is nothing.
LEMMA InitIInv == Init => IInv
<1> SUFFICES ASSUME Init PROVE IInv
  OBVIOUS
<1>1. /\ Root \notin Task /\ Root = 0 /\ Main \in Thread /\ Main \notin Worker
      /\ NoThread \notin Thread /\ (\A w \in Worker : w \in Thread /\ w # Main)
  BY Constants
<1>2. Types
  <2>1. access \in [Task -> AccessSeq]
    <3>1. (CHOOSE a \in AccessSeq : TRUE) \in AccessSeq
      BY GraphAssumption
    <3> QED
      BY <3>1 DEF Init
  <2>2. job \in [Thread -> Job]
    BY <1>1 DEF Init, Job, Pcs, Root
  <2>3. stack \in [Thread -> Seq(Frame)]
    BY DEF Init
  <2>4. followers \in [Task -> Seq([task : Task, event : {"pre", "post"}])]
    BY DEF Init
  <2>5. users \in [Resource -> Seq(Task \X Nat)]
    BY DEF Init
  <2>6. parent \in [Task -> Task \union {Root}] /\ users_mutex \in [Resource -> Worker \union {NoThread}]
    BY DEF Init
  <2>7. /\ life \in [Task -> {"unborn", "alive", "freed"}]
        /\ future \in [Task -> {"none", "held", "gone"}]
        /\ emplaced \subseteq Task /\ started \subseteq Task
    BY DEF Init
  <2>8. /\ pre \in [Task -> Int] /\ post \in [Task -> Int]
        /\ result_set \in [Task -> Int] /\ result_get \in [Task -> Int]
        /\ removal_countdown \in [Task -> Int] /\ ready \in [Task -> Nat]
    BY DEF Init
  <2> QED
    BY <2>1, <2>2, <2>3, <2>4, <2>5, <2>6, <2>7, <2>8 DEF Types
<1>3. /\ \A th \in Thread : stack[th] = <<>> /\ Len(stack[th]) = 0
      /\ \A th \in Thread : /\ job[th].pc = IF th = Main THEN "top" ELSE "gather"
                            /\ job[th].cur = Root /\ job[th].new = Root
      /\ \A t \in Task : /\ life[t] = "unborn" /\ pre[t] = 1 /\ post[t] = 1 /\ result_set[t] = 1
                         /\ result_get[t] = 1 /\ followers[t] = <<>> /\ removal_countdown[t] = 2
                         /\ future[t] = "none" /\ ready[t] = 0
      /\ \A r \in Resource : users[r] = <<>>
      /\ emplaced = {} /\ started = {}
  <2>1. \A th \in Thread : stack[th] = <<>> /\ Len(stack[th]) = 0
    BY DEF Init
  <2>2. \A th \in Thread : /\ job[th].pc = IF th = Main THEN "top" ELSE "gather"
                           /\ job[th].cur = Root /\ job[th].new = Root
    BY DEF Init
  <2>3. \A t \in Task : /\ life[t] = "unborn" /\ pre[t] = 1 /\ post[t] = 1 /\ result_set[t] = 1
                        /\ result_get[t] = 1 /\ followers[t] = <<>> /\ removal_countdown[t] = 2
                        /\ future[t] = "none" /\ ready[t] = 0
    BY DEF Init
  <2> QED
    BY <2>1, <2>2, <2>3 DEF Init
<1>4. \A x \in Slot : fr[x] = NoFrame
  <2>1. SUFFICES ASSUME NEW x \in Slot PROVE fr[x] = NoFrame
    OBVIOUS
  <2>2. x[1] \in Thread /\ x[2] \in Nat
    BY <2>1 DEF Slot
  <2>3. x[2] \notin 1..Len(stack[x[1]])
    BY <1>3, <2>2
  <2> QED
    BY <2>1, <2>3 DEF fr
<1>5. NoFrame.task = Root /\ NoFrame.pc = "none"
  BY DEF NoFrame
<1>6. \A th \in Thread : top[th] = NoFrame
  BY <1>2, <1>3, TopFrame DEF Types
<1>7. \A x \in Slot : \A q : ~ Carries(x, q)
  BY <1>4, <1>5 DEF Carries
<1>8. \A q \in Task : DOMAIN followers[q] = {}
  BY <1>3
<1>9. \A e : Edges(e) = {}
  <2>1. \A y \in Task \X Nat : ~ Pending(y[1], y[2])
    BY <1>8 DEF Pending
  <2> QED
    BY <2>1 DEF Edges
<1>10. \A t : PostFrames(t) = {}
  <2>1. \A t : \A x \in Thread \X {1} : top[x[1]].pc # "post"
    BY <1>5, <1>6
  <2> QED
    BY <2>1 DEF PostFrames
<1>11. \A w \in Worker : job[w].cur = Root /\ job[w].pc = "gather"
  BY <1>1, <1>3
<1>12. \A th \in Thread : job[th].pc \in {"top", "gather"}
  BY <1>3
<1>13. \A t \in Task : \A k, h : ~ InPlace(k, h, t)
  <2>1. SUFFICES ASSUME NEW t \in Task, NEW k, NEW h, InPlace(k, h, t) PROVE FALSE
    OBVIOUS
  <2>2. ~ (h \in Thread /\ job[h].pc = "register")
    BY <1>12
  <2>3. ~ (t \in emplaced) /\ ~ (ready[t] > 0)
    BY <1>3
  <2>4. ~ (h \in Worker /\ job[h].cur = t)
    BY <1>1, <1>11
  <2>5. ~ (h \in Thread /\ top[h].pc = "activate")
    BY <1>5, <1>6
  <2> QED
    BY <2>1, <2>2, <2>3, <2>4, <2>5 DEF InPlace
<1>14. StackShape
  <2>1. \A th \in Thread, d \in Nat : ~ (0 < d /\ d < Len(stack[th]))
    BY <1>3
  <2> QED
    BY <2>1 DEF StackShape
<1>15. FramesMatch
  BY <1>4, <1>5 DEF FramesMatch, FrameMatches
<1>16. FollowersMatch
  BY <1>3, <1>8 DEF FollowersMatch
<1>17. CarriedOnce
  BY <1>7 DEF CarriedOnce
<1>18. FutureMatches
  <2>1. \A q \in Task : \A x \in Slot : fr[x].task # q
    BY <1>1, <1>4, <1>5
  <2> QED
    BY <1>3, <2>1 DEF FutureMatches
<1>19. RemovalCounts
  <2>1. \A q \in Task : \A x \in Slot : fr[x].task # q
    BY <1>1, <1>4, <1>5
  <2>2. \A q \in Task : ~ GetDone(q) /\ ~ PostDone(q)
    BY <1>3 DEF GetDone, PostDone
  <2> QED
    BY <1>3, <2>1, <2>2 DEF RemovalCounts
<1>20. ThreadsMatch
  <2>1. \A th \in Thread : JobMatches(th)
    BY <1>1, <1>3 DEF JobMatches, InitPcs
  <2>2. \A w \in Worker : Searches(w)
    BY <1>11 DEF Searches
  <2> QED
    BY <2>1, <2>2 DEF ThreadsMatch
<1>21. OnePlace
  BY <1>3, <1>13 DEF OnePlace
<1>22. StatusMatches
  BY <1>3, <1>13 DEF StatusMatches
<1>23. IsFiniteSet({}) /\ Cardinality({}) = 0
  BY FS_EmptySet
<1>24. PreCounts
  <2>1. \A t \in Task : ~ Initialised(t)
    BY <1>1, <1>11 DEF Initialised
  <2>2. \A e : IsFiniteSet(Edges(e)) /\ Cardinality(Edges(e)) = 0
    BY <1>9, <1>23
  <2>3. \A t \in Task : pre[t] = 1 /\ t \notin started
    BY <1>3
  <2> QED
    BY <2>1, <2>2, <2>3 DEF PreCounts
<1>25. PostCounts
  <2>1. /\ \A e : IsFiniteSet(Edges(e)) /\ Cardinality(Edges(e)) = 0
        /\ \A t : IsFiniteSet(PostFrames(t)) /\ Cardinality(PostFrames(t)) = 0
    BY <1>9, <1>10, <1>23
  <2>2. \A t \in Task : post[t] = 1 /\ result_set[t] = 1 /\ t \notin started
    BY <1>3
  <2> QED
    BY <2>1, <2>2 DEF PostCounts
<1>26. EntriesMatch
  <2>1. \A r \in Resource : DOMAIN users[r] = {}
    <3>1. \A r \in Resource : DOMAIN users[r] = 1..Len(users[r])
      BY Zenon, <1>2, EntryIs
    <3>2. \A r \in Resource : users[r] = <<>>
      BY Zenon, <1>3
    <3>3. Len(<<>>) = 0
      OBVIOUS
    <3>4. 1..0 = {}
      OBVIOUS
    <3> QED
      BY Zenon, <3>1, <3>2, <3>3, <3>4
  <2> QED
    BY <2>1 DEF EntriesMatch
<1>27. Entered
  BY <1>3 DEF Entered
<1>28. UsersOrdered
  <2>1. \A r \in Resource : DOMAIN users[r] = {}
    <3>1. \A r \in Resource : DOMAIN users[r] = 1..Len(users[r])
      BY Zenon, <1>2, EntryIs
    <3>2. \A r \in Resource : users[r] = <<>>
      BY Zenon, <1>3
    <3>3. Len(<<>>) = 0
      OBVIOUS
    <3>4. 1..0 = {}
      OBVIOUS
    <3> QED
      BY Zenon, <3>1, <3>2, <3>3, <3>4
  <2> QED
    BY <1>13, <2>1 DEF UsersOrdered
<1> QED
  BY <1>2, <1>14, <1>15, <1>16, <1>17, <1>18, <1>19, <1>20, <1>21, <1>22, <1>24, <1>25, <1>26, <1>27,
     <1>28 DEF IInv

\* No variable changes: neither does what the invariant is made of.
LEMMA StutterIInv ==
  ASSUME IInv, UNCHANGED vars
  PROVE  IInv'
<1>1. UNCHANGED <<life, parent, access, result_get, followers, removal_countdown, future, pre, post,
                  result_set, users, users_mutex, emplaced, ready, job, stack, started>>
  BY DEF vars, objVars, queueVars, threadVars
<1>2. fr' = fr /\ top' = top
  BY <1>1, SameStack
<1>3. Types' /\ StackShape' /\ FramesMatch' /\ FollowersMatch'
  BY ZenonT(60), <1>1, <1>2 DEF IInv, Types, StackShape, FramesMatch, FrameMatches, FollowersMatch
<1>4. \A x \in Slot : \A q : Carries(x, q)' <=> Carries(x, q)
  BY <1>2 DEF Carries
<1>5. CarriedOnce' /\ FutureMatches'
  BY <1>1, <1>2, <1>4 DEF IInv, CarriedOnce, FutureMatches
<1>6. \A q : (GetDone(q)' <=> GetDone(q)) /\ (PostDone(q)' <=> PostDone(q))
  BY <1>1, <1>2, <1>4 DEF GetDone, PostDone
<1>7. RemovalCounts'
  BY <1>1, <1>2, <1>6 DEF IInv, RemovalCounts
<1>8. \A q, n : Pending(q, n)' <=> Pending(q, n)
  BY <1>1, <1>2, <1>4 DEF Pending, StillTo
<1>9. ThreadsMatch'
  <2>1. \A th \in Thread : JobMatches(th)'
    BY <1>1 DEF IInv, ThreadsMatch, JobMatches
  <2>2. \A w \in Worker : Searches(w)'
    <3>1. SUFFICES ASSUME NEW w \in Worker PROVE Searches(w)'
      OBVIOUS
    <3>2. Searches(w)
      BY <3>1 DEF IInv, ThreadsMatch
    <3> QED
      BY Zenon, <1>1, <1>2, <3>2 DEF Searches, Predecessor, ResourceOf, Pending, Carries, StillTo
  <2> QED
    BY <2>1, <2>2 DEF ThreadsMatch
<1>10. \A k, h, t : InPlace(k, h, t)' <=> InPlace(k, h, t)
  BY <1>1, <1>2 DEF InPlace
<1>11. OnePlace' /\ StatusMatches'
  BY <1>1, <1>10 DEF IInv, OnePlace, StatusMatches
<1>12. \A e : Edges(e)' = Edges(e)
  BY <1>1, <1>8 DEF Edges
<1>13. PreCounts'
  BY <1>1, <1>12 DEF IInv, PreCounts, Initialised
<1>14. PostCounts'
  <2>1. \A t : PostFrames(t)' = PostFrames(t)
    BY <1>2 DEF PostFrames
  <2> QED
    BY <1>1, <1>12, <2>1 DEF IInv, PostCounts, Running
<1>15. \A q, k : Listed(q, k)' <=> Listed(q, k)
  BY <1>1, <1>2, <1>4, <1>10 DEF Listed
<1>16. EntriesMatch' /\ Entered'
  <2>1. \A r \in Resource : \A n \in DOMAIN users'[r] : \A q, k :
           q = users'[r][n][1] /\ k = users'[r][n][2] => EntryMatches(r, q, k)'
    BY <1>1, <1>15 DEF IInv, EntriesMatch, EntryMatches, ResourceOf
  <2>2. Entered'
    BY <1>1, <1>15 DEF IInv, Entered, ResourceOf
  <2> QED
    BY <2>1, <2>2, EntriesMatchNext
<1>17. UsersOrdered'
  BY <1>1, <1>10 DEF IInv, UsersOrdered
<1> QED
  BY <1>3, <1>5, <1>7, <1>9, <1>11, <1>13, <1>14, <1>16, <1>17 DEF IInv

\* Every step keeps the invariant.
LEMMA IInvStep == IInv /\ [Next]_vars => IInv'
<1> SUFFICES ASSUME IInv, [Next]_vars PROVE IInv'
  OBVIOUS
<1>1. CASE UNCHANGED vars
  BY <1>1, StutterIInv
<1>2. ASSUME NEW th \in Thread, Step(th) PROVE IInv'
  <2>1. Types' /\ StackShape' /\ FramesMatch' /\ FollowersMatch'
    BY <1>2, TypesStep, StackShapeStep, FramesMatchStep, FollowersMatchStep
  <2>2. CarriedOnce' /\ FutureMatches' /\ RemovalCounts'
    BY <1>2, CarriedOnceStep, FutureMatchesStep, RemovalCountsStep
  <2>3. ThreadsMatch' /\ OnePlace' /\ StatusMatches' /\ PreCounts' /\ PostCounts'
    BY <1>2, ThreadsMatchStep, PlacesStep, PreCountsStep, PostCountsStep
  <2>4. EntriesMatch' /\ Entered' /\ UsersOrdered'
    BY <1>2, EntriesMatchStep, EnteredStep, UsersOrderedStep
  <2> QED
    BY <2>1, <2>2, <2>3, <2>4 DEF IInv
<1> QED
  BY <1>1, <1>2, NextIsStep

\* The inductive invariant, for every number of tasks and workers, every set
\* of resources and every nesting of tasks.
THEOREM Invariance == Spec => []IInv
<1>1. Init => IInv
  BY InitIInv
<1>2. IInv /\ [Next]_vars => IInv'
  BY IInvStep
<1> QED
  BY <1>1, <1>2, PTL DEF Spec

-----------------------------------------------------------------------------
(***************************************************************************)
(* What the properties of TaskGraph say, in the terms of the invariant.    *)
(***************************************************************************)

\* The same notification, counted from the other end of its stack.
Flip(x) == <<x[1], Len(stack[x[1]]) + 1 - x[2]>>

\* Frames and slots are the same notifications.
LEMMA FrameSlot ==
  ASSUME Types
  PROVE  /\ \A x \in Frames : /\ Flip(x) \in Slot /\ fr[Flip(x)] = FrameAt(x) /\ FrameAt(x) \in Frame
                              /\ x = <<x[1], x[2]>> /\ x[1] \in Thread /\ x[2] \in DOMAIN stack[x[1]]
         /\ \A y \in Slot : fr[y].pc # "none" => Flip(y) \in Frames /\ FrameAt(Flip(y)) = fr[y]
<1>1. \A th \in Thread : /\ stack[th] \in Seq(Frame) /\ Len(stack[th]) \in Nat
                         /\ DOMAIN stack[th] = 1..Len(stack[th])
                         /\ \A n \in 1..Len(stack[th]) : stack[th][n] \in Frame
  BY DEF Types
<1>2. ASSUME NEW x \in Frames
      PROVE  /\ Flip(x) \in Slot /\ fr[Flip(x)] = FrameAt(x) /\ FrameAt(x) \in Frame
             /\ x = <<x[1], x[2]>> /\ x[1] \in Thread /\ x[2] \in DOMAIN stack[x[1]]
  <2>1. PICK th \in Thread : x \in {<<th, n>> : n \in DOMAIN stack[th]}
    BY DEF Frames
  <2>2. PICK n \in DOMAIN stack[th] : x = <<th, n>>
    BY <2>1
  <2>3. x[1] = th /\ x[2] = n /\ n \in 1..Len(stack[th])
    BY <1>1, <2>2
  <2>4. Flip(x) = <<th, Len(stack[th]) + 1 - n>>
    BY <2>3 DEF Flip
  <2>5. PICK d \in Nat : d = Len(stack[th]) + 1 - n /\ d \in 1..Len(stack[th]) /\ Len(stack[th]) + 1 - d = n
    <3>1. PICK l \in Nat : l = Len(stack[th])
      BY <1>1
    <3>2. n \in 1..l
      BY <2>3, <3>1
    <3>3. l + 1 - n \in Nat /\ l + 1 - n \in 1..l /\ l + 1 - (l + 1 - n) = n
      BY <3>2
    <3> QED
      BY <3>1, <3>3
  <2>6. <<th, d>> \in Slot
    BY DEF Slot
  <2>7. fr[<<th, d>>] = stack[th][n]
    BY <2>5, <2>6 DEF fr
  <2>8. FrameAt(x) = stack[th][n]
    BY <2>3 DEF FrameAt
  <2> QED
    BY <1>1, <2>2, <2>3, <2>4, <2>5, <2>6, <2>7, <2>8
<1>3. ASSUME NEW y \in Slot, fr[y].pc # "none"
      PROVE  Flip(y) \in Frames /\ FrameAt(Flip(y)) = fr[y]
  <2>1. PICK th \in Thread, d \in Nat : y = <<th, d>>
    BY DEF Slot
  <2>2. d \in 1..Len(stack[th]) /\ fr[y] = stack[th][Len(stack[th]) + 1 - d]
    BY <1>3, <2>1 DEF fr, NoFrame
  <2>3. PICK n \in Nat : n = Len(stack[th]) + 1 - d /\ n \in DOMAIN stack[th]
    <3>1. Len(stack[th]) + 1 - d \in Nat /\ Len(stack[th]) + 1 - d \in 1..Len(stack[th])
      BY <1>1, <2>2
    <3> QED
      BY <1>1, <3>1
  <2>4. Flip(y) = <<th, n>>
    BY <2>1, <2>3 DEF Flip
  <2>5. <<th, n>> \in Frames
    BY <2>3 DEF Frames
  <2> QED
    BY <2>2, <2>3, <2>4, <2>5 DEF FrameAt
<1> QED
  BY <1>2, <1>3

\* A notification that is not at its followers is the innermost one of its thread.
LEMMA InnermostFrame ==
  ASSUME Types, StackShape
  PROVE  /\ \A x \in Frames : FrameAt(x).pc # "followers" => x = <<x[1], 1>> /\ top[x[1]] = FrameAt(x)
         /\ \A th \in Thread : top[th].pc # "none" => <<th, 1>> \in Frames /\ FrameAt(<<th, 1>>) = top[th]
<1>1. \A th \in Thread : /\ Len(stack[th]) \in Nat /\ TopSlot(th) \in Slot /\ top[th] = fr[TopSlot(th)]
                         /\ DOMAIN stack[th] = 1..Len(stack[th])
  BY TopFrame DEF Types
<1>2. ASSUME NEW x \in Frames, FrameAt(x).pc # "followers"
      PROVE  x = <<x[1], 1>> /\ top[x[1]] = FrameAt(x)
  <2>1. PICK th \in Thread, n \in Nat : n \in DOMAIN stack[th] /\ x = <<th, n>>
    BY <1>1, FrameSlot
  <2>2. PICK d \in Nat : d = Len(stack[th]) + 1 - n /\ 0 < d /\ d <= Len(stack[th]) /\ n \in Nat
    <3>1. n \in 1..Len(stack[th]) /\ Len(stack[th]) \in Nat
      BY <1>1, <2>1
    <3>2. Len(stack[th]) + 1 - n \in Nat /\ 0 < Len(stack[th]) + 1 - n /\ Len(stack[th]) + 1 - n <= Len(stack[th])
      BY SMTT(60), <3>1
    <3> QED
      BY <3>1, <3>2
  <2>3. fr[<<th, d>>] = FrameAt(x)
    BY <2>1, <2>2, FrameSlot DEF Flip
  <2>4. ~ (d < Len(stack[th]))
    BY <1>2, <2>2, <2>3 DEF StackShape
  <2>5. d = Len(stack[th]) /\ n = 1
    BY <1>1, <2>2, <2>4
  <2> QED
    BY <1>1, <2>1, <2>3, <2>5 DEF TopSlot
<1>3. ASSUME NEW th \in Thread, top[th].pc # "none"
      PROVE  <<th, 1>> \in Frames /\ FrameAt(<<th, 1>>) = top[th]
  <2>1. Flip(TopSlot(th)) \in Frames /\ FrameAt(Flip(TopSlot(th))) = top[th]
    BY <1>1, <1>3, FrameSlot
  <2>2. Len(stack[th]) + 1 - Len(stack[th]) = 1
    BY <1>1
  <2>3. Flip(TopSlot(th)) = <<th, 1>>
    BY <2>2 DEF Flip, TopSlot
  <2> QED
    BY <2>1, <2>3
<1> QED
  BY <1>2, <1>3

\* Carrying, by slots.
LEMMA CarryingIs ==
  ASSUME Types, NEW q, NEW S \in SUBSET FramePcs
  PROVE  /\ \A x \in Carrying(q, S) : Flip(x) \in Slot /\ fr[Flip(x)] = FrameAt(x)
                                      /\ FrameAt(x).task = q /\ FrameAt(x).pc \in S
         /\ \A y \in Slot : fr[y].task = q /\ fr[y].pc \in S => Flip(y) \in Carrying(q, S)
<1>1. \A x \in Carrying(q, S) : Flip(x) \in Slot /\ fr[Flip(x)] = FrameAt(x)
                                /\ FrameAt(x).task = q /\ FrameAt(x).pc \in S
  BY FrameSlot DEF Carrying
<1>2. "none" \notin S
  BY DEF FramePcs
<1> QED
  BY <1>1, <1>2, FrameSlot DEF Carrying

\* ToNotify counts the followers whose edges are pending.
LEMMA ToNotifyIs ==
  ASSUME IInv, NEW q \in Task
  PROVE  ToNotify(q) \in Nat /\ \A m \in Nat : m \in 1..ToNotify(q) <=> Pending(q, m)
<1>1. Types /\ CarriedOnce /\ FramesMatch /\ post[q] \in Nat
  BY PostPositive DEF IInv
<1>2. Len(followers[q]) \in Nat /\ DOMAIN followers[q] = 1..Len(followers[q])
  BY <1>1, FollowerIs
<1> DEFINE now == Carrying(q, {"followers", "activate"})
           soon == {x \in Carrying(q, {"waker", "delete"}) :
                      FrameAt(x).pc = "waker" => FrameAt(x).i = 0}
<1>3. {"followers", "activate"} \in SUBSET FramePcs /\ {"waker", "delete"} \in SUBSET FramePcs
  BY DEF FramePcs
<1>4. CASE now # {}
  <2>1. PICK x : x = CHOOSE c \in now : TRUE
    OBVIOUS
  <2>2. x \in now
    BY <1>4, <2>1
  <2>3. PICK y \in Slot : fr[y] = FrameAt(x) /\ fr[y].task = q /\ fr[y].pc \in {"followers", "activate"}
    BY <1>1, <1>3, <2>2, CarryingIs
  <2>4. ToNotify(q) = IF fr[y].pc = "activate" THEN fr[y].i - 1 ELSE fr[y].i
    BY <1>4, <2>1, <2>3 DEF ToNotify
  <2>5. Carries(y, q)
    BY <2>3 DEF Carries
  <2>6. post[q] = 0 /\ \A z \in Slot : Carries(z, q) => z = y
    BY <1>1, <2>5 DEF CarriedOnce
  <2>7. \A m : Pending(q, m) <=> m \in 1..Len(followers[q]) /\ StillTo(y, m)
    BY <1>2, <2>5, <2>6 DEF Pending
  <2>8. /\ fr[y].pc = "followers" => fr[y].i <= Len(followers[q])
        /\ fr[y].pc = "activate" => fr[y].i \in 1..Len(followers[q])
        /\ fr[y].i \in Nat
    <3>1. FrameAt(x) \in Frame
      BY <1>1, <2>2, FrameSlot DEF Carrying
    <3> QED
      BY <1>1, <2>3, <3>1 DEF FramesMatch, FrameMatches, Frame
  <2>9. CASE fr[y].pc = "followers"
    <3>1. \A m : StillTo(y, m) <=> m <= fr[y].i
      BY <2>9 DEF StillTo
    <3>2. ToNotify(q) = fr[y].i
      BY <2>4, <2>9
    <3> QED
      BY <1>2, <2>7, <2>8, <2>9, <3>1, <3>2
  <2>10. CASE fr[y].pc = "activate"
    <3>1. \A m : StillTo(y, m) <=> m < fr[y].i
      BY <2>10 DEF StillTo
    <3>2. ToNotify(q) = fr[y].i - 1
      BY <2>4, <2>10
    <3> QED
      BY <1>2, <2>7, <2>8, <2>10, <3>1, <3>2
  <2> QED
    BY <2>3, <2>9, <2>10
<1>5. CASE now = {} /\ (post[q] > 0 \/ soon # {})
  <2>1. ToNotify(q) = Len(followers[q])
    BY <1>5 DEF ToNotify
  <2>2. \A m : Pending(q, m) <=> m \in DOMAIN followers[q]
    <3>1. CASE post[q] > 0
      BY <1>1, <3>1 DEF Pending
    <3>2. CASE soon # {}
      <4>1. PICK x \in Carrying(q, {"waker", "delete"}) : FrameAt(x).pc = "waker" => FrameAt(x).i = 0
        BY <3>2
      <4>2. PICK y \in Slot : fr[y] = FrameAt(x) /\ fr[y].task = q /\ fr[y].pc \in {"waker", "delete"}
        BY <1>1, <1>3, <4>1, CarryingIs
      <4>3. Carries(y, q) /\ \A m : StillTo(y, m)
        BY <4>1, <4>2 DEF Carries, StillTo
      <4> QED
        BY <4>3 DEF Pending
    <3> QED
      BY <1>5, <3>1, <3>2
  <2> QED
    BY <1>2, <2>1, <2>2
<1>6. CASE now = {} /\ ~ (post[q] > 0 \/ soon # {})
  <2>1. ToNotify(q) = 0
    BY <1>6 DEF ToNotify
  <2>2. post[q] = 0
    BY <1>1, <1>6
  <2>3. \A y \in Slot : ~ Carries(y, q)
    <3>1. SUFFICES ASSUME NEW y \in Slot, Carries(y, q) PROVE FALSE
      OBVIOUS
    <3>2. fr[y].task = q /\ (fr[y].pc \in {"delete", "followers", "activate"} \/ (fr[y].pc = "waker" /\ fr[y].i = 0))
      BY <3>1 DEF Carries
    <3>3. CASE fr[y].pc \in {"followers", "activate"}
      <4>1. Flip(y) \in now
        BY <1>1, <1>3, <3>2, <3>3, CarryingIs
      <4> QED
        BY <1>6, <4>1
    <3>4. CASE fr[y].pc \in {"waker", "delete"}
      <4>1. Flip(y) \in Carrying(q, {"waker", "delete"})
        BY <1>1, <1>3, <3>2, <3>4, CarryingIs
      <4>2. FrameAt(Flip(y)) = fr[y]
        BY <1>1, <3>4, FrameSlot
      <4>3. Flip(y) \in soon
        BY <3>2, <4>1, <4>2
      <4> QED
        BY <1>6, <4>3
    <3> QED
      BY <3>2, <3>3, <3>4
  <2>4. \A m : ~ Pending(q, m)
    BY <2>2, <2>3 DEF Pending
  <2> QED
    BY <2>1, <2>4
<1> QED
  BY <1>4, <1>5, <1>6

\* The edges that are not notified yet.
LEMMA PendingEdgesIs ==
  ASSUME IInv, NEW e
  PROVE  PendingEdges(e) = Edges(e)
<1>1. ASSUME NEW y \in PendingEdges(e) PROVE y \in Edges(e)
  <2>1. PICK q \in Task : y \in {<<q, n>> : n \in {m \in 1..ToNotify(q) : followers[q][m] = e}}
    BY DEF PendingEdges
  <2>2. PICK n \in 1..ToNotify(q) : followers[q][n] = e /\ y = <<q, n>>
    BY <2>1
  <2>3. n \in Nat /\ Pending(q, n)
    BY <2>2, ToNotifyIs
  <2>4. y \in Task \X Nat /\ y[1] = q /\ y[2] = n
    BY <2>2, <2>3
  <2> QED
    BY <2>2, <2>3, <2>4 DEF Edges
<1>2. ASSUME NEW y \in Edges(e) PROVE y \in PendingEdges(e)
  <2>1. PICK q \in Task, n \in Nat : y = <<q, n>> /\ Pending(q, n) /\ followers[q][n] = e
    BY DEF Edges
  <2>2. n \in 1..ToNotify(q)
    BY <2>1, ToNotifyIs
  <2>3. y \in {<<q, c>> : c \in {m \in 1..ToNotify(q) : followers[q][m] = e}}
    BY <2>1, <2>2
  <2> QED
    BY <2>3 DEF PendingEdges
<1> QED
  BY <1>1, <1>2

\* Sets of size zero and one.
LEMMA SmallSet ==
  ASSUME NEW S, \A x, y \in S : x = y
  PROVE  /\ IsFiniteSet(S)
         /\ S = {} => Cardinality(S) = 0
         /\ S # {} => Cardinality(S) = 1
<1>1. CASE S = {}
  BY <1>1, FS_EmptySet
<1>2. CASE S # {}
  <2>1. PICK x \in S : TRUE
    BY <1>2
  <2>2. S = {x}
    BY <2>1
  <2> QED
    BY <1>2, <2>2, FS_Singleton
<1> QED
  BY <1>1, <1>2

\* One worker has a task in hand.
LEMMA WorkersIs ==
  ASSUME IInv, NEW t \in Task, NEW S
  PROVE  /\ Workers(t, S) # {} <=> Busy(t, S)
         /\ Workers(t, S) = {} => Cardinality(Workers(t, S)) = 0
         /\ Workers(t, S) # {} => Cardinality(Workers(t, S)) = 1
<1>1. \A v, w \in Workers(t, S) : v = w
  <2>1. SUFFICES ASSUME NEW v \in Workers(t, S), NEW w \in Workers(t, S) PROVE v = w
    OBVIOUS
  <2>2. v \in Thread /\ w \in Thread
    BY Constants DEF Workers
  <2>3. InPlace("cur", v, t) /\ InPlace("cur", w, t)
    BY DEF Workers, InPlace
  <2> QED
    BY <2>2, <2>3, PlaceNames DEF IInv, OnePlace
<1>2. Workers(t, S) # {} <=> Busy(t, S)
  BY DEF Workers, Busy
<1> QED
  BY <1>1, <1>2, SmallSet

\* The notifications that are about to decrement a post-event.
LEMMA PostFramesIs ==
  ASSUME IInv, NEW t \in Task
  PROVE  Carrying(t, {"post"}) = PostFrames(t)
<1>1. Types /\ StackShape
  BY DEF IInv
<1>2. ASSUME NEW x \in Carrying(t, {"post"}) PROVE x \in PostFrames(t)
  <2>1. x \in Frames /\ FrameAt(x).task = t /\ FrameAt(x).pc = "post"
    BY DEF Carrying
  <2>2. x = <<x[1], 1>> /\ top[x[1]] = FrameAt(x) /\ x[1] \in Thread
    BY <1>1, <2>1, InnermostFrame, FrameSlot
  <2>3. x \in Thread \X {1}
    BY <2>2
  <2> QED
    BY <2>1, <2>2, <2>3 DEF PostFrames
<1>3. ASSUME NEW x \in PostFrames(t) PROVE x \in Carrying(t, {"post"})
  <2>1. PICK th \in Thread : x = <<th, 1>> /\ top[th].pc = "post" /\ top[th].task = t
    BY DEF PostFrames
  <2>2. x \in Frames /\ FrameAt(x) = top[th]
    BY <1>1, <2>1, InnermostFrame
  <2> QED
    BY <2>1, <2>2 DEF Carrying
<1> QED
  BY <1>2, <1>3

\* PreEventCountsEdges follows from the counts of the invariant.
LEMMA PreEventCounted == IInv => PreEventCountsEdges
<1>1. SUFFICES ASSUME IInv, NEW t \in Task, t \notin started
               PROVE  pre[t] + Cardinality(Workers(t, {"up"}))
                        = 1 + Cardinality(Workers(t, {"init", "scan", "link", "up"}))
                            + Cardinality(PendingEdges(PreOf(t)))
  BY DEF PreEventCountsEdges
<1>2. PICK n \in Nat : n = Cardinality(PendingEdges(PreOf(t)))
  <2>1. IsFiniteSet(Edges(PreOf(t)))
    BY <1>1 DEF IInv, PreCounts
  <2> QED
    BY <1>1, <2>1, PendingEdgesIs, FS_CardinalityType
<1>3. pre[t] = 1 + (IF Initialised(t) THEN 1 ELSE 0) + n
  BY <1>1, <1>2, PendingEdgesIs DEF IInv, PreCounts
<1>4. Initialised(t) <=> Busy(t, InitPcs)
  BY DEF Initialised, Busy
<1>5. Busy(t, {"init", "scan", "link", "up"}) <=> Busy(t, InitPcs) \/ Busy(t, {"up"})
  BY DEF Busy, InitPcs
<1>6. ~ (Busy(t, InitPcs) /\ Busy(t, {"up"}))
  <2>1. SUFFICES ASSUME NEW v \in Worker, NEW w \in Worker, job[v].cur = t, job[w].cur = t,
                        job[v].pc \in InitPcs, job[w].pc = "up"
                 PROVE  FALSE
    BY DEF Busy
  <2>2. InPlace("cur", v, t) /\ InPlace("cur", w, t) /\ v \in Thread /\ w \in Thread
    BY <2>1, Constants DEF InPlace
  <2>3. v = w
    BY <1>1, <2>2, PlaceNames DEF IInv, OnePlace
  <2> QED
    BY <2>1, <2>3 DEF InitPcs
<1>7. PICK u \in Nat : u = Cardinality(Workers(t, {"up"})) /\ u = IF Busy(t, {"up"}) THEN 1 ELSE 0
  BY <1>1, WorkersIs
<1>8. PICK i \in Nat : /\ i = Cardinality(Workers(t, {"init", "scan", "link", "up"}))
                       /\ i = IF Busy(t, {"init", "scan", "link", "up"}) THEN 1 ELSE 0
  BY <1>1, WorkersIs
<1> QED
  BY <1>2, <1>3, <1>4, <1>5, <1>6, <1>7, <1>8

\* PostEventCountsEdges too.
LEMMA PostEventCounted == IInv => PostEventCountsEdges
<1>1. SUFFICES ASSUME IInv, NEW t \in Task
               PROVE  post[t] = (IF t \notin started \/ InBody(t) # {} THEN 1 ELSE 0)
                                  + Cardinality(Carrying(t, {"post"}))
                                  + Cardinality(PendingEdges(PostOf(t)))
  BY DEF PostEventCountsEdges
<1>2. InBody(t) # {} <=> Running(t)
  BY DEF InBody, Workers, Running
<1> QED
  BY <1>1, <1>2, PostFramesIs, PendingEdgesIs DEF IInv, PostCounts

\* ExecutedOnce: the places in which a task waits to be executed exclude
\* each other.
LEMMA ExecutesOnce == IInv => ExecutedOnce
<1> DEFINE act(t) == {x \in Frames : /\ FrameAt(x).pc = "activate"
                                     /\ followers[FrameAt(x).task][FrameAt(x).i] = PreOf(t)}
<1>1. SUFFICES ASSUME IInv, NEW t \in Task,
                      NEW n, n = ready[t] + Cardinality(Workers(t, {"exec"})) + Cardinality(act(t))
               PROVE  /\ n <= 1
                      /\ n = 1 => t \notin started /\ pre[t] = 1
                      /\ t \in started => pre[t] = 0
  BY DEF ExecutedOnce
<1>2. Types /\ StackShape
  BY <1>1 DEF IInv
<1>3. ASSUME NEW x \in act(t) PROVE x = <<x[1], 1>> /\ x[1] \in Thread /\ InPlace("activate", x[1], t)
  <2>1. x \in Frames /\ FrameAt(x).pc = "activate" /\ followers[FrameAt(x).task][FrameAt(x).i] = PreOf(t)
    OBVIOUS
  <2>2. x = <<x[1], 1>> /\ top[x[1]] = FrameAt(x) /\ x[1] \in Thread
    BY <1>2, <2>1, InnermostFrame, FrameSlot
  <2> QED
    BY <2>1, <2>2 DEF InPlace
<1> HIDE DEF act
<1>4. \A k1, k2 \in PlaceKind, h1, h2 \in Holder :
         InPlace(k1, h1, t) /\ InPlace(k2, h2, t) => k1 = k2 /\ h1 = h2
  BY <1>1 DEF IInv, OnePlace
<1>5. \A x, y \in act(t) : x = y
  <2>1. SUFFICES ASSUME NEW x \in act(t), NEW y \in act(t) PROVE x = y
    OBVIOUS
  <2>2. x[1] = y[1]
    BY <1>3, <1>4, PlaceNames
  <2> QED
    BY <1>3, <2>2
<1>6. PICK a \in {0, 1} : a = Cardinality(act(t)) /\ (a = 0 <=> act(t) = {})
  BY <1>5, SmallSet
<1>7. PICK b \in {0, 1} : b = Cardinality(Workers(t, {"exec"})) /\ (b = 1 <=> Busy(t, {"exec"}))
  BY <1>1, WorkersIs
<1>8. PICK c \in {0, 1} : c = ready[t]
  BY <1>1 DEF IInv, OnePlace
<1>9. a = 1 => \E h \in Holder : InPlace("activate", h, t)
  BY <1>3, <1>6, PlaceNames
<1>10. b = 1 => \E h \in Holder : h \in Worker /\ InPlace("cur", h, t) /\ job[h].pc = "exec"
  BY <1>7, PlaceNames, Constants DEF Busy, InPlace
<1>11. c = 1 => InPlace("ready", NoThread, t)
  BY <1>8 DEF InPlace
<1>12. a + b + c <= 1
  <2>1. ~ (a = 1 /\ b = 1) /\ ~ (a = 1 /\ c = 1) /\ ~ (b = 1 /\ c = 1)
    BY <1>4, <1>9, <1>10, <1>11, PlaceNames
  <2> QED
    BY <2>1
<1>13. n = a + b + c
  BY <1>1, <1>6, <1>7, <1>8
<1>14. StatusMatches
  BY <1>1 DEF IInv
<1>15. (a = 1 \/ b = 1 \/ c = 1) => t \notin started /\ pre[t] = 1
  <2>1. \A k \in PlaceKind, h \in Holder :
           InPlace(k, h, t) /\ (k # "cur" \/ job[h].pc = "exec") => t \notin started /\ pre[t] = 1
    BY <1>14 DEF StatusMatches
  <2> QED
    BY <1>9, <1>10, <1>11, <2>1, PlaceNames
<1>16. t \in started => pre[t] = 0
  BY <1>14 DEF StatusMatches
<1> QED
  BY <1>12, <1>13, <1>15, <1>16

\* A task that has been destroyed is done with in every respect.
LEMMA FreedIs ==
  ASSUME IInv, NEW t \in Task, life[t] = "freed"
  PROVE  /\ PostDone(t) /\ GetDone(t) /\ post[t] = 0 /\ result_get[t] = 0 /\ result_set[t] = 0
         /\ future[t] = "gone" /\ t \in started /\ pre[t] = 0 /\ ~ Running(t)
<1>1. PostDone(t) /\ GetDone(t) /\ post[t] = 0 /\ result_get[t] = 0
  BY DEF IInv, RemovalCounts, PostDone, GetDone
<1>2. t \in started /\ ~ Running(t) /\ result_set[t] = 0
  BY <1>1, ReachedIsStarted DEF IInv
<1>3. future[t] = "gone"
  BY <1>1 DEF IInv, FutureMatches
<1>4. pre[t] = 0
  BY <1>2 DEF IInv, StatusMatches
<1> QED
  BY <1>1, <1>2, <1>3, <1>4

\* RemovedWhenDone follows.
LEMMA RemovedIsDone == IInv => RemovedWhenDone
<1>1. SUFFICES ASSUME IInv, NEW t \in Task, life[t] = "freed"
               PROVE  /\ post[t] = 0 /\ result_get[t] = 0 /\ result_set[t] = 0
                      /\ future[t] = "gone"
                      /\ t \notin emplaced /\ ready[t] = 0
  BY DEF RemovedWhenDone
<1>2. /\ post[t] = 0 /\ result_get[t] = 0 /\ result_set[t] = 0 /\ future[t] = "gone" /\ t \in started
  BY <1>1, FreedIs
<1>3. ~ InPlace("emplaced", NoThread, t) /\ ~ InPlace("ready", NoThread, t)
  BY <1>1, <1>2, PlaceNames DEF IInv, StatusMatches
<1>4. ready[t] \in {0, 1}
  BY <1>1 DEF IInv, OnePlace
<1> QED
  BY <1>2, <1>3, <1>4 DEF InPlace

\* No edge leads to a task that does not exist, or no longer exists.
LEMMA NoEdges ==
  ASSUME IInv, NEW t \in Task, life[t] # "alive"
  PROVE  Edges(PreOf(t)) = {} /\ Edges(PostOf(t)) = {}
<1>1. CASE life[t] = "freed"
  <2>1. pre[t] = 0 /\ post[t] = 0 /\ t \in started
    BY <1>1, FreedIs
  <2>2. Edges(PostOf(t)) = {}
    BY <2>1, PostPositive DEF IInv
  <2>3. IsFiniteSet(Edges(PreOf(t))) /\ pre[t] = (IF Initialised(t) THEN 1 ELSE 0) + Cardinality(Edges(PreOf(t)))
    <3>1. PICK n \in Nat : n = Cardinality(Edges(PreOf(t))) /\ IsFiniteSet(Edges(PreOf(t)))
      BY NonEmptySize DEF IInv, PreCounts
    <3>2. pre[t] = 0 + (IF Initialised(t) THEN 1 ELSE 0) + n
      BY <2>1, <3>1 DEF IInv, PreCounts
    <3> QED
      BY <3>1, <3>2
  <2>4. Cardinality(Edges(PreOf(t))) \in Nat /\ \A x \in Edges(PreOf(t)) : Cardinality(Edges(PreOf(t))) >= 1
    BY <2>3, NonEmptySize
  <2>5. \A x \in Edges(PreOf(t)) : FALSE
    BY <2>1, <2>3, <2>4
  <2> QED
    BY <2>2, <2>5
<1>2. CASE life[t] = "unborn"
  <2>1. ASSUME NEW e, e.task = t, NEW y \in Edges(e) PROVE FALSE
    <3>1. PICK q \in Task, n \in Nat : Pending(q, n) /\ followers[q][n] = e
      BY <2>1 DEF Edges
    <3>2. n \in DOMAIN followers[q]
      BY <3>1 DEF Pending
    <3>3. life[followers[q][n].task] # "unborn"
      BY <3>2 DEF IInv, FollowersMatch
    <3> QED
      BY <1>2, <2>1, <3>1, <3>3
  <2>2. PreOf(t).task = t /\ PostOf(t).task = t
    BY DEF PreOf, PostOf
  <2> QED
    BY <2>1, <2>2
<1> QED
  BY <1>1, <1>2 DEF IInv, Types

\* NoUseAfterFree follows.
LEMMA NothingFreedInUse == IInv => NoUseAfterFree
<1> SUFFICES ASSUME IInv PROVE NoUseAfterFree
  OBVIOUS
<1>1. Types /\ StackShape
  BY DEF IInv
<1>2. ASSUME NEW r \in Resource, NEW n \in DOMAIN users[r] PROVE life[users[r][n][1]] = "alive"
  <2>1. PICK q \in Task, k \in Nat : q = users[r][n][1] /\ k = users[r][n][2]
    BY <1>1, EntryIs
  <2>2. life[q] # "unborn" /\ Listed(q, k)
    BY <2>1 DEF IInv, EntriesMatch
  <2>3. life[q] # "freed"
    <3>1. SUFFICES ASSUME life[q] = "freed" PROVE FALSE
      OBVIOUS
    <3>2. PostDone(q) /\ post[q] = 0
      BY <3>1, FreedIs
    <3> QED
      BY <2>2, <3>2 DEF PostDone, Listed
  <2> QED
    BY <1>1, <2>1, <2>2, <2>3 DEF Types
<1>3. ASSUME NEW t \in Task, life[t] # "alive"
      PROVE  /\ PendingEdges(PreOf(t)) = {} /\ PendingEdges(PostOf(t)) = {}
             /\ future[t] # "held"
             /\ \A w \in Worker : job[w].cur # t
             /\ Carrying(t, FramePcs \ {"waker", "depth"}) = {}
  <2>1. life[t] \in {"unborn", "freed"}
    BY <1>1, <1>3 DEF Types
  <2>2. PendingEdges(PreOf(t)) = {} /\ PendingEdges(PostOf(t)) = {}
    BY <1>3, NoEdges, PendingEdgesIs
  <2>3. future[t] # "held"
    <3>1. life[t] = "unborn" => future[t] = "none"
      BY DEF IInv, FutureMatches
    <3> QED
      BY <2>1, <3>1, FreedIs
  <2>4. ASSUME NEW w \in Worker, job[w].cur = t PROVE FALSE
    <3>1. InPlace("cur", w, t) /\ w \in Holder /\ w \in Thread /\ w # Main
      BY <2>4, PlaceNames, Constants DEF InPlace
    <3>2. StatusMatches /\ JobMatches(w)
      BY <3>1 DEF IInv, ThreadsMatch
    <3>3. life[t] = "freed"
      BY <2>1, <3>1, <3>2, PlaceNames DEF StatusMatches
    <3>4. t \in started /\ ~ Running(t)
      BY <3>3, FreedIs
    <3>5. job[w].pc \in {"gather", "init", "scan", "link", "up", "exec", "body", "register"} /\ job[w].pc # "gather"
      BY <2>4, <3>1, <3>2, Constants DEF JobMatches
    <3>6. job[w].pc \notin {"init", "scan", "link", "up", "exec"}
      BY <3>1, <3>2, <3>4, PlaceNames DEF StatusMatches, InitPcs
    <3> QED
      BY <2>4, <3>4, <3>5, <3>6 DEF Running
  <2>5. ASSUME NEW x \in Carrying(t, FramePcs \ {"waker", "depth"}) PROVE FALSE
    <3>1. PICK y \in Slot : /\ fr[y] = FrameAt(x) /\ fr[y].task = t
                            /\ fr[y].pc \in FramePcs /\ fr[y].pc \notin {"waker", "depth"}
      <4>1. FramePcs \ {"waker", "depth"} \in SUBSET FramePcs
        OBVIOUS
      <4> QED
        BY <1>1, <4>1, CarryingIs
    <3>2. fr[y].pc \in {"post", "delete", "followers", "activate", "get", "countdown", "free"}
      BY <3>1 DEF FramePcs
    <3>3. life[t] = "freed"
      BY <2>1, <3>1, <3>2 DEF IInv, FramesMatch, FrameMatches
    <3>4. PostDone(t) /\ GetDone(t) /\ post[t] = 0 /\ result_get[t] = 0
      BY <3>3, FreedIs
    <3>5. fr[y].pc \notin {"delete", "followers", "activate"}
      BY <3>1, <3>4 DEF PostDone, Carries
    <3>6. fr[y].pc # "countdown"
      BY <3>1, <3>4 DEF GetDone
    <3>7. fr[y].pc # "get"
      BY <3>1, <3>4 DEF IInv, FutureMatches
    <3>8. fr[y].pc # "free"
      BY <3>1, <3>3 DEF IInv, RemovalCounts
    <3>9. fr[y].pc # "post"
      <4>1. SUFFICES ASSUME fr[y].pc = "post" PROVE FALSE
        OBVIOUS
      <4>2. x \in Frames /\ FrameAt(x).pc # "followers"
        BY <3>1, <4>1 DEF Carrying
      <4>3. PICK th \in Thread : top[th] = FrameAt(x)
        BY <1>1, <4>2, InnermostFrame, FrameSlot
      <4>4. post[t] \in Nat /\ post[t] >= 1
        BY <3>1, <4>1, <4>3, PostPositive DEF IInv
      <4> QED
        BY <3>4, <4>4
    <3> QED
      BY <3>2, <3>5, <3>6, <3>7, <3>8, <3>9
  <2> QED
    BY <2>2, <2>3, <2>4, <2>5
<1> QED
  BY <1>2, <1>3 DEF NoUseAfterFree

-----------------------------------------------------------------------------
(***************************************************************************)
(* The theorems.                                                           *)
(***************************************************************************)

\* A pre-event counts its pending edges exactly: the dependencies that
\* init_graph adds and the notifications of finishing predecessors never miss
\* each other, so no task is lost and none runs too early.
THEOREM PreEventCountsEdgesCorrect == Spec => []PreEventCountsEdges
BY Invariance, PreEventCounted, PTL

\* A post-event counts the body, the threads about to notify it and the
\* children that still will: a parent is finished when all children are.
THEOREM PostEventCountsEdgesCorrect == Spec => []PostEventCountsEdges
BY Invariance, PostEventCounted, PTL

\* A task is handed to at most one worker, at most once: by the last
\* predecessor through the scheduler, or by the worker that initialised it.
THEOREM ExecutedOnceCorrect == Spec => []ExecutedOnce
BY Invariance, ExecutesOnce, PTL

\* A task is destroyed only when its body, its children and its Future are
\* done with, through the countdown of the two events.
THEOREM RemovedWhenDoneCorrect == Spec => []RemovedWhenDone
BY Invariance, RemovedIsDone, PTL

\* Nothing leads to a destroyed task: no users list, no follower that is to be
\* notified, no Future, no worker and no notification before its last reads.
THEOREM NoUseAfterFreeCorrect == Spec => []NoUseAfterFree
BY Invariance, NothingFreedInUse, PTL
=============================================================================
