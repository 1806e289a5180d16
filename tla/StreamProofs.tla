----------------------------- MODULE StreamProofs -----------------------------
(***************************************************************************)
(* The web stream of module Stream, for every limit of its queue and every *)
(* bound: the queue of a connection keeps its promises, and a visible      *)
(* dashboard never misses a change without a baseline or a gap on its way. *)
(***************************************************************************)
EXTENDS Stream, FiniteSetTheorems, SequenceTheorems, TLAPS

-----------------------------------------------------------------------------
(* The inductive invariant *)

Channels == {"dashboard", "context"}
QueuedFrames == [type : FrameTypes, seq : Nat \ {0}, version : Nat]
Clients ==
  [subs : SUBSET Channels, seq : Nat, pending : Seq(QueuedFrames), bytes : Int,
   wake : BOOLEAN, waiting : BOOLEAN, closed : BOOLEAN]
Commands == [type : {"subscribe", "unsubscribe", "ping", "resync"}, channels : SUBSET Channels]
Browsers ==
  [ws : {"none", "dialing", "open"}, opening : {"no", "probing", "aborted"},
   reconnectTimer : {"never", "running", "over"}, sequence : Nat, resyncing : BOOLEAN,
   requestedRepair : BOOLEAN, profileBarrier : BOOLEAN, desired : Profiles, applied : Profiles,
   up : Seq(Commands), have : SUBSET Nat]

(* What a client's own mutex keeps.                                        *)
ClientSound(w) ==
  /\ BytesExact(w) /\ Sequenced(w) /\ (w.closed => w.pending = <<>>)
  /\ w.waiting /\ w.pending # <<>> => w.wake

(* From here on, w is the client, d what is on the network to the browser, *)
(* x the browser, y whether a resync is pending, n how many patches have   *)
(* been dispatched.  The frames on the way:                                *)
Coming(w, d) == Range(d) \cup Range(w.pending)

Rising(q) == \A i, j \in DOMAIN q : i < j => q[i].seq < q[j].seq

InOrder(w, d) ==
  /\ Rising(d) /\ \A f \in Range(d), g \in Range(w.pending) : f.seq < g.seq
  /\ ~w.closed => \A f \in Range(d) : f.seq <= w.seq
  /\ ~w.closed /\ Coming(w, d) # {} => \E f \in Coming(w, d) : f.seq = w.seq

(* Nothing outlives a socket.                                              *)
OneSocket(w, d, x, y) ==
  /\ x.ws # "open" => w.closed /\ ~y /\ d = <<>> /\ x.up = <<>>
  /\ x.ws = "dialing" =>
       x.resyncing /\ ~x.requestedRepair /\ x.applied = "dashboard" /\ x.sequence = 0

(* What the browser has asked for: whoever wants patches again will ask    *)
(* for a baseline after that.                                              *)
Resumes(command) == command.type = "subscribe" /\ "dashboard" \in command.channels
Leaves(command) == command.type = "unsubscribe" /\ "dashboard" \in command.channels

Repairs(up) == \A i \in DOMAIN up : Resumes(up[i]) => \E j \in DOMAIN up : j > i /\ up[j] = Resync
Returns(up) == \A i \in DOMAIN up : Leaves(up[i]) => \E j \in DOMAIN up : j > i /\ Resumes(up[j])

Asks(w, x) ==
  /\ x.requestedRepair => x.resyncing
  /\ x.ws = "open" /\ ~x.resyncing =>
       x.applied = x.desired /\ (x.applied = "dashboard" => ~x.profileBarrier)
  /\ Repairs(x.up)
  /\ x.applied = "dashboard" =>
       /\ Returns(x.up)
       /\ x.ws = "open" /\ ~w.closed /\ "dashboard" \notin w.subs => \E j \in DOMAIN x.up : Resumes(x.up[j])

Asked(x, y) == Resync \in Range(x.up) \/ y

(* Whoever has read up to number s of the frames C, the latest of which    *)
(* has number t, will see the changes K, or a baseline, or that a number   *)
(* is missing.                                                             *)
Told(C, t, s, K) ==
  \/ \E f \in C : f.seq > s /\ f.type = "state.snapshot"
  \/ \E m \in s + 1..t : \A f \in C : f.seq # m
  \/ \A k \in K : \E f \in C : f.seq > s /\ f.type = "patch" /\ f.version = k

(* What a baseline on the way lacks will follow it.                        *)
Followed(C, t, n) ==
  \A f \in C : f.type = "state.snapshot" => Told(C, t, f.seq, (f.version + 1)..n)

Visible(w, d, x, y, n) ==
  x.ws = "open" /\ ~w.closed =>
    /\ x.sequence = 0 => \E f \in Coming(w, d) : f.seq = 1 /\ f.type = "state.snapshot"
    /\ ~x.resyncing => (\A f \in Coming(w, d) : x.sequence < f.seq) /\ (Coming(w, d) = {} => x.sequence = w.seq)
    /\ x.applied = "dashboard" /\ ~Asked(x, y) =>
         /\ ~x.resyncing => Told(Coming(w, d), w.seq, x.sequence, (1..n) \ x.have)
         /\ Followed(Coming(w, d), w.seq, n)

(* A client and its browser.                                               *)
Pair(w, d, x, y, n) ==
  /\ w \in Clients /\ d \in Seq(QueuedFrames) /\ x \in Browsers /\ y \in BOOLEAN /\ n \in Nat
  /\ ClientSound(w) /\ InOrder(w, d) /\ OneSocket(w, d, x, y) /\ Asks(w, x) /\ Visible(w, d, x, y, n)

StreamInv == v \in Nat /\ dispatched \in 0..v /\ Pair(c, down, b, resync, dispatched)

-----------------------------------------------------------------------------
(* Numbers and finite sets *)

(* A set of naturals has a least element: otherwise z |-> z + 1 would      *)
(* inject its lower bounds, a finite set, into those without 0.            *)
LEMMA LeastNatural ==
  ASSUME NEW S \in SUBSET Nat, S # {}
  PROVE  \E x \in S : \A y \in S : x <= y
  <1> SUFFICES ASSUME \A x \in S : \E y \in S : y < x
               PROVE  FALSE
    OBVIOUS
  <1>1. PICK top \in S : TRUE
    OBVIOUS
  <1> DEFINE D == {z \in 0..top : \A y \in S : z <= y}
             E == D \ {0}
             up == [z \in D |-> z + 1]
  <1>2. 0 \in D /\ IsFiniteSet(D)
    <2>1. IsFiniteSet(0..top)
      BY <1>1, FS_Interval
    <2> QED BY <2>1, <1>1, FS_Subset
  <1>3. IsFiniteSet(E) /\ Cardinality(E) = Cardinality(D) - 1 /\ Cardinality(D) \in Nat
    BY <1>2, FS_RemoveElement, FS_CardinalityType
  <1>4. \A z \in D : z + 1 \in E
    <2> SUFFICES ASSUME NEW z \in D PROVE z + 1 \in E
      OBVIOUS
    <2>1. z \in Nat /\ \A y \in S : z <= y
      BY <1>1
    <2>2. \A y \in S : z + 1 <= y
      <3> SUFFICES ASSUME NEW y \in S PROVE z + 1 <= y
        OBVIOUS
      <3>1. PICK w \in S : w < y
        OBVIOUS
      <3> QED BY <2>1, <3>1
    <2> QED BY <2>1, <2>2, <1>1
  <1>5. up \in [D -> E]
    BY <1>4
  <1>6. \A x, y \in D : up[x] = up[y] => x = y
    BY <1>1
  <1>7. Cardinality(E) < Cardinality(D)
    BY <1>3
  <1> HIDE DEF D, E, up
  <1>8. \E x, y \in D : x # y /\ up[x] = up[y]
    BY <1>2, <1>3, <1>5, <1>7, FS_PigeonHole
  <1> QED BY <1>6, <1>8

(* Induction over a finite set: G is the set of its subsets of which the   *)
(* claim is known.  The smallest set outside G would lack one element of   *)
(* itself.                                                                 *)
LEMMA FiniteInduction ==
  ASSUME NEW D, IsFiniteSet(D), NEW G,
         {} \in G, \A T \in SUBSET D, x \in D : T \in G /\ x \notin T => T \cup {x} \in G
  PROVE  D \in G
  <1> SUFFICES ASSUME D \notin G PROVE FALSE
    OBVIOUS
  <1> DEFINE Missing(n) == \E T \in SUBSET D : T \notin G /\ Cardinality(T) = n
             S == {n \in Nat : Missing(n)}
  <1>1. \A T \in SUBSET D : IsFiniteSet(T) /\ Cardinality(T) \in Nat
    BY FS_Subset, FS_CardinalityType
  <1>2. Cardinality(D) \in S
    BY <1>1
  <1>3. PICK n \in S : \A k \in S : n <= k
    BY <1>2, LeastNatural
  <1>4. PICK T \in SUBSET D : T \notin G /\ Cardinality(T) = n
    BY <1>3
  <1>5. PICK x \in T : TRUE
    BY <1>4
  <1>6. Cardinality(T \ {x}) = n - 1 /\ T \ {x} \in SUBSET D /\ n \in Nat
    BY <1>1, <1>4, <1>5, FS_RemoveElement
  <1>7. T \ {x} \in G
    <2> SUFFICES ASSUME T \ {x} \notin G PROVE FALSE
      OBVIOUS
    <2>1. Cardinality(T \ {x}) \in S
      BY <1>1, <1>6
    <2> QED BY <1>3, <1>6, <2>1
  <1>8. (T \ {x}) \cup {x} = T /\ x \in D
    BY <1>4, <1>5
  <1> QED BY <1>4, <1>5, <1>6, <1>7, <1>8

Chosen(T) == CHOOSE x \in T : TRUE

(* f gives the sum of the weights w over each subset of their domain.      *)
Sums(w, f) ==
  f = [T \in SUBSET DOMAIN w |-> IF T = {} THEN 0 ELSE w[Chosen(T)] + f[T \ {Chosen(T)}]]

Total(w) == (CHOOSE f : Sums(w, f))[DOMAIN w]

Weights(w) == IsFiniteSet(DOMAIN w) /\ w \in [DOMAIN w -> Int]

(* The recursion that defines a sum has a solution.                        *)
LEMMA SumsExist == ASSUME NEW w, Weights(w) PROVE \E f : Sums(w, f)
  <1> DEFINE D == DOMAIN w
             Part(E, f) == f = [T \in SUBSET E |-> IF T = {} THEN 0 ELSE w[Chosen(T)] + f[T \ {Chosen(T)}]]
             Small(n) == {T \in SUBSET D : Cardinality(T) <= n}
             Upto(n, f) == f = [T \in Small(n) |-> IF T = {} THEN 0 ELSE w[Chosen(T)] + f[T \ {Chosen(T)}]]
             S == {n \in Nat : ~ \E f : Upto(n, f)}
  <1>1. \A T \in SUBSET D : IsFiniteSet(T) /\ Cardinality(T) \in Nat
    BY FS_Subset, FS_CardinalityType DEF Weights
  <1>2. \A T \in SUBSET D : T # {} => Chosen(T) \in T /\ Cardinality(T \ {Chosen(T)}) = Cardinality(T) - 1
    BY <1>1, FS_RemoveElement DEF Chosen
  <1>3. \A n \in Nat : \E f : Upto(n, f)
    <2> SUFFICES ASSUME S # {} PROVE FALSE
      OBVIOUS
    <2>1. PICK n \in S : \A k \in S : n <= k
      BY LeastNatural
    <2>2. CASE n = 0
      <3>1. \A T \in Small(0) : T = {}
        <4> SUFFICES ASSUME NEW T \in SUBSET D, Cardinality(T) <= 0, T # {} PROVE FALSE
          OBVIOUS
        <4>1. Cardinality(T) \in Nat /\ Cardinality(T) - 1 \in Nat
          BY <1>1, <1>2
        <4> QED BY <4>1
      <3>2. Upto(0, [T \in Small(0) |-> 0])
        BY <3>1
      <3> QED BY <2>1, <2>2, <3>2
    <2>3. CASE n # 0
      <3>1. n - 1 \in Nat /\ n - 1 \notin S /\ n \in Nat
        <4>1. n \in Nat
          BY <2>1
        <4> HIDE DEF S
        <4> QED BY <2>1, <2>3, <4>1
      <3>2. PICK f : Upto(n - 1, f)
        BY <3>1
      <3> DEFINE g == [T \in Small(n) |-> IF T = {} THEN 0 ELSE w[Chosen(T)] + f[T \ {Chosen(T)}]]
      <3>3. \A T \in Small(n - 1) : T \in Small(n) /\ g[T] = f[T]
        <4> SUFFICES ASSUME NEW T \in Small(n - 1) PROVE T \in Small(n) /\ g[T] = f[T]
          OBVIOUS
        <4>1. T \in Small(n)
          BY <1>1, <3>1
        <4>2. f[T] = IF T = {} THEN 0 ELSE w[Chosen(T)] + f[T \ {Chosen(T)}]
          BY <3>2
        <4> QED BY <4>1, <4>2
      <3>4. \A T \in Small(n) : T # {} => T \ {Chosen(T)} \in Small(n - 1)
        BY <1>1, <1>2, <3>1
      <3> HIDE DEF Small
      <3>5. \A T \in Small(n) : g[T] = IF T = {} THEN 0 ELSE w[Chosen(T)] + g[T \ {Chosen(T)}]
        BY <3>3, <3>4
      <3>6. Upto(n, g)
        BY <3>5
      <3> QED BY <2>1, <3>6
    <2> QED BY <2>2, <2>3
  <1>4. Small(Cardinality(D)) = SUBSET D /\ Cardinality(D) \in Nat
    BY <1>1, FS_Subset DEF Weights
  <1> QED BY <1>3, <1>4 DEF Sums

(* It does not depend on the order in which the elements are chosen.       *)
LEMMA SumStep ==
  ASSUME NEW w, Weights(w), NEW f, Sums(w, f)
  PROVE  /\ f[{}] = 0
         /\ \A T \in SUBSET DOMAIN w : f[T] \in Int /\ \A x \in T : f[T] = w[x] + f[T \ {x}]
  <1> DEFINE D == DOMAIN w
             Right(T) == f[T] \in Int /\ \A x \in T : f[T] = w[x] + f[T \ {x}]
             S == {n \in Nat : \E T \in SUBSET D : Cardinality(T) = n /\ ~Right(T)}
  <1>1. \A T \in SUBSET D : /\ IsFiniteSet(T) /\ Cardinality(T) \in Nat
                            /\ \A x \in T : Cardinality(T \ {x}) = Cardinality(T) - 1
    BY FS_Subset, FS_CardinalityType, FS_RemoveElement DEF Weights
  <1>2. \A T \in SUBSET D : f[T] = IF T = {} THEN 0 ELSE w[Chosen(T)] + f[T \ {Chosen(T)}]
    BY DEF Sums
  <1>3. \A T \in SUBSET D : T # {} => Chosen(T) \in T
    BY DEF Chosen
  <1>4. \A x \in D : w[x] \in Int
    BY DEF Weights
  <1>5. S = {}
    <2> SUFFICES ASSUME S # {} PROVE FALSE
      OBVIOUS
    <2>1. PICK n \in S : \A k \in S : n <= k
      BY LeastNatural
    <2>2. PICK T \in SUBSET D : Cardinality(T) = n /\ ~Right(T)
      BY <2>1
    <2>3. \A U \in SUBSET D : Cardinality(U) < n => Right(U)
      <3> SUFFICES ASSUME NEW U \in SUBSET D, Cardinality(U) < n, ~Right(U) PROVE FALSE
        OBVIOUS
      <3>1. Cardinality(U) \in S /\ n \in Nat /\ Cardinality(U) \in Nat
        BY <1>1, <2>1
      <3> HIDE DEF S
      <3> QED BY <2>1, <3>1
    <2>4. T # {}
      <3>1. f[{}] = 0
        BY <1>2
      <3> QED BY <2>2, <3>1
    <2>5. n \in Nat
      BY <2>1
    <2> DEFINE first == Chosen(T)
    <2>6. first \in T /\ f[T] = w[first] + f[T \ {first}]
      BY <1>2, <1>3, <2>4
    <2> HIDE DEF first
    <2>7. Right(T \ {first})
      BY <1>1, <2>2, <2>3, <2>5, <2>6
    <2>8. f[T] \in Int
      BY <1>4, <2>6, <2>7
    <2>9. ASSUME NEW x \in T PROVE f[T] = w[x] + f[T \ {x}]
      <3>1. CASE x = first
        BY <2>6, <3>1
      <3>2. CASE x # first
        <4>1. Right(T \ {x})
          BY <1>1, <2>2, <2>3, <2>5
        <4>2. (T \ {first}) \ {x} = (T \ {x}) \ {first} /\ x \in T \ {first} /\ first \in T \ {x}
          BY <2>6, <3>2
        <4>3. f[T \ {first}] = w[x] + f[(T \ {x}) \ {first}]
          BY <2>7, <4>2
        <4>4. f[T \ {x}] = w[first] + f[(T \ {x}) \ {first}]
          BY <4>1, <4>2
        <4>5. Right((T \ {x}) \ {first})
          <5>1. Cardinality(T \ {x}) = n - 1 /\ T \ {x} \in SUBSET D /\ n - 1 \in Nat
            BY <1>1, <2>2, <2>9
          <5>2. Cardinality((T \ {x}) \ {first}) = n - 2 /\ (T \ {x}) \ {first} \in SUBSET D
            BY <1>1, <4>2, <5>1
          <5>3. n - 2 < n
            BY <2>5
          <5> HIDE DEF Right, D
          <5> QED BY <2>3, <5>2, <5>3
        <4>6. f[(T \ {x}) \ {first}] \in Int /\ w[x] \in Int /\ w[first] \in Int
          BY <1>4, <2>6, <4>5
        <4> HIDE DEF Right
        <4> QED BY <2>6, <4>3, <4>4, <4>6
      <3> QED BY <3>1, <3>2
    <2> QED BY <2>2, <2>8, <2>9
  <1>6. \A T \in SUBSET D : Right(T)
    BY <1>1, <1>5
  <1> QED BY <1>2, <1>6

(* Two sums agree where their weights do.                                  *)
LEMMA SumsAgree ==
  ASSUME NEW w, NEW u, NEW f, NEW g, Weights(w), Weights(u), Sums(w, f), Sums(u, g),
         NEW E, E \subseteq DOMAIN w, E \subseteq DOMAIN u, \A x \in E : w[x] = u[x]
  PROVE  f[E] = g[E]
  <1> DEFINE G == {T \in SUBSET E : f[T] = g[T]}
  <1>1. IsFiniteSet(E)
    BY FS_Subset DEF Weights
  <1>4. f[{}] = 0 /\ \A T \in SUBSET DOMAIN w : f[T] \in Int /\ \A x \in T : f[T] = w[x] + f[T \ {x}]
    BY SumStep
  <1>5. g[{}] = 0 /\ \A T \in SUBSET DOMAIN u : g[T] \in Int /\ \A x \in T : g[T] = u[x] + g[T \ {x}]
    BY SMTT(30), SumStep
  <1>2. {} \in G
    BY <1>4, <1>5
  <1>3. ASSUME NEW T \in SUBSET E, NEW x \in E, T \in G, x \notin T
        PROVE  T \cup {x} \in G
    <2>1. (T \cup {x}) \ {x} = T /\ T \cup {x} \in SUBSET E /\ w[x] = u[x]
      BY <1>3
    <2> DEFINE U == T \cup {x}
    <2>2. f[U] = w[x] + f[U \ {x}]
      <3>1. U \in SUBSET DOMAIN w /\ x \in U
        BY <2>1
      <3> HIDE DEF U
      <3> QED BY <3>1, <1>4, <1>5
    <2>3. g[U] = u[x] + g[U \ {x}]
      <3>1. U \in SUBSET DOMAIN u /\ x \in U
        BY <2>1
      <3> HIDE DEF U
      <3> QED BY <3>1, <1>4, <1>5
    <2> QED BY <1>3, <2>1, <2>2, <2>3
  <1> HIDE DEF G
  <1>6. E \in G
    BY <1>1, <1>2, <1>3, FiniteInduction
  <1> QED BY <1>6 DEF G

(* A total grows by the weight of each element.                            *)
LEMMA TotalStep ==
  ASSUME NEW w, Weights(w)
  PROVE  /\ Total(w) \in Int /\ (DOMAIN w = {} => Total(w) = 0)
         /\ \A x \in DOMAIN w : Total(w) = w[x] + Total([a \in DOMAIN w \ {x} |-> w[a]])
  <1> DEFINE f == CHOOSE f : Sums(w, f)
  <1>1. Sums(w, f) /\ Total(w) = f[DOMAIN w]
    BY SumsExist DEF Total
  <1> HIDE DEF f
  <1>2. f[{}] = 0 /\ \A T \in SUBSET DOMAIN w : f[T] \in Int /\ \A x \in T : f[T] = w[x] + f[T \ {x}]
    BY <1>1, SumStep
  <1>3. ASSUME NEW x \in DOMAIN w PROVE Total(w) = w[x] + Total([a \in DOMAIN w \ {x} |-> w[a]])
    <2> DEFINE u == [a \in DOMAIN w \ {x} |-> w[a]]
               g == CHOOSE g : Sums(u, g)
    <2>1. Weights(u) /\ DOMAIN u = DOMAIN w \ {x} /\ \A a \in DOMAIN u : u[a] = w[a]
      BY FS_Subset DEF Weights
    <2> HIDE DEF u
    <2>2. Sums(u, g) /\ Total(u) = g[DOMAIN u]
      BY <2>1, SumsExist DEF Total
    <2> HIDE DEF g
    <2>3. f[DOMAIN u] = g[DOMAIN u]
      <3>1. PICK E : E = DOMAIN u
        OBVIOUS
      <3>2. E \subseteq DOMAIN w /\ E \subseteq DOMAIN u /\ \A a \in E : w[a] = u[a]
        BY <2>1, <3>1
      <3>3. f[E] = g[E]
        BY <1>1, <2>1, <2>2, <3>2, SumsAgree
      <3> QED BY <3>1, <3>3
    <2>4. Total(w) = w[x] + f[DOMAIN w \ {x}]
      BY <1>1, <1>2
    <2>5. Total(w) = w[x] + Total(u)
      BY <2>1, <2>2, <2>3, <2>4
    <2> QED BY <2>5 DEF u
  <1> QED BY <1>1, <1>2, <1>3

-----------------------------------------------------------------------------
(* Sequences *)

(* What appending, removing the first and replacing the last element do.   *)
LEMMA QueueSteps ==
  ASSUME NEW F, NEW q \in Seq(F)
  PROVE  /\ <<>> \in Seq(F)
         /\ \A g \in F : /\ Append(q, g) \in Seq(F) /\ Len(Append(q, g)) = Len(q) + 1
                         /\ \A i \in 1..Len(q) : Append(q, g)[i] = q[i]
                         /\ Append(q, g)[Len(q) + 1] = g
         /\ \A k \in 0..Len(q) : SubSeq(q, 1, k) \in Seq(F) /\ SubSeq(q, k + 1, Len(q)) \in Seq(F)
         /\ SubSeq(q, 1, Len(q)) = q
  <1>1. <<>> \in Seq(F)
    OBVIOUS
  <1>2. \A g \in F : /\ Append(q, g) \in Seq(F) /\ Len(Append(q, g)) = Len(q) + 1
                     /\ \A i \in 1..Len(q) : Append(q, g)[i] = q[i]
                     /\ Append(q, g)[Len(q) + 1] = g
    OBVIOUS
  <1>3. \A k \in 0..Len(q) : SubSeq(q, 1, k) \in Seq(F) /\ SubSeq(q, k + 1, Len(q)) \in Seq(F)
    OBVIOUS
  <1>4. SubSeq(q, 1, Len(q)) = q
    OBVIOUS
  <1> QED BY <1>1, <1>2, <1>3, <1>4

(* What is at hand of a sequence that is not empty.                        *)
LEMMA QueueParts ==
  ASSUME NEW F, NEW q \in Seq(F), q # <<>>
  PROVE  /\ Len(q) \in Nat \ {0} /\ Len(q) \in DOMAIN q /\ DOMAIN q = 1..Len(q)
         /\ Head(q) = q[1] /\ Head(q) \in F /\ Tail(q) \in Seq(F) /\ q[Len(q)] \in F
         /\ Len(Tail(q)) = Len(q) - 1 /\ \A i \in 1..Len(q) - 1 : Tail(q)[i] = q[i + 1]
         /\ SubSeq(q, 1, 1) = Append(<<>>, Head(q)) /\ SubSeq(q, 2, Len(q)) = Tail(q)
  <1>1. Len(q) \in Nat \ {0} /\ Len(q) \in DOMAIN q /\ DOMAIN q = 1..Len(q)
    OBVIOUS
  <1>2. Head(q) = q[1] /\ Head(q) \in F /\ Tail(q) \in Seq(F) /\ q[Len(q)] \in F
    OBVIOUS
  <1>3. Len(Tail(q)) = Len(q) - 1 /\ \A i \in 1..Len(q) - 1 : Tail(q)[i] = q[i + 1]
    OBVIOUS
  <1>4. SubSeq(q, 1, 1) = Append(<<>>, Head(q))
    <2>1. SubSeq(q, 1, 1) \in Seq(F) /\ Len(SubSeq(q, 1, 1)) = 1 /\ SubSeq(q, 1, 1)[1] = q[1]
      BY <1>1
    <2>2. <<>> \in Seq(F) /\ Head(q) \in F
      BY <1>2
    <2>3. Append(<<>>, Head(q)) \in Seq(F) /\ Len(Append(<<>>, Head(q))) = 1 /\ Append(<<>>, Head(q))[1] = Head(q)
      BY <1>2
    <2> DEFINE a == SubSeq(q, 1, 1)
               z == Append(<<>>, Head(q))
    <2>4. a \in Seq(F) /\ z \in Seq(F) /\ Len(a) = 1 /\ Len(z) = 1 /\ a[1] = z[1]
      BY <1>2, <2>1, <2>3
    <2> HIDE DEF a, z
    <2>5. \A i \in 1..Len(a) : a[i] = z[i]
      BY <2>4
    <2>6. a = z
      BY <2>4, <2>5, SeqEqual
    <2> QED BY <2>6 DEF a, z
  <1>5. SubSeq(q, 2, Len(q)) = Tail(q)
    OBVIOUS
  <1> QED BY <1>1, <1>2, <1>3, <1>4, <1>5

(* Replacing the last element is appending to what is before it.           *)
LEMMA LastReplaced ==
  ASSUME NEW F, NEW q \in Seq(F), q # <<>>, NEW g \in F
  PROVE  /\ SubSeq(q, 1, Len(q) - 1) \in Seq(F)
         /\ q = Append(SubSeq(q, 1, Len(q) - 1), q[Len(q)])
         /\ [q EXCEPT ![Len(q)] = g] = Append(SubSeq(q, 1, Len(q) - 1), g)
         /\ [q EXCEPT ![Len(q)] = g] \in Seq(F) /\ Len([q EXCEPT ![Len(q)] = g]) = Len(q)
  <1>1. SubSeq(q, 1, Len(q) - 1) \in Seq(F)
    OBVIOUS
  <1>2. q = Append(SubSeq(q, 1, Len(q) - 1), q[Len(q)])
    OBVIOUS
  <1>3. [q EXCEPT ![Len(q)] = g] \in Seq(F) /\ Len([q EXCEPT ![Len(q)] = g]) = Len(q)
    OBVIOUS
  <1>4. [q EXCEPT ![Len(q)] = g] = Append(SubSeq(q, 1, Len(q) - 1), g)
    <2>1. PICK p \in Seq(F) : p = SubSeq(q, 1, Len(q) - 1)
      BY <1>1
    <2>2. Len(p) = Len(q) - 1 /\ \A i \in 1..Len(q) - 1 : p[i] = q[i]
      <3>1. Len(q) \in Nat \ {0}
        OBVIOUS
      <3>2. PICK m \in Nat : m = Len(q) - 1
        BY <3>1
      <3>3. Len(SubSeq(q, 1, m)) = m /\ \A i \in 1..m : SubSeq(q, 1, m)[i] = q[i]
        BY <3>2
      <3> QED BY <2>1, <3>2, <3>3
    <2>3. PICK r \in Seq(F) : r = [q EXCEPT ![Len(q)] = g]
      BY <1>3
    <2>4. Len(r) = Len(q) /\ r[Len(q)] = g /\ \A i \in 1..Len(q) - 1 : r[i] = q[i]
      BY <2>3
    <2>5. /\ Append(p, g) \in Seq(F) /\ Len(Append(p, g)) = Len(q) /\ Append(p, g)[Len(q)] = g
          /\ \A i \in 1..Len(q) - 1 : Append(p, g)[i] = p[i]
      BY <2>2, QueueSteps
    <2>6. \A i \in 1..Len(q) : r[i] = Append(p, g)[i]
      <3> TAKE i \in 1..Len(q)
      <3>1. i = Len(q) \/ i \in 1..Len(q) - 1
        OBVIOUS
      <3> QED BY <3>1, <2>2, <2>4, <2>5
    <2>7. r = Append(p, g)
      BY <2>4, <2>5, <2>6, SeqEqual
    <2> QED BY <2>1, <2>3, <2>7
  <1> QED BY <1>1, <1>2, <1>3, <1>4

(* The last frames of a queue, in their order.                             *)
LEMMA LastFrames ==
  ASSUME NEW F, NEW q \in Seq(F), NEW k \in 0..Len(q)
  PROVE  /\ SubSeq(q, k + 1, Len(q)) \in Seq(F)
         /\ Len(SubSeq(q, k + 1, Len(q))) = Len(q) - k
         /\ \A i \in 1..Len(q) - k : SubSeq(q, k + 1, Len(q))[i] = q[k + i] /\ k + i \in DOMAIN q
  OBVIOUS

-----------------------------------------------------------------------------
(* The bytes of a queue *)

(* The sum over the positions of a queue is such a total.                  *)
LEMMA BytesAreTotal ==
  ASSUME NEW q
  PROVE  BytesOf(q) = Total([i \in DOMAIN q |-> SizeOf(q[i])])
  <1> DEFINE S == DOMAIN q
             w == [i \in DOMAIN q |-> SizeOf(q[i])]
             Given(f) == f = [T \in SUBSET S |-> IF T = {} THEN 0
                               ELSE SizeOf(q[CHOOSE x \in T : TRUE]) + f[T \ {CHOOSE x \in T : TRUE}]]
  <1>1. BytesOf(q) = (CHOOSE f : Given(f))[S]
    BY DEF BytesOf, MapThenSumSet, MapThenFoldSet
  <1>2. ASSUME NEW f PROVE Given(f) <=> Sums(w, f)
    <2>1. \A T \in SUBSET S : T # {} => w[Chosen(T)] = SizeOf(q[Chosen(T)])
      BY DEF Chosen
    <2>2. [T \in SUBSET S |-> IF T = {} THEN 0 ELSE SizeOf(q[Chosen(T)]) + f[T \ {Chosen(T)}]]
          = [T \in SUBSET S |-> IF T = {} THEN 0 ELSE w[Chosen(T)] + f[T \ {Chosen(T)}]]
      BY <2>1
    <2>3. DOMAIN w = S
      OBVIOUS
    <2> HIDE DEF w, S
    <2> QED BY <2>2, <2>3 DEF Chosen, Sums
  <1>3. DOMAIN w = S
    OBVIOUS
  <1> HIDE DEF Given, w, S
  <1>4. (CHOOSE f : Given(f)) = (CHOOSE f : Sums(w, f))
    BY <1>2
  <1>5. BytesOf(q) = Total(w)
    BY <1>1, <1>3, <1>4 DEF Total
  <1> QED BY <1>5 DEF w

(* Every frame of a queue has a size.                                      *)
LEMMA SizesAreNatural ==
  ASSUME NEW f, f.type \in FrameTypes PROVE SizeOf(f) \in Nat \ {0}
  BY QueueAssumption DEF SizeOf

(* Sizes are counted frame by frame.                                       *)
LEMMA BytesOfAppend ==
  ASSUME NEW q \in Seq(QueuedFrames)
  PROVE  /\ BytesOf(q) \in Int /\ (q = <<>> => BytesOf(q) = 0)
         /\ \A f \in QueuedFrames : BytesOf(Append(q, f)) = BytesOf(q) + SizeOf(f)
  <1>1. ASSUME NEW s \in Seq(QueuedFrames)
        PROVE  Weights([i \in DOMAIN s |-> SizeOf(s[i])])
    <2>1. \A i \in DOMAIN s : SizeOf(s[i]) \in Int
      <3> TAKE i \in DOMAIN s
      <3>1. PICK f \in QueuedFrames : f = s[i]
        OBVIOUS
      <3> QED BY <3>1, SizesAreNatural DEF QueuedFrames
    <2>2. IsFiniteSet(DOMAIN s)
      BY FS_Interval
    <2> QED BY <2>1, <2>2 DEF Weights
  <1>2. BytesOf(q) \in Int /\ (q = <<>> => BytesOf(q) = 0)
    <2> DEFINE w == [i \in DOMAIN q |-> SizeOf(q[i])]
    <2>1. Weights(w) /\ BytesOf(q) = Total(w) /\ (q = <<>> => DOMAIN w = {})
      BY <1>1, BytesAreTotal
    <2> HIDE DEF w
    <2> QED BY <2>1, TotalStep
  <1>3. ASSUME NEW f \in QueuedFrames PROVE BytesOf(Append(q, f)) = BytesOf(q) + SizeOf(f)
    <2> DEFINE s == Append(q, f)
               n == Len(q) + 1
               w == [i \in DOMAIN s |-> SizeOf(s[i])]
               u == [i \in DOMAIN q |-> SizeOf(q[i])]
    <2>1. s \in Seq(QueuedFrames) /\ n \in DOMAIN s /\ s[n] = f /\ DOMAIN s \ {n} = DOMAIN q
          /\ \A i \in DOMAIN q : s[i] = q[i]
      <3>1. Len(q) \in Nat /\ DOMAIN q = 1..Len(q)
        OBVIOUS
      <3>2. s \in Seq(QueuedFrames) /\ DOMAIN s = 1..n /\ s[n] = f
        BY <3>1
      <3>3. \A i \in DOMAIN q : s[i] = q[i]
        OBVIOUS
      <3> HIDE DEF s
      <3> QED BY <3>1, <3>2, <3>3
    <2>2. Weights(w) /\ BytesOf(s) = Total(w) /\ BytesOf(q) = Total(u)
      BY <1>1, <2>1, BytesAreTotal
    <2>3. DOMAIN w = DOMAIN s /\ w[n] = SizeOf(f) /\ u = [i \in DOMAIN s \ {n} |-> w[i]]
      BY <2>1
    <2> HIDE DEF w, u, s, n
    <2>4. Total(w) = w[n] + Total([i \in DOMAIN w \ {n} |-> w[i]])
      BY <2>1, <2>2, <2>3, TotalStep
    <2>5. SizeOf(f) \in Int
      BY SizesAreNatural DEF QueuedFrames
    <2>6. BytesOf(s) = BytesOf(q) + SizeOf(f)
      BY <1>2, <2>2, <2>3, <2>4, <2>5
    <2> QED BY <2>6 DEF s
  <1> QED BY <1>2, <1>3

(* A queue is as large as its two parts together.                          *)
LEMMA BytesOfParts ==
  ASSUME NEW q \in Seq(QueuedFrames), NEW k \in 0..Len(q)
  PROVE  BytesOf(q) = BytesOf(SubSeq(q, 1, k)) + BytesOf(SubSeq(q, k + 1, Len(q)))
  <1> DEFINE Splits(n) == BytesOf(SubSeq(q, 1, n)) = BytesOf(SubSeq(q, 1, k)) + BytesOf(SubSeq(q, k + 1, n))
             S == {n \in k..Len(q) : ~Splits(n)}
  <1>1. \A n \in k..Len(q) : SubSeq(q, 1, n) \in Seq(QueuedFrames) /\ SubSeq(q, k + 1, n) \in Seq(QueuedFrames)
    OBVIOUS
  <1>2. S = {}
    <2> SUFFICES ASSUME S # {} PROVE FALSE
      OBVIOUS
    <2>1. S \in SUBSET Nat
      OBVIOUS
    <2>2. PICK n \in S : \A m \in S : n <= m
      BY <2>1, LeastNatural
    <2>3. CASE n = k
      <3>1. SubSeq(q, k + 1, k) = <<>>
        OBVIOUS
      <3>2. BytesOf(SubSeq(q, k + 1, k)) = 0 /\ BytesOf(SubSeq(q, 1, k)) \in Int
        <4>1. k \in k..Len(q)
          OBVIOUS
        <4>2. PICK r, p \in Seq(QueuedFrames) : r = SubSeq(q, k + 1, k) /\ p = SubSeq(q, 1, k)
          BY <1>1, <4>1
        <4> QED BY <3>1, <4>2, BytesOfAppend
      <3> QED BY <2>2, <2>3, <3>2
    <2>4. CASE n # k
      <3> DEFINE p == SubSeq(q, 1, n - 1)
                 r == SubSeq(q, k + 1, n - 1)
                 f == q[n]
      <3>1. n - 1 \in k..Len(q) /\ n \in 1..Len(q) /\ f \in QueuedFrames
        BY <2>2, <2>4
      <3>2. p \in Seq(QueuedFrames) /\ r \in Seq(QueuedFrames)
        BY <3>1, <1>1
      <3>3. SubSeq(q, 1, n) = Append(p, f) /\ SubSeq(q, k + 1, n) = Append(r, f)
        BY <3>1
      <3>4. Splits(n - 1)
        <4> SUFFICES ASSUME ~Splits(n - 1) PROVE FALSE
          OBVIOUS
        <4> HIDE DEF Splits
        <4> QED BY <2>2, <3>1
      <3>5. SizeOf(f) \in Int /\ BytesOf(SubSeq(q, 1, k)) \in Int
        <4>1. k \in k..Len(q)
          OBVIOUS
        <4>2. PICK g \in Seq(QueuedFrames) : g = SubSeq(q, 1, k)
          BY <1>1, <4>1
        <4>3. PICK h \in QueuedFrames : h = f
          BY <3>1
        <4>4. SizeOf(h) \in Int
          BY SizesAreNatural DEF QueuedFrames
        <4>5. BytesOf(g) \in Int
          BY BytesOfAppend
        <4> QED BY <4>2, <4>3, <4>4, <4>5
      <3> HIDE DEF p, r, f
      <3>6. /\ BytesOf(p) \in Int /\ BytesOf(r) \in Int
            /\ BytesOf(Append(p, f)) = BytesOf(p) + SizeOf(f)
            /\ BytesOf(Append(r, f)) = BytesOf(r) + SizeOf(f)
        BY <3>1, <3>2, BytesOfAppend
      <3>7. BytesOf(p) = BytesOf(SubSeq(q, 1, k)) + BytesOf(r)
        BY <3>4 DEF p, r
      <3>8. Splits(n)
        <4> PICK a, d, e, z \in Int : a = BytesOf(SubSeq(q, 1, k)) /\ d = BytesOf(r) /\ e = SizeOf(f) /\ z = BytesOf(p)
          BY <3>5, <3>6
        <4>1. z + e = a + (d + e)
          BY <3>7
        <4>2. BytesOf(SubSeq(q, 1, n)) = z + e /\ BytesOf(SubSeq(q, k + 1, n)) = d + e
          BY <3>3, <3>6
        <4> QED BY <4>1, <4>2
      <3> QED BY <2>2, <3>8
    <2> QED BY <2>3, <2>4
  <1>3. Splits(Len(q))
    BY <1>2
  <1>4. SubSeq(q, 1, Len(q)) = q
    OBVIOUS
  <1> QED BY <1>3, <1>4

-----------------------------------------------------------------------------
(* The queue of a client *)

(* queueLocked replaces the last frame: its size goes, the new one comes.  *)
LEMMA BytesOfReplaced ==
  ASSUME NEW q \in Seq(QueuedFrames), q # <<>>, NEW g \in QueuedFrames
  PROVE  /\ [q EXCEPT ![Len(q)] = g] \in Seq(QueuedFrames)
         /\ BytesOf([q EXCEPT ![Len(q)] = g]) = BytesOf(q) + SizeOf(g) - SizeOf(q[Len(q)])
  <1>1. PICK p \in Seq(QueuedFrames) : p = SubSeq(q, 1, Len(q) - 1)
    BY LastReplaced
  <1>2. PICK f \in QueuedFrames : f = q[Len(q)]
    BY QueueParts
  <1>3. q = Append(p, f) /\ [q EXCEPT ![Len(q)] = g] = Append(p, g)
    BY <1>1, <1>2, LastReplaced
  <1>4. /\ BytesOf(p) \in Int
        /\ BytesOf(Append(p, f)) = BytesOf(p) + SizeOf(f) /\ BytesOf(Append(p, g)) = BytesOf(p) + SizeOf(g)
    BY BytesOfAppend
  <1>5. SizeOf(f) \in Int
    BY SizesAreNatural DEF QueuedFrames
  <1>6. SizeOf(g) \in Int
    BY SizesAreNatural DEF QueuedFrames
  <1>7. BytesOf(Append(p, g)) = BytesOf(Append(p, f)) + SizeOf(g) - SizeOf(f)
    BY <1>4, <1>5, <1>6
  <1>8. [q EXCEPT ![Len(q)] = g] \in Seq(QueuedFrames)
    BY LastReplaced
  <1> QED BY <1>2, <1>3, <1>7, <1>8

(* removeFirstLocked takes the size of the first frame.                    *)
LEMMA BytesOfTail ==
  ASSUME NEW q \in Seq(QueuedFrames), q # <<>>
  PROVE  BytesOf(Tail(q)) = BytesOf(q) - SizeOf(Head(q))
  <1>1. PICK f \in QueuedFrames : f = Head(q)
    BY QueueParts
  <1>2. SubSeq(q, 1, 1) = Append(<<>>, f) /\ SubSeq(q, 2, Len(q)) = Tail(q) /\ 1 \in 0..Len(q)
    BY <1>1, QueueParts
  <1>3. BytesOf(q) = BytesOf(SubSeq(q, 1, 1)) + BytesOf(SubSeq(q, 1 + 1, Len(q)))
    BY <1>2, BytesOfParts
  <1>4. 1 + 1 = 2
    OBVIOUS
  <1>5. BytesOf(q) = BytesOf(Append(<<>>, f)) + BytesOf(Tail(q))
    BY <1>2, <1>3, <1>4
  <1>6. PICK e \in Seq(QueuedFrames) : e = <<>>
    BY QueueSteps
  <1>7. BytesOf(Append(<<>>, f)) = 0 + SizeOf(f)
    BY <1>6, BytesOfAppend
  <1>8. SizeOf(f) \in Int
    BY SizesAreNatural DEF QueuedFrames
  <1>9. PICK t \in Seq(QueuedFrames) : t = Tail(q)
    BY QueueParts
  <1>10. BytesOf(t) \in Int
    BY BytesOfAppend
  <1> QED BY <1>1, <1>5, <1>7, <1>8, <1>9, <1>10

(* Dropping every frame makes room for any frame that can be sent, so the  *)
(* number of frames to drop exists, and dropping them is enough.           *)
LEMMA ExcessMakesRoom ==
  ASSUME NEW w \in Clients, BytesExact(w), NEW f, f.type \in FrameTypes, SizeOf(f) <= QueueBytes
  PROVE  /\ Excess(w, f) \in 0..Len(w.pending)
         /\ Len(w.pending) - Excess(w, f) < QueueLimit
         /\ w.bytes - BytesOf(SubSeq(w.pending, 1, Excess(w, f))) + SizeOf(f) <= QueueBytes
  <1>1. PICK q \in Seq(QueuedFrames) : q = w.pending
    BY DEF Clients
  <1> DEFINE S == {k \in 0..Len(q) : /\ Len(q) - k < QueueLimit
                                     /\ w.bytes - BytesOf(SubSeq(q, 1, k)) + SizeOf(f) <= QueueBytes}
  <1>2. SubSeq(q, 1, Len(q)) = q /\ Len(q) \in 0..Len(q) /\ Len(q) - Len(q) = 0
    BY QueueSteps
  <1>3. BytesOf(q) \in Int /\ w.bytes = BytesOf(q)
    BY <1>1, BytesOfAppend DEF BytesExact
  <1>4. SizeOf(f) \in Int
    BY SizesAreNatural
  <1>5. w.bytes - BytesOf(SubSeq(q, 1, Len(q))) + SizeOf(f) <= QueueBytes
    <2>1. w.bytes - w.bytes + SizeOf(f) <= QueueBytes
      BY <1>3, <1>4
    <2> QED BY <1>2, <1>3, <2>1
  <1>6. Len(q) \in S
    BY <1>2, <1>5, QueueAssumption
  <1>7. S \in SUBSET Nat
    OBVIOUS
  <1> HIDE DEF S
  <1>8. \E k \in S : \A j \in S : k <= j
    BY <1>6, <1>7, LeastNatural
  <1>9. Min(S) \in S
    BY <1>8 DEF Min
  <1>10. Excess(w, f) = Min(S)
    BY <1>1 DEF Excess, S
  <1> QED BY <1>1, <1>9, <1>10 DEF S

(* The two ways in which queueLocked takes a frame.                        *)
Superseded(w, f, r) ==
  LET n == Len(w.pending) IN
  /\ IsSnapshot(f) /\ w.pending # <<>> /\ w.pending[n].type = f.type /\ w.pending[n].seq # 1
  /\ r.pending = [w.pending EXCEPT ![n] = [f EXCEPT !.seq = w.pending[n].seq]]
  /\ r.seq = w.seq /\ r.subs = w.subs /\ r.wake = w.wake /\ r.waiting = w.waiting /\ ~r.closed

Enqueued(w, f, r) ==
  /\ \E k \in 0..Len(w.pending) :
       /\ k > 0 => ~HoldsBaseline(w)
       /\ r.pending = Append(SubSeq(w.pending, k + 1, Len(w.pending)), [f EXCEPT !.seq = w.seq + 1])
  /\ r.seq = w.seq + 1 /\ r.subs = w.subs /\ r.wake /\ ~r.closed

Refuses(w, r) == r.closed /\ r.pending = <<>> /\ r.subs = w.subs

NewFrames == [type : FrameTypes, seq : {0}, version : Nat]

(* signalClose leaves a client that has nothing queued.                    *)
LEMMA SignalCloseSound ==
  ASSUME NEW w \in Clients
  PROVE  /\ SignalClose(w) \in Clients /\ ClientSound(SignalClose(w))
         /\ Refuses(w, SignalClose(w))
  <1>1. PICK e \in Seq(QueuedFrames) : e = <<>>
    <2>1. <<>> \in Seq(QueuedFrames)
      BY EmptySeq
    <2> QED BY <2>1
  <1>2. SignalClose(w) = [w EXCEPT !.closed = TRUE, !.pending = e, !.bytes = 0]
    BY <1>1 DEF SignalClose
  <1>3. SignalClose(w) \in Clients
    <2>1. PICK Q : Q = Seq(QueuedFrames)
      OBVIOUS
    <2>2. Clients = [subs : SUBSET Channels, seq : Nat, pending : Q, bytes : Int,
                     wake : BOOLEAN, waiting : BOOLEAN, closed : BOOLEAN] /\ e \in Q
      BY <2>1 DEF Clients
    <2>3. PICK t \in BOOLEAN : t = TRUE
      OBVIOUS
    <2>4. PICK z \in Int : z = 0
      OBVIOUS
    <2>5. [w EXCEPT !.closed = t, !.pending = e, !.bytes = z] \in Clients
      BY <2>2
    <2> QED BY <1>2, <2>3, <2>4, <2>5
  <1>4. SignalClose(w).closed /\ SignalClose(w).pending = <<>> /\ SignalClose(w).bytes = 0
        /\ SignalClose(w).subs = w.subs
    BY <1>1, <1>2 DEF Clients
  <1>5. BytesOf(e) = 0
    BY <1>1, BytesOfAppend
  <1>6. BytesExact(SignalClose(w))
    <2>1. 0 <= QueueBytes /\ 0 <= QueueLimit
      BY QueueAssumption
    <2> QED BY <1>1, <1>4, <1>5, <2>1 DEF BytesExact
  <1>7. Sequenced(SignalClose(w))
    BY <1>4 DEF Sequenced
  <1> QED BY <1>3, <1>4, <1>6, <1>7 DEF ClientSound, Refuses

(* A snapshot takes the place of the last frame.                           *)
LEMMA SupersedeSound ==
  ASSUME NEW w \in Clients, ClientSound(w), ~w.closed, NEW f \in NewFrames, Supersedes(w, f)
  PROVE  Supersede(w, f) \in Clients /\ ClientSound(Supersede(w, f)) /\ Superseded(w, f, Supersede(w, f))
  <1>1. PICK q \in Seq(QueuedFrames), k \in Int : q = w.pending /\ k = w.bytes
    BY DEF Clients
  <1>2. q # <<>> /\ Len(q) \in DOMAIN q /\ Len(q) \in Nat \ {0}
    BY <1>1, QueueParts DEF Supersedes
  <1>3. PICK last \in QueuedFrames : last = q[Len(q)]
    BY <1>2, QueueParts
  <1>4. PICK g \in QueuedFrames : g = [f EXCEPT !.seq = last.seq]
    BY DEF QueuedFrames, NewFrames
  <1>5. g.type = f.type /\ g.seq = last.seq /\ g.version = f.version
    BY <1>4 DEF NewFrames
  <1>6. SizeOf(g) = SizeOf(f) /\ SizeOf(g) \in Int /\ SizeOf(last) \in Int
    <2>1. SizeOf(g) \in Int
      BY SizesAreNatural DEF QueuedFrames
    <2>2. SizeOf(last) \in Int
      BY SizesAreNatural DEF QueuedFrames
    <2> QED BY <1>5, <2>1, <2>2 DEF SizeOf
  <1>7. PICK p \in Seq(QueuedFrames) : p = [q EXCEPT ![Len(q)] = g]
    BY <1>2, BytesOfReplaced
  <1>8. BytesOf(p) = BytesOf(q) + SizeOf(g) - SizeOf(last)
    BY <1>2, <1>3, <1>7, BytesOfReplaced
  <1>9. PICK m \in Int : m = k + SizeOf(f) - SizeOf(last)
    BY <1>6
  <1> DEFINE r == Supersede(w, f)
  <1>10. r = [w EXCEPT !.pending = p, !.bytes = m]
    BY <1>1, <1>3, <1>4, <1>7, <1>9 DEF Supersede, Clients
  <1>11. r \in Clients
    BY <1>10 DEF Clients
  <1>12. /\ r.pending = p /\ r.bytes = m /\ r.seq = w.seq /\ r.subs = w.subs /\ r.wake = w.wake
         /\ r.waiting = w.waiting /\ ~r.closed
    BY <1>10 DEF Clients
  <1> HIDE DEF r
  <1>13. BytesExact(r)
    <2>1. k = BytesOf(q) /\ Len(q) <= QueueLimit
      BY <1>1 DEF ClientSound, BytesExact
    <2>2. m = BytesOf(p)
      BY <1>6, <1>8, <1>9, <2>1
    <2>3. m <= QueueBytes
      <3>1. k - SizeOf(last) + SizeOf(f) <= QueueBytes
        BY <1>1, <1>3 DEF Supersedes
      <3> QED BY <1>6, <1>9, <3>1, QueueAssumption
    <2>4. Len(p) = Len(q)
      BY <1>7
    <2> QED BY <1>12, <2>1, <2>2, <2>3, <2>4 DEF BytesExact
  <1>14. Sequenced(r)
    <2>1. DOMAIN p = DOMAIN q /\ \A i \in DOMAIN q : p[i].seq = q[i].seq
      BY <1>3, <1>5, <1>7
    <2>2. Len(p) = Len(q) /\ p # <<>>
      BY <1>2, <1>7
    <2> HIDE DEF QueuedFrames
    <2> QED BY <1>1, <1>2, <1>12, <2>1, <2>2 DEF ClientSound, Sequenced
  <1>15. r.waiting /\ r.pending # <<>> => r.wake
    BY <1>1, <1>2, <1>12 DEF ClientSound
  <1>16. Superseded(w, f, r)
    BY <1>1, <1>3, <1>4, <1>7, <1>12 DEF Superseded, Supersedes
  <1>17. ClientSound(r)
    BY <1>12, <1>13, <1>14, <1>15 DEF ClientSound
  <1> QED BY <1>11, <1>16, <1>17 DEF r

(* A frame is appended, after the oldest ones have been dropped.           *)
LEMMA EnqueueSound ==
  ASSUME NEW w \in Clients, ClientSound(w), ~w.closed, NEW f \in NewFrames, SizeOf(f) <= QueueBytes,
         Excess(w, f) > 0 => ~HoldsBaseline(w)
  PROVE  Enqueue(w, f) \in Clients /\ ClientSound(Enqueue(w, f)) /\ Enqueued(w, f, Enqueue(w, f))
  <1>1. PICK q \in Seq(QueuedFrames), a \in Int, s \in Nat : q = w.pending /\ a = w.bytes /\ s = w.seq
    BY DEF Clients
  <1>2. f.type \in FrameTypes
    BY DEF NewFrames
  <1>3. PICK k \in 0..Len(q) :
          /\ k = Excess(w, f) /\ Len(q) - k < QueueLimit
          /\ a - BytesOf(SubSeq(q, 1, k)) + SizeOf(f) <= QueueBytes
    BY <1>1, <1>2, ExcessMakesRoom DEF ClientSound
  <1>4. PICK u \in Seq(QueuedFrames) : u = SubSeq(q, k + 1, Len(q))
    BY LastFrames
  <1>5. Len(u) = Len(q) - k /\ \A i \in 1..Len(q) - k : u[i] = q[k + i] /\ k + i \in DOMAIN q
    BY <1>4, LastFrames
  <1>6. PICK g \in QueuedFrames : g = [f EXCEPT !.seq = s + 1]
    <2>1. [f EXCEPT !.seq = s + 1] \in QueuedFrames
      <3>1. PICK t : t = s + 1
        OBVIOUS
      <3>2. t \in Nat \ {0}
        BY <1>1, <3>1
      <3>3. [f EXCEPT !.seq = t] \in QueuedFrames
        BY <3>2 DEF QueuedFrames, NewFrames
      <3> QED BY <3>1, <3>3
    <2> QED BY <2>1
  <1>7. g.type = f.type /\ g.seq = s + 1 /\ g.version = f.version
    BY <1>6 DEF NewFrames
  <1>8. SizeOf(g) = SizeOf(f) /\ SizeOf(g) \in Int
    <2>1. SizeOf(g) \in Int
      BY SizesAreNatural DEF QueuedFrames
    <2> QED BY <1>7, <2>1 DEF SizeOf
  <1>9. PICK p \in Seq(QueuedFrames) : p = Append(u, g)
    BY QueueSteps
  <1>10. BytesOf(p) = BytesOf(u) + SizeOf(g) /\ BytesOf(u) \in Int /\ BytesOf(q) \in Int
    BY <1>9, BytesOfAppend
  <1>11. PICK z \in Seq(QueuedFrames) : z = SubSeq(q, 1, k)
    BY QueueSteps
  <1>12. BytesOf(q) = BytesOf(z) + BytesOf(u) /\ BytesOf(z) \in Int
    BY <1>4, <1>11, BytesOfParts, BytesOfAppend
  <1>13. PICK m \in Int : m = a - BytesOf(z) + SizeOf(f)
    BY <1>8, <1>12
  <1> DEFINE r == Enqueue(w, f)
  <1>14. r = [w EXCEPT !.pending = p, !.bytes = m, !.seq = s + 1, !.wake = TRUE]
    BY <1>1, <1>3, <1>4, <1>6, <1>9, <1>11, <1>13 DEF Enqueue, DropOldest, Clients
  <1>15. r \in Clients
    <2>1. PICK Q : Q = Seq(QueuedFrames)
      OBVIOUS
    <2>2. Clients = [subs : SUBSET Channels, seq : Nat, pending : Q, bytes : Int,
                     wake : BOOLEAN, waiting : BOOLEAN, closed : BOOLEAN] /\ p \in Q /\ s + 1 \in Nat
      BY <2>1 DEF Clients
    <2> QED BY <1>14, <2>2
  <1>16. /\ r.pending = p /\ r.bytes = m /\ r.seq = s + 1 /\ r.subs = w.subs /\ r.wake /\ ~r.closed
    BY <1>14 DEF Clients
  <1> HIDE DEF r
  <1>17. BytesExact(r)
    <2>1. a = BytesOf(q)
      BY <1>1 DEF ClientSound, BytesExact
    <2>2. m = BytesOf(p)
      BY <1>8, <1>10, <1>12, <1>13, <2>1
    <2>3. m <= QueueBytes
      BY <1>3, <1>11, <1>13
    <2>4. Len(p) = Len(u) + 1 /\ Len(u) \in Nat /\ Len(q) \in Nat /\ k \in Int
      BY <1>9
    <2>5. Len(p) <= QueueLimit
      BY <1>3, <1>5, <2>4, QueueAssumption
    <2> QED BY <1>16, <2>2, <2>3, <2>5 DEF BytesExact
  <1>18. Sequenced(r)
    <2>1. /\ \A i, j \in DOMAIN q : i < j => q[i].seq < q[j].seq
          /\ q # <<>> => q[Len(q)].seq = s
      BY <1>1 DEF ClientSound, Sequenced
    <2>2. \A i \in DOMAIN q : q[i].seq \in Nat /\ q[i].seq <= s
      <3> TAKE i \in DOMAIN q
      <3>1. q[i] \in QueuedFrames /\ Len(q) \in DOMAIN q /\ (i = Len(q) \/ i < Len(q))
        OBVIOUS
      <3>2. q[i].seq \in Nat
        BY <3>1 DEF QueuedFrames
      <3>3. q[Len(q)].seq = s
        BY <2>1
      <3>4. i = Len(q) \/ q[i].seq < q[Len(q)].seq
        BY <2>1, <3>1
      <3> QED BY <3>2, <3>3, <3>4
    <2>3. DOMAIN p = 1..Len(u) + 1 /\ p[Len(u) + 1] = g /\ \A i \in 1..Len(u) : p[i] = u[i]
      BY <1>9
    <2>4. Len(p) = Len(u) + 1 /\ Len(u) \in Nat /\ Len(q) \in Nat /\ k \in Nat
      BY <1>9
    <2>5. ASSUME NEW i \in DOMAIN p, NEW j \in DOMAIN p, i < j PROVE p[i].seq < p[j].seq
      <3>1. i \in 1..Len(u) /\ p[i] = q[k + i] /\ k + i \in DOMAIN q
        <4>1. i \in 1..Len(u)
          BY <2>3, <2>4, <2>5
        <4>2. i \in 1..Len(q) - k
          BY <1>5, <4>1
        <4> QED BY <1>5, <2>3, <4>1, <4>2
      <3>2. CASE j = Len(u) + 1
        BY <1>7, <2>2, <2>3, <3>1, <3>2
      <3>3. CASE j # Len(u) + 1
        <4>1. j \in 1..Len(u) /\ p[j] = q[k + j] /\ k + j \in DOMAIN q /\ k + i < k + j
          BY <1>5, <2>3, <2>4, <2>5, <3>3
        <4> QED BY <2>1, <3>1, <4>1
      <3> QED BY <3>2, <3>3
    <2>6. p[Len(p)].seq = r.seq
      BY <1>7, <1>16, <2>3, <2>4
    <2> QED BY <1>16, <2>5, <2>6 DEF Sequenced
  <1>19. ClientSound(r)
    BY <1>16, <1>17, <1>18 DEF ClientSound
  <1>20. Enqueued(w, f, r)
    BY <1>1, <1>3, <1>4, <1>6, <1>9, <1>16 DEF Enqueued
  <1> QED BY <1>15, <1>19, <1>20 DEF r

(* queueLocked refuses a frame, lets it supersede the last or appends it.  *)
LEMMA QueueLockedSound ==
  ASSUME NEW w \in Clients, ClientSound(w), NEW f \in NewFrames, NEW r, r = QueueLocked(w, f)
  PROVE  /\ r \in Clients /\ ClientSound(r)
         /\ (w.closed /\ r = w) \/ Refuses(w, r) \/ Superseded(w, f, r) \/ Enqueued(w, f, r)
  <1>1. CASE w.closed
    BY <1>1 DEF QueueLocked
  <1>2. CASE ~w.closed /\ SizeOf(f) > QueueBytes
    BY <1>2, SignalCloseSound DEF QueueLocked
  <1>3. CASE ~w.closed /\ ~(SizeOf(f) > QueueBytes) /\ Supersedes(w, f)
    BY <1>3, SupersedeSound DEF QueueLocked
  <1>4. CASE ~w.closed /\ ~(SizeOf(f) > QueueBytes) /\ ~Supersedes(w, f)
    <2>1. r = Enqueue(w, f)
      BY <1>4 DEF QueueLocked
    <2>2. CASE Excess(w, f) > 0 /\ HoldsBaseline(w)
      BY <2>1, <2>2, SignalCloseSound DEF Enqueue
    <2>3. CASE ~(Excess(w, f) > 0 /\ HoldsBaseline(w))
      <3>1. SizeOf(f) <= QueueBytes
        <4>1. SizeOf(f) \in Int
          BY SizesAreNatural DEF NewFrames
        <4> QED BY <1>4, <4>1, QueueAssumption
      <3> QED BY <1>4, <2>1, <2>3, <3>1, EnqueueSound
    <2> QED BY <2>2, <2>3
  <1> QED BY <1>1, <1>2, <1>3, <1>4

-----------------------------------------------------------------------------
(* The frames on the way, as a set *)

(* Frames have numbers up to t, one each, and the latest one is there.     *)
Numbered(C, t) ==
  /\ C \subseteq QueuedFrames /\ t \in Nat
  /\ \A f \in C : f.seq \in 1..t
  /\ \A f, g \in C : f.seq = g.seq => f = g
  /\ C # {} => \E f \in C : f.seq = t

Renumbered(f, s) == [f EXCEPT !.seq = s]

(* A snapshot takes the place of the latest frame.                         *)
Replaces(C, t, f, C2) ==
  \E g \in C : /\ g.seq = t /\ t # 1 /\ g.type = f.type /\ IsSnapshot(f)
               /\ C2 = (C \ {g}) \cup {Renumbered(f, t)}

(* A frame is the latest; others may have gone, but not the baseline that  *)
(* opens a connection.                                                     *)
Extends(C, t, f, C2) ==
  /\ Renumbered(f, t + 1) \in C2 /\ C2 \subseteq C \cup {Renumbered(f, t + 1)}
  /\ \A g \in C : g.seq = 1 /\ g.type = "state.snapshot" => g \in C2

(* A frame gets its number from queueLocked.                               *)
LEMMA RenumberedSays ==
  ASSUME NEW f \in NewFrames, NEW s \in Nat \ {0}
  PROVE  /\ Renumbered(f, s) \in QueuedFrames
         /\ Renumbered(f, s).seq = s /\ Renumbered(f, s).type = f.type /\ Renumbered(f, s).version = f.version
  BY DEF Renumbered, NewFrames, QueuedFrames

(* The members of a queue.                                                 *)
LEMMA Members ==
  ASSUME NEW F, NEW q \in Seq(F)
  PROVE  /\ Range(q) \subseteq F /\ (Range(q) = {} <=> q = <<>>)
         /\ \A f : f \in Range(q) <=> \E i \in 1..Len(q) : f = q[i]
         /\ \A g \in F : Range(Append(q, g)) = Range(q) \cup {g}
         /\ q # <<>> => Range(q) = {Head(q)} \cup Range(Tail(q))
  <1>1. \A f : f \in Range(q) <=> \E i \in 1..Len(q) : f = q[i]
    BY DEF Range
  <1>2. \A i \in 1..Len(q) : q[i] \in F
    OBVIOUS
  <1>3. Range(q) \subseteq F
    BY <1>1, <1>2
  <1>4. Range(q) = {} <=> q = <<>>
    <2>1. q # <<>> => 1 \in 1..Len(q)
      BY QueueParts
    <2>2. q = <<>> => 1..Len(q) = {}
      OBVIOUS
    <2> QED BY <1>1, <2>1, <2>2
  <1>5. ASSUME NEW g \in F PROVE Range(Append(q, g)) = Range(q) \cup {g}
    <2>1. PICK p \in Seq(F) : p = Append(q, g)
      BY QueueSteps
    <2>2. Len(p) = Len(q) + 1 /\ (\A i \in 1..Len(q) : p[i] = q[i]) /\ p[Len(q) + 1] = g /\ Len(q) \in Nat
      BY <2>1, QueueSteps
    <2>3. \A f : f \in Range(p) <=> \E i \in 1..Len(p) : f = p[i]
      BY DEF Range
    <2>4. \A i : i \in 1..Len(p) <=> i \in 1..Len(q) \/ i = Len(q) + 1
      BY <2>2
    <2>5. \A f : f \in Range(p) <=> f \in Range(q) \/ f = g
      BY <1>1, <2>2, <2>3, <2>4
    <2> QED BY <2>1, <2>5
  <1>6. ASSUME q # <<>> PROVE Range(q) = {Head(q)} \cup Range(Tail(q))
    <2>1. PICK p \in Seq(F), m \in Nat : p = Tail(q) /\ m = Len(q) - 1
      BY <1>6, QueueParts
    <2>2. Len(p) = m /\ (\A i \in 1..m : p[i] = q[i + 1]) /\ Head(q) = q[1] /\ Len(q) = m + 1
      BY <1>6, <2>1, QueueParts
    <2>3. \A f : f \in Range(p) <=> \E i \in 1..m : f = p[i]
      BY <2>2 DEF Range
    <2>4. \A f : f \in Range(q) <=> f = Head(q) \/ f \in Range(p)
      <3>1. ASSUME NEW f, f \in Range(q) PROVE f = Head(q) \/ f \in Range(p)
        <4>1. PICK i \in 1..m + 1 : f = q[i]
          BY <1>1, <2>2, <3>1
        <4>2. i = 1 \/ (i - 1 \in 1..m /\ i = (i - 1) + 1)
          OBVIOUS
        <4> QED BY <2>2, <2>3, <4>1, <4>2
      <3>2. ASSUME NEW f, f = Head(q) \/ f \in Range(p) PROVE f \in Range(q)
        <4>1. 1 \in 1..m + 1
          OBVIOUS
        <4>2. \A i \in 1..m : i + 1 \in 1..m + 1
          OBVIOUS
        <4> QED BY <1>1, <2>2, <2>3, <3>2, <4>1, <4>2
      <3> QED BY <3>1, <3>2
    <2> QED BY <2>1, <2>4
  <1> QED BY <1>1, <1>3, <1>4, <1>5, <1>6

(* What a client that takes its turn in order has on the way.              *)
LEMMA InOrderNumbers ==
  ASSUME NEW w \in Clients, NEW d \in Seq(QueuedFrames), ClientSound(w), InOrder(w, d), ~w.closed
  PROVE  Numbered(Coming(w, d), w.seq)
  <1>1. PICK q \in Seq(QueuedFrames), s \in Nat : q = w.pending /\ s = w.seq
    BY DEF Clients
  <1> DEFINE C == Coming(w, d)
  <1>2. C = Range(d) \cup Range(q) /\ Range(d) \subseteq QueuedFrames /\ Range(q) \subseteq QueuedFrames
    BY <1>1, Members DEF Coming
  <1>3. \A f \in QueuedFrames : f.seq \in Nat \ {0}
    BY DEF QueuedFrames
  <1>4. \A i, j \in 1..Len(q) : i < j => q[i].seq < q[j].seq
    BY <1>1 DEF ClientSound, Sequenced
  <1>5. q # <<>> => q[Len(q)].seq = s
    BY <1>1 DEF ClientSound, Sequenced
  <1>6. \A i, j \in 1..Len(d) : i < j => d[i].seq < d[j].seq
    BY DEF InOrder, Rising
  <1>7. /\ \A f \in Range(d), g \in Range(q) : f.seq < g.seq
        /\ \A f \in Range(d) : f.seq <= s
        /\ C # {} => \E f \in C : f.seq = s
    BY <1>1 DEF InOrder
  <1>8. /\ \A f : f \in Range(q) <=> \E i \in 1..Len(q) : f = q[i]
        /\ \A f : f \in Range(d) <=> \E i \in 1..Len(d) : f = d[i]
    BY Members
  <1>9. \A i \in 1..Len(q) : q[i].seq <= s
    <2> TAKE i \in 1..Len(q)
    <2>1. Len(q) \in 1..Len(q) /\ (i = Len(q) \/ i < Len(q)) /\ q # <<>>
      OBVIOUS
    <2>2. q[i] \in QueuedFrames /\ q[Len(q)].seq = s
      BY <1>5, <2>1
    <2> QED BY <1>3, <1>4, <2>1, <2>2
  <1>10. \A f \in C : f \in QueuedFrames /\ f.seq \in 1..s
    BY <1>2, <1>3, <1>7, <1>8, <1>9
  <1>11. ASSUME NEW f \in C, NEW g \in C, f.seq = g.seq PROVE f = g
    <2>1. f.seq \in Nat /\ g.seq \in Nat
      BY <1>10
    <2>2. CASE f \in Range(q) /\ g \in Range(q)
      <3>1. PICK i, j \in 1..Len(q) : f = q[i] /\ g = q[j]
        BY <1>8, <2>2
      <3>2. ~(q[i].seq < q[j].seq) /\ ~(q[j].seq < q[i].seq)
        BY <1>11, <2>1, <3>1
      <3>3. i = j
        BY <1>4, <3>2
      <3> QED BY <3>1, <3>3
    <2>3. CASE f \in Range(d) /\ g \in Range(d)
      <3>1. PICK i, j \in 1..Len(d) : f = d[i] /\ g = d[j]
        BY <1>8, <2>3
      <3>2. ~(d[i].seq < d[j].seq) /\ ~(d[j].seq < d[i].seq)
        BY <1>11, <2>1, <3>1
      <3>3. i = j
        BY <1>6, <3>2
      <3> QED BY <3>1, <3>3
    <2> HIDE DEF C
    <2> QED BY <1>2, <1>7, <1>11, <2>1, <2>2, <2>3
  <1> HIDE DEF C
  <1>12. Numbered(C, s)
    BY <1>7, <1>10, <1>11 DEF Numbered
  <1> QED BY <1>1, <1>12 DEF C

(* A superseding snapshot takes the place of the latest frame on the way.  *)
LEMMA SupersededInOrder ==
  ASSUME NEW w \in Clients, NEW d \in Seq(QueuedFrames), ClientSound(w), InOrder(w, d), ~w.closed,
         NEW f \in NewFrames, NEW r \in Clients, Superseded(w, f, r)
  PROVE  InOrder(r, d) /\ r.seq = w.seq /\ Replaces(Coming(w, d), w.seq, f, Coming(r, d))
  <1>1. PICK q \in Seq(QueuedFrames), s \in Nat : q = w.pending /\ s = w.seq
    BY DEF Clients
  <1>2. q # <<>> /\ r.seq = s /\ ~r.closed /\ IsSnapshot(f)
    BY <1>1 DEF Superseded
  <1>3. Len(q) \in Nat \ {0} /\ Len(q) \in 1..Len(q)
    BY <1>2, QueueParts
  <1>4. PICK last \in QueuedFrames : last = q[Len(q)]
    BY <1>2, QueueParts
  <1>5. last.seq = s /\ last.seq # 1 /\ last.type = f.type /\ s \in Nat \ {0}
    <2>1. last.seq = s
      BY <1>1, <1>2, <1>4 DEF ClientSound, Sequenced
    <2>2. last.seq \in Nat \ {0}
      BY DEF QueuedFrames
    <2> QED BY <1>1, <1>4, <2>1, <2>2 DEF Superseded
  <1>6. PICK e \in QueuedFrames : e = Renumbered(f, s)
    BY <1>5, RenumberedSays
  <1>7. e.seq = s
    BY <1>5, <1>6, RenumberedSays
  <1>8. PICK p \in Seq(QueuedFrames) : p = [q EXCEPT ![Len(q)] = e]
    BY <1>2, LastReplaced
  <1>9. r.pending = p
    BY <1>1, <1>4, <1>5, <1>6, <1>8 DEF Superseded, Renumbered
  <1>10. Len(p) = Len(q) /\ p[Len(q)] = e /\ \A i \in 1..Len(q) : i # Len(q) => p[i] = q[i]
    BY <1>3, <1>8
  <1>11. /\ \A g : g \in Range(q) <=> \E i \in 1..Len(q) : g = q[i]
         /\ \A g : g \in Range(p) <=> \E i \in 1..Len(p) : g = p[i]
    BY Members
  <1>12. \A i \in 1..Len(q) : i # Len(q) => q[i] # last
    <2> SUFFICES ASSUME NEW i \in 1..Len(q), i # Len(q), q[i] = last PROVE FALSE
      OBVIOUS
    <2>1. i < Len(q)
      BY <1>3
    <2>2. q[i].seq < q[Len(q)].seq
      BY <1>1, <1>3, <2>1 DEF ClientSound, Sequenced
    <2> QED BY <1>4, <1>5, <2>2
  <1>13. \A g : g \in Range(p) <=> (g \in Range(q) /\ g # last) \/ g = e
    BY <1>3, <1>4, <1>10, <1>11, <1>12
  <1>14. /\ \A g \in Range(d), h \in Range(q) : g.seq < h.seq
         /\ \A g \in Range(d) : g.seq <= s
    BY <1>1 DEF InOrder
  <1>15. last \in Range(q) /\ last \notin Range(d)
    <2>1. last \in Range(q)
      BY <1>3, <1>4, <1>11
    <2>2. ~(last.seq < last.seq)
      BY <1>5
    <2> QED BY <1>14, <2>1, <2>2
  <1>16. Coming(r, d) = (Coming(w, d) \ {last}) \cup {e} /\ last \in Coming(w, d)
    BY <1>1, <1>9, <1>13, <1>15 DEF Coming
  <1>17. Replaces(Coming(w, d), s, f, Coming(r, d))
    BY <1>2, <1>5, <1>6, <1>16 DEF Replaces
  <1>18. InOrder(r, d)
    <2>1. \A g \in Range(d), h \in Range(p) : g.seq < h.seq
      BY <1>4, <1>5, <1>7, <1>13, <1>14, <1>15
    <2>2. \E g \in Coming(r, d) : g.seq = s
      BY <1>7, <1>16
    <2>3. Rising(d)
      BY DEF InOrder
    <2> QED BY <1>2, <1>9, <1>14, <2>1, <2>2, <2>3 DEF InOrder
  <1> QED BY <1>1, <1>2, <1>17, <1>18

(* An appended frame is the latest one on the way.                         *)
LEMMA EnqueuedInOrder ==
  ASSUME NEW w \in Clients, NEW d \in Seq(QueuedFrames), ClientSound(w), InOrder(w, d), ~w.closed,
         NEW f \in NewFrames, NEW r \in Clients, Enqueued(w, f, r)
  PROVE  InOrder(r, d) /\ r.seq = w.seq + 1 /\ Extends(Coming(w, d), w.seq, f, Coming(r, d))
  <1>1. PICK q \in Seq(QueuedFrames), s \in Nat : q = w.pending /\ s = w.seq
    BY DEF Clients
  <1>2. PICK e \in QueuedFrames : e = Renumbered(f, s + 1)
    BY RenumberedSays
  <1>3. e.seq = s + 1
    BY <1>2, RenumberedSays
  <1>4. PICK k \in 0..Len(q) : /\ k > 0 => ~HoldsBaseline(w)
                               /\ r.pending = Append(SubSeq(q, k + 1, Len(q)), e)
    BY <1>1, <1>2 DEF Enqueued, Renumbered
  <1>5. PICK u \in Seq(QueuedFrames) : u = SubSeq(q, k + 1, Len(q))
    BY LastFrames
  <1>6. Len(u) = Len(q) - k /\ \A i \in 1..Len(q) - k : u[i] = q[k + i] /\ k + i \in 1..Len(q)
    BY <1>5, LastFrames
  <1>7. /\ \A g : g \in Range(q) <=> \E i \in 1..Len(q) : g = q[i]
        /\ \A g : g \in Range(u) <=> \E i \in 1..Len(u) : g = u[i]
    BY Members
  <1>8. Range(u) \subseteq Range(q)
    BY <1>6, <1>7
  <1>9. Range(r.pending) = Range(u) \cup {e}
    <2>1. \A g \in QueuedFrames : Range(Append(u, g)) = Range(u) \cup {g}
      BY Members
    <2>2. Range(Append(u, e)) = Range(u) \cup {e}
      BY <2>1
    <2> QED BY <1>4, <1>5, <2>2
  <1>10. /\ \A g \in Range(d), h \in Range(q) : g.seq < h.seq
         /\ \A g \in Range(d) : g.seq <= s
    BY <1>1 DEF InOrder
  <1>11. Coming(r, d) \subseteq Coming(w, d) \cup {e} /\ e \in Coming(r, d) /\ Range(d) \subseteq Coming(r, d)
    BY <1>1, <1>8, <1>9 DEF Coming
  <1>12. ASSUME NEW g \in Coming(w, d), g.seq = 1, g.type = "state.snapshot" PROVE g \in Coming(r, d)
    <2>1. CASE g \in Range(d)
      BY <1>11, <2>1
    <2>2. CASE g \in Range(q)
      <3>1. PICK i \in 1..Len(q) : g = q[i]
        BY <1>7, <2>2
      <3>2. q # <<>> /\ 1 \in 1..Len(q)
        BY <3>1
      <3>3. i = 1
        <4> SUFFICES ASSUME i # 1 PROVE FALSE
          OBVIOUS
        <4>1. 1 < i
          OBVIOUS
        <4>2. q[1].seq < q[i].seq
          BY SMTT(30), <1>1, <3>2, <4>1 DEF ClientSound, Sequenced
        <4>3. PICK h \in QueuedFrames : h = q[1]
          BY <3>2
        <4>4. h.seq \in Nat \ {0}
          BY DEF QueuedFrames
        <4> QED BY <1>12, <3>1, <4>2, <4>3, <4>4
      <3>4. HoldsBaseline(w)
        BY <1>1, <1>12, <3>1, <3>3 DEF HoldsBaseline
      <3>5. k = 0
        BY <1>4, <3>4
      <3>6. 1 \in 1..Len(u) /\ u[1] = q[1]
        BY <1>6, <3>2, <3>5
      <3> QED BY <1>7, <1>9, <3>1, <3>3, <3>6 DEF Coming
    <2> QED BY <1>1, <2>1, <2>2 DEF Coming
  <1>13. Extends(Coming(w, d), s, f, Coming(r, d))
    BY <1>2, <1>11, <1>12 DEF Extends
  <1>14. r.seq = s + 1
    BY <1>1 DEF Enqueued
  <1>15. InOrder(r, d)
    <2>1. \A g \in Range(d) : g.seq < s + 1 /\ g.seq <= s + 1
      <3> TAKE g \in Range(d)
      <3>1. g \in QueuedFrames
        BY Members
      <3>2. g.seq \in Nat
        BY <3>1 DEF QueuedFrames
      <3> QED BY <1>10, <3>2
    <2>2. \A g \in Range(d), h \in Range(r.pending) : g.seq < h.seq
      BY <1>3, <1>8, <1>9, <1>10, <2>1
    <2>3. Rising(d)
      BY DEF InOrder
    <2> QED BY <1>3, <1>11, <1>14, <2>1, <2>2, <2>3 DEF InOrder
  <1> QED BY <1>1, <1>13, <1>14, <1>15

-----------------------------------------------------------------------------
(* No loss is silent: what a queued frame does to what is told *)

(* A superseded snapshot has a successor with its number and its type.     *)
LEMMA ReplacedIsTold ==
  ASSUME NEW C, NEW t, Numbered(C, t), NEW f \in NewFrames, NEW C2, Replaces(C, t, f, C2)
  PROVE  /\ \A s, K : Told(C, t, s, K) => Told(C2, t, s, K)
         /\ Numbered(C2, t)
         /\ \A g \in C : g.seq = 1 => g \in C2
         /\ Renumbered(f, t) \in C2 /\ C2 \subseteq C \cup {Renumbered(f, t)}
  <1>1. PICK g \in C : /\ g.seq = t /\ t # 1 /\ g.type = f.type /\ IsSnapshot(f)
                       /\ C2 = (C \ {g}) \cup {Renumbered(f, t)}
    BY DEF Replaces
  <1>2. t \in Nat \ {0}
    BY <1>1 DEF Numbered
  <1>3. PICK e \in QueuedFrames : e = Renumbered(f, t)
    BY <1>2, RenumberedSays
  <1>4. e.seq = t /\ e.type = f.type /\ e.type # "patch"
    <2>1. f.type # "patch"
      BY <1>1 DEF IsSnapshot
    <2> QED BY <1>2, <1>3, <2>1, RenumberedSays
  <1>5. \A h : h \in C2 <=> h = e \/ (h \in C /\ h # g)
    BY <1>1, <1>3
  <1>6. ASSUME NEW s, NEW K, Told(C, t, s, K) PROVE Told(C2, t, s, K)
    <2>1. CASE \E h \in C : h.seq > s /\ h.type = "state.snapshot"
      <3>1. \E h \in C2 : h.seq > s /\ h.type = "state.snapshot"
        BY <1>1, <1>4, <1>5, <2>1
      <3> QED BY <3>1 DEF Told
    <2>2. CASE \E m \in s + 1..t : \A h \in C : h.seq # m
      <3>1. \E m \in s + 1..t : \A h \in C2 : h.seq # m
        BY <1>1, <1>4, <1>5, <2>2
      <3> QED BY <3>1 DEF Told
    <2>3. CASE \A k \in K : \E h \in C : h.seq > s /\ h.type = "patch" /\ h.version = k
      <3>1. g.type # "patch"
        BY <1>1, <1>4
      <3>2. \A k \in K : \E h \in C2 : h.seq > s /\ h.type = "patch" /\ h.version = k
        BY <1>5, <2>3, <3>1
      <3> QED BY <3>2 DEF Told
    <2> QED BY <1>6, <2>1, <2>2, <2>3 DEF Told
  <1>7. Numbered(C2, t)
    <2>1. /\ C \subseteq QueuedFrames /\ (\A h \in C : h.seq \in 1..t)
          /\ \A h, i \in C : h.seq = i.seq => h = i
      BY DEF Numbered
    <2>2. \A h \in C2 : h \in QueuedFrames /\ h.seq \in 1..t
      BY <1>2, <1>4, <1>5, <2>1
    <2>3. \A h, i \in C2 : h.seq = i.seq => h = i
      BY <1>1, <1>4, <1>5, <2>1
    <2>4. \E h \in C2 : h.seq = t
      BY <1>4, <1>5
    <2> QED BY <1>2, <2>2, <2>3, <2>4 DEF Numbered
  <1>8. \A h \in C : h.seq = 1 => h \in C2
    BY <1>1, <1>5
  <1> QED BY <1>3, <1>5, <1>6, <1>7, <1>8

(* A dropped frame leaves its number missing.                              *)
LEMMA ExtendedIsTold ==
  ASSUME NEW C, NEW t, Numbered(C, t), NEW f \in NewFrames, NEW C2, Extends(C, t, f, C2)
  PROVE  /\ \A s \in 0..t : \A K : Told(C, t, s, K) =>
              /\ Told(C2, t + 1, s, K)
              /\ f.type = "patch" => Told(C2, t + 1, s, K \cup {f.version})
         /\ Numbered(C2, t + 1)
         /\ Renumbered(f, t + 1) \in C2 /\ C2 \subseteq C \cup {Renumbered(f, t + 1)}
  <1>1. t \in Nat /\ t + 1 \in Nat \ {0}
    BY DEF Numbered
  <1>2. PICK e \in QueuedFrames : e = Renumbered(f, t + 1)
    BY <1>1, RenumberedSays
  <1>3. e.seq = t + 1 /\ e.type = f.type /\ e.version = f.version
    BY <1>1, <1>2, RenumberedSays
  <1>4. e \in C2 /\ C2 \subseteq C \cup {e}
    BY <1>2 DEF Extends
  <1>5. /\ C \subseteq QueuedFrames /\ (\A h \in C : h.seq \in 1..t)
        /\ \A h, i \in C : h.seq = i.seq => h = i
    BY DEF Numbered
  <1>6. ASSUME NEW h \in C, h \notin C2, NEW s \in 0..t, h.seq > s, NEW K PROVE Told(C2, t + 1, s, K)
    <2>1. h.seq \in 1..t
      BY <1>5
    <2>2. h.seq \in s + 1..t + 1
      BY <1>1, <1>6, <2>1
    <2>3. \A i \in C2 : i.seq # h.seq
      BY <1>1, <1>3, <1>4, <1>5, <1>6, <2>1
    <2> QED BY <2>2, <2>3 DEF Told
  <1>7. ASSUME NEW s \in 0..t, NEW K, Told(C, t, s, K)
        PROVE  Told(C2, t + 1, s, K) /\ (f.type = "patch" => Told(C2, t + 1, s, K \cup {f.version}))
    <2>1. CASE \E h \in C : h.seq > s /\ h.type = "state.snapshot"
      <3>1. PICK h \in C : h.seq > s /\ h.type = "state.snapshot"
        BY <2>1
      <3>2. CASE h \in C2
        BY <3>1, <3>2 DEF Told
      <3>3. CASE h \notin C2
        BY <1>6, <3>1, <3>3
      <3> QED BY <3>2, <3>3
    <2>2. CASE \E m \in s + 1..t : \A h \in C : h.seq # m
      <3>1. PICK m \in s + 1..t : \A h \in C : h.seq # m
        BY <2>2
      <3>2. m \in s + 1..t + 1 /\ m # t + 1
        BY <1>1
      <3>3. \A h \in C2 : h.seq # m
        BY <1>3, <1>4, <3>1, <3>2
      <3> QED BY <3>2, <3>3 DEF Told
    <2>3. CASE \A k \in K : \E h \in C : h.seq > s /\ h.type = "patch" /\ h.version = k
      <3>1. CASE \A h \in C : h.seq > s => h \in C2
        <4>1. \A k \in K : \E h \in C2 : h.seq > s /\ h.type = "patch" /\ h.version = k
          BY <2>3, <3>1
        <4>2. e.seq > s
          BY <1>1, <1>3
        <4>3. f.type = "patch" =>
                \A k \in K \cup {f.version} : \E h \in C2 : h.seq > s /\ h.type = "patch" /\ h.version = k
          BY <1>3, <1>4, <4>1, <4>2
        <4> QED BY <4>1, <4>3 DEF Told
      <3>2. CASE ~ \A h \in C : h.seq > s => h \in C2
        BY <1>6, <3>2
      <3> QED BY <3>1, <3>2
    <2> QED BY <1>7, <2>1, <2>2, <2>3 DEF Told
  <1>8. Numbered(C2, t + 1)
    <2>1. \A h \in C2 : h \in QueuedFrames /\ h.seq \in 1..t + 1
      BY <1>1, <1>3, <1>4, <1>5
    <2>2. \A h, i \in C2 : h.seq = i.seq => h = i
      <3>1. \A h \in C : h.seq # t + 1
        BY <1>1, <1>5
      <3> QED BY <1>3, <1>4, <1>5, <3>1
    <2> QED BY <1>1, <1>3, <1>4, <2>1, <2>2 DEF Numbered
  <1> QED BY <1>2, <1>4, <1>7, <1>8

(* What both ways of queueing a frame do to the frames on the way.         *)
Takes(C, t, f, C2, u) ==
  /\ u = t + 1 \/ (u = t /\ f.type # "patch" /\ \E g \in C : g.seq = t)
  /\ Numbered(C2, u)
  /\ Renumbered(f, u) \in C2 /\ C2 \subseteq C \cup {Renumbered(f, u)}
  /\ \A g \in C : g.seq = 1 /\ g.type = "state.snapshot" => g \in C2
  /\ \A s \in 0..t : \A K : Told(C, t, s, K) =>
       /\ Told(C2, u, s, K)
       /\ f.type = "patch" => Told(C2, u, s, K \cup {f.version})

(* queueLocked, when it does not refuse, keeps the order of the frames.    *)
LEMMA QueueLockedTakes ==
  ASSUME NEW w \in Clients, NEW d \in Seq(QueuedFrames), ClientSound(w), InOrder(w, d), ~w.closed,
         NEW f \in NewFrames, NEW r \in Clients, Superseded(w, f, r) \/ Enqueued(w, f, r)
  PROVE  /\ InOrder(r, d) /\ ~r.closed /\ r.subs = w.subs
         /\ Numbered(Coming(w, d), w.seq) /\ Takes(Coming(w, d), w.seq, f, Coming(r, d), r.seq)
  <1>1. PICK C, t : C = Coming(w, d) /\ t = w.seq /\ Numbered(C, t)
    BY InOrderNumbers
  <1>2. PICK C2, u : C2 = Coming(r, d) /\ u = r.seq
    OBVIOUS
  <1>3. CASE Superseded(w, f, r)
    <2>1. InOrder(r, d) /\ u = t /\ Replaces(C, t, f, C2)
      BY <1>1, <1>2, <1>3, SupersededInOrder
    <2>2. f.type # "patch" /\ \E g \in C : g.seq = t
      BY <2>1 DEF Replaces, IsSnapshot
    <2>3. /\ \A s, K : Told(C, t, s, K) => Told(C2, u, s, K)
          /\ Numbered(C2, u)
          /\ \A g \in C : g.seq = 1 => g \in C2
          /\ Renumbered(f, u) \in C2 /\ C2 \subseteq C \cup {Renumbered(f, u)}
      BY <1>1, <2>1, ReplacedIsTold
    <2>5. Takes(C, t, f, C2, u)
      BY <2>1, <2>2, <2>3 DEF Takes
    <2>4. ~r.closed /\ r.subs = w.subs
      BY <1>3 DEF Superseded
    <2> QED BY <1>1, <1>2, <2>1, <2>4, <2>5
  <1>4. CASE Enqueued(w, f, r)
    <2>1. InOrder(r, d) /\ u = t + 1 /\ Extends(C, t, f, C2)
      BY <1>1, <1>2, <1>4, EnqueuedInOrder
    <2>2. \A g \in C : g.seq = 1 /\ g.type = "state.snapshot" => g \in C2
      BY <2>1 DEF Extends
    <2>3. /\ \A s \in 0..t : \A K : Told(C, t, s, K) =>
               /\ Told(C2, u, s, K)
               /\ f.type = "patch" => Told(C2, u, s, K \cup {f.version})
          /\ Numbered(C2, u)
          /\ Renumbered(f, u) \in C2 /\ C2 \subseteq C \cup {Renumbered(f, u)}
      BY <1>1, <2>1, ExtendedIsTold
    <2>5. Takes(C, t, f, C2, u)
      <3>1. u = t + 1 \/ (u = t /\ f.type # "patch" /\ \E g \in C : g.seq = t)
        BY <2>1
      <3> QED BY ONLY <2>2, <2>3, <3>1, Zenon DEF Takes
    <2>4. ~r.closed /\ r.subs = w.subs
      BY <1>4 DEF Enqueued
    <2> QED BY <1>1, <1>2, <2>1, <2>4, <2>5
  <1> QED BY <1>3, <1>4

(* Who is told of some changes is told of fewer.                           *)
LEMMA ToldOfFewer ==
  ASSUME NEW C, NEW t, NEW s, NEW K, Told(C, t, s, K), NEW J, J \subseteq K
  PROVE  Told(C, t, s, J)
  BY DEF Told

(* A baseline that is the latest frame tells whoever has not read it.      *)
LEMMA BaselineTells ==
  ASSUME NEW C, NEW t, Numbered(C, t), NEW e \in C, e.seq = t, e.type = "state.snapshot", NEW n \in Nat,
         e.version >= n
  PROVE  (\A s \in Nat : \A K : s < t => Told(C, t, s, K)) /\ Followed(C, t, n)
  <1>1. ASSUME NEW s \in Nat, NEW K, s < t PROVE Told(C, t, s, K)
    BY <1>1 DEF Told, Numbered
  <1>2. ASSUME NEW g \in C PROVE Told(C, t, g.seq, (g.version + 1)..n)
    <2>1. CASE g = e
      <3>1. e.version \in Nat
        BY DEF Numbered, QueuedFrames
      <3>2. (g.version + 1)..n = {}
        BY <2>1, <3>1
      <3> QED BY <3>2 DEF Told
    <2>2. CASE g # e
      <3>1. g.seq \in 1..t /\ g.seq # t /\ t \in Nat
        BY <2>2 DEF Numbered
      <3>2. g.seq \in Nat /\ g.seq < t
        BY <3>1
      <3> QED BY <1>1, <3>2
    <2> QED BY <2>1, <2>2
  <1> QED BY <1>1, <1>2 DEF Followed

(* A frame that the hub queues: a patch is the next one, a baseline has    *)
(* all of the patches that were dispatched.                                *)
Fits(f, n, m) ==
  /\ f \in NewFrames
  /\ m = (IF f.type = "patch" THEN n + 1 ELSE n) /\ (f.type = "patch" => f.version = n + 1)
  /\ f.type = "state.snapshot" => f.version >= n

(* A frame of the hub that is taken leaves every loss visible.             *)
LEMMA TakenIsVisible ==
  ASSUME NEW w \in Clients, NEW d \in Seq(QueuedFrames), NEW x \in Browsers, NEW y \in BOOLEAN, NEW n \in Nat,
         NEW f, NEW m, Fits(f, n, m), NEW z \in BOOLEAN, z = y \/ (~z /\ f.type = "state.snapshot"),
         NEW r \in Clients, ~w.closed, ~r.closed, Visible(w, d, x, y, n), Numbered(Coming(w, d), w.seq),
         Takes(Coming(w, d), w.seq, f, Coming(r, d), r.seq)
  PROVE  Visible(r, d, x, z, m)
  <1> SUFFICES ASSUME x.ws = "open"
               PROVE  /\ x.sequence = 0 => \E g \in Coming(r, d) : g.seq = 1 /\ g.type = "state.snapshot"
                      /\ ~x.resyncing => (\A g \in Coming(r, d) : x.sequence < g.seq)
                                         /\ (Coming(r, d) = {} => x.sequence = r.seq)
                      /\ x.applied = "dashboard" /\ ~Asked(x, z) =>
                           /\ ~x.resyncing => Told(Coming(r, d), r.seq, x.sequence, (1..m) \ x.have)
                           /\ Followed(Coming(r, d), r.seq, m)
    BY DEF Visible
  <1>1. PICK C, t, D, u : C = Coming(w, d) /\ t = w.seq /\ D = Coming(r, d) /\ u = r.seq
    OBVIOUS
  <1>2. Numbered(C, t) /\ Takes(C, t, f, D, u) /\ t \in Nat /\ u \in Nat
    BY <1>1 DEF Numbered, Clients
  <1>3. Numbered(D, u) /\ (\E g \in D : TRUE)
    BY <1>2 DEF Takes
  <1>4. u \in Nat \ {0}
    BY <1>2, <1>3 DEF Numbered
  <1>5. PICK e \in D : e = Renumbered(f, u) /\ D \subseteq C \cup {e}
    BY <1>2 DEF Takes
  <1>6. f \in NewFrames /\ e.seq = u /\ e.type = f.type /\ e.version = f.version
    BY <1>4, <1>5, RenumberedSays DEF Fits
  <1>7. PICK s \in Nat : s = x.sequence
    BY DEF Browsers
  <1>8. /\ s = 0 => \E g \in C : g.seq = 1 /\ g.type = "state.snapshot"
        /\ ~x.resyncing => (\A g \in C : s < g.seq) /\ (C = {} => s = t)
        /\ x.applied = "dashboard" /\ ~Asked(x, y) =>
             /\ ~x.resyncing => Told(C, t, s, (1..n) \ x.have)
             /\ Followed(C, t, n)
    BY <1>1, <1>7 DEF Visible
  <1>9. s = 0 => \E g \in D : g.seq = 1 /\ g.type = "state.snapshot"
    BY <1>2, <1>8 DEF Takes
  <1>10. ~x.resyncing => s \in 0..t /\ s < u
    <2> SUFFICES ASSUME ~x.resyncing PROVE s \in 0..t /\ s < u
      OBVIOUS
    <2>1. C # {} => \E g \in C : g.seq = t
      BY <1>2 DEF Numbered
    <2>2. (C = {} /\ s = t) \/ s < t
      BY <1>8, <2>1
    <2>3. u = t + 1 \/ (u = t /\ C # {})
      BY <1>2 DEF Takes
    <2> QED BY <1>2, <2>2, <2>3
  <1>11. ~x.resyncing => \A g \in D : s < g.seq
    BY <1>5, <1>6, <1>8, <1>10
  <1>12. ASSUME x.applied = "dashboard", ~Asked(x, z)
         PROVE  (~x.resyncing => Told(D, u, s, (1..m) \ x.have)) /\ Followed(D, u, m)
    <2>1. CASE f.type = "state.snapshot"
      <3>1. m = n /\ e.version >= n
        BY <1>6, <2>1 DEF Fits
      <3> QED BY <1>3, <1>6, <1>10, <2>1, <3>1, BaselineTells
    <2>2. CASE f.type # "state.snapshot"
      <3>1. ~Asked(x, y)
        BY <1>12, <2>2 DEF Asked
      <3>2. \A a \in 0..t : \A K : Told(C, t, a, K) => Told(D, u, a, K) /\ (f.type = "patch" => Told(D, u, a, K \cup {f.version}))
        BY <1>2 DEF Takes
      <3>3. \A a \in 0..t : \A J, K : Told(C, t, a, J) /\ K \subseteq J \cup (IF f.type = "patch" THEN {f.version} ELSE {}) => Told(D, u, a, K)
        <4> TAKE a \in 0..t
        <4> TAKE J, K
        <4> HAVE Told(C, t, a, J) /\ K \subseteq J \cup (IF f.type = "patch" THEN {f.version} ELSE {})
        <4>1. CASE f.type = "patch"
          <5>1. Told(D, u, a, J \cup {f.version}) /\ K \subseteq J \cup {f.version}
            BY <3>2, <4>1
          <5>2. PICK L : L = J \cup {f.version}
            OBVIOUS
          <5> QED BY <5>1, <5>2, ToldOfFewer
        <4>2. CASE f.type # "patch"
          <5>1. Told(D, u, a, J) /\ K \subseteq J
            BY <3>2, <4>2
          <5> QED BY <5>1, ToldOfFewer
        <4> QED BY <4>1, <4>2
      <3>4. \A a \in Nat : (a + 1)..m \subseteq ((a + 1)..n) \cup (IF f.type = "patch" THEN {f.version} ELSE {})
        BY DEF Fits
      <3>5. (1..m) \ x.have \subseteq ((1..n) \ x.have) \cup (IF f.type = "patch" THEN {f.version} ELSE {})
        BY DEF Fits
      <3>6. ~x.resyncing => Told(D, u, s, (1..m) \ x.have)
        <4> SUFFICES ASSUME ~x.resyncing PROVE Told(D, u, s, (1..m) \ x.have)
          OBVIOUS
        <4>1. Told(C, t, s, (1..n) \ x.have) /\ s \in 0..t
          BY <1>8, <1>10, <1>12, <3>1
        <4>2. PICK J, K : J = (1..n) \ x.have /\ K = (1..m) \ x.have
          OBVIOUS
        <4> QED BY <3>3, <3>5, <4>1, <4>2
      <3>7. ASSUME NEW g \in D, g.type = "state.snapshot" PROVE Told(D, u, g.seq, (g.version + 1)..m)
        <4>1. g \in C
          BY <1>5, <1>6, <2>2, <3>7
        <4>2. g.seq \in 0..t /\ g.version \in Nat
          BY <1>2, <4>1 DEF Numbered, QueuedFrames
        <4>3. Told(C, t, g.seq, (g.version + 1)..n)
          BY <1>8, <1>12, <3>1, <3>7, <4>1 DEF Followed
        <4>4. PICK J, K, a : J = (g.version + 1)..n /\ K = (g.version + 1)..m /\ a = g.seq
          OBVIOUS
        <4>5. K \subseteq J \cup (IF f.type = "patch" THEN {f.version} ELSE {})
          BY <3>4, <4>2, <4>4
        <4>6. Told(D, u, a, K)
          BY <3>3, <4>2, <4>3, <4>4, <4>5
        <4> QED BY <4>4, <4>6
      <3> QED BY <3>6, <3>7 DEF Followed
    <2> QED BY <2>1, <2>2
  <1> QED BY <1>1, <1>3, <1>7, <1>9, <1>11, <1>12

-----------------------------------------------------------------------------
(* The server's side keeps the invariant *)

(* A client that is closed sends nothing more.                             *)
LEMMA RefusalKeepsPair ==
  ASSUME NEW w, NEW d, NEW x, NEW y, NEW n, Pair(w, d, x, y, n),
         NEW r \in Clients, ClientSound(r), Refuses(w, r), NEW z \in BOOLEAN, z = y \/ ~z, NEW m \in Nat
  PROVE  Pair(r, d, x, z, m)
  <1>1. /\ w \in Clients /\ d \in Seq(QueuedFrames) /\ x \in Browsers /\ y \in BOOLEAN /\ n \in Nat
        /\ ClientSound(w) /\ InOrder(w, d) /\ OneSocket(w, d, x, y) /\ Asks(w, x) /\ Visible(w, d, x, y, n)
    BY DEF Pair
  <1>2. r.closed /\ r.pending = <<>>
    BY DEF Refuses
  <1>3. Range(r.pending) = {}
    BY <1>2 DEF Range
  <1>4. InOrder(r, d)
    BY <1>1, <1>2, <1>3 DEF InOrder
  <1>5. OneSocket(r, d, x, z)
    BY <1>1, <1>2 DEF OneSocket
  <1>6. Asks(r, x)
    BY <1>1, <1>2 DEF Asks
  <1>7. Visible(r, d, x, z, m)
    BY <1>2 DEF Visible
  <1> QED BY <1>1, <1>4, <1>5, <1>6, <1>7 DEF Pair

(* queueLocked, whatever the frame and whatever became of those before it. *)
LEMMA QueueKeepsPair ==
  ASSUME NEW w, NEW d, NEW x, NEW y, NEW n, Pair(w, d, x, y, n), NEW f, NEW m, Fits(f, n, m),
         NEW z \in BOOLEAN, z = y \/ (~z /\ f.type = "state.snapshot"), NEW r, r = QueueLocked(w, f)
  PROVE  Pair(r, d, x, z, m)
  <1>1. /\ w \in Clients /\ d \in Seq(QueuedFrames) /\ x \in Browsers /\ y \in BOOLEAN /\ n \in Nat
        /\ ClientSound(w) /\ InOrder(w, d) /\ OneSocket(w, d, x, y) /\ Asks(w, x) /\ Visible(w, d, x, y, n)
    BY DEF Pair
  <1>2. f \in NewFrames /\ m \in Nat
    BY <1>1 DEF Fits
  <1>3. /\ r \in Clients /\ ClientSound(r)
        /\ (w.closed /\ r = w) \/ Refuses(w, r) \/ Superseded(w, f, r) \/ Enqueued(w, f, r)
    BY <1>1, <1>2, QueueLockedSound
  <1>4. CASE Refuses(w, r)
    BY <1>2, <1>3, <1>4, RefusalKeepsPair
  <1>5. CASE w.closed /\ r = w
    <2>1. Refuses(w, r)
      BY <1>1, <1>5 DEF Refuses, ClientSound
    <2> QED BY <1>4, <2>1
  <1>6. CASE ~w.closed /\ (Superseded(w, f, r) \/ Enqueued(w, f, r))
    <2>1. /\ InOrder(r, d) /\ ~r.closed /\ r.subs = w.subs
          /\ Numbered(Coming(w, d), w.seq) /\ Takes(Coming(w, d), w.seq, f, Coming(r, d), r.seq)
      BY <1>1, <1>2, <1>3, <1>6, QueueLockedTakes
    <2>2. Visible(r, d, x, z, m)
      BY <1>1, <1>2, <1>3, <1>6, <2>1, TakenIsVisible
    <2>3. OneSocket(r, d, x, z)
      BY <1>1, <1>6 DEF OneSocket
    <2>4. Asks(r, x)
      BY <1>1, <1>6, <2>1 DEF Asks
    <2> QED BY <1>1, <1>2, <1>3, <2>1, <2>2, <2>3, <2>4 DEF Pair
  <1>7. CASE w.closed /\ (Superseded(w, f, r) \/ Enqueued(w, f, r))
    <2>1. r = w
      BY <1>7 DEF QueueLocked
    <2> QED BY <1>5, <1>7, <2>1
  <1> QED BY <1>3, <1>4, <1>5, <1>6, <1>7

(* The frames that the hub makes.                                          *)
LEMMA HubFramesFit ==
  ASSUME NEW n \in Nat
  PROVE  /\ Fits(Frame("patch", n + 1), n, n + 1) /\ Frame("patch", n + 1).type = "patch"
         /\ \A k \in Nat : k >= n => Fits(Frame("state.snapshot", k), n, n)
         /\ \A k \in Nat : Frame("state.snapshot", k).type = "state.snapshot"
         /\ Fits(Frame("context.snapshot", 0), n, n) /\ Frame("context.snapshot", 0).type = "context.snapshot"
         /\ Fits(Frame("pong", 0), n, n)
  <1>1. ASSUME NEW t \in FrameTypes, NEW k \in Nat
        PROVE  /\ Frame(t, k) \in NewFrames /\ Frame(t, k).type = t /\ Frame(t, k).version = k
    BY DEF Frame, NewFrames
  <1>2. {"patch", "state.snapshot", "context.snapshot", "pong"} \subseteq FrameTypes
    BY DEF FrameTypes
  <1>3. Fits(Frame("patch", n + 1), n, n + 1) /\ Frame("patch", n + 1).type = "patch"
    BY <1>1, <1>2 DEF Fits
  <1>4. ASSUME NEW k \in Nat
        PROVE  /\ k >= n => Fits(Frame("state.snapshot", k), n, n)
               /\ Frame("state.snapshot", k).type = "state.snapshot"
    BY <1>1, <1>2 DEF Fits
  <1>5. Fits(Frame("context.snapshot", 0), n, n) /\ Frame("context.snapshot", 0).type = "context.snapshot"
    BY <1>1, <1>2 DEF Fits
  <1>6. Fits(Frame("pong", 0), n, n)
    BY <1>1, <1>2 DEF Fits
  <1> QED BY <1>3, <1>4, <1>5, <1>6

(* Who is not subscribed to the dashboard but wants to be has asked for a  *)
(* baseline after the subscription, so a filtered patch is not missed.     *)
LEMMA FilteredKeepsPair ==
  ASSUME NEW w, NEW d, NEW x, NEW y, NEW n, Pair(w, d, x, y, n), "dashboard" \notin w.subs
  PROVE  Pair(w, d, x, y, n + 1)
  <1>1. Asks(w, x) /\ Visible(w, d, x, y, n) /\ n + 1 \in Nat
    BY DEF Pair
  <1>2. x.ws = "open" /\ ~w.closed /\ x.applied = "dashboard" => Asked(x, y)
    <2> SUFFICES ASSUME x.ws = "open", ~w.closed, x.applied = "dashboard" PROVE Asked(x, y)
      OBVIOUS
    <2>1. PICK j \in DOMAIN x.up : Resumes(x.up[j])
      BY <1>1 DEF Asks
    <2>2. PICK i \in DOMAIN x.up : x.up[i] = Resync
      BY <1>1, <2>1 DEF Asks, Repairs
    <2>3. Resync \in Range(x.up)
      BY <2>2 DEF Range
    <2> QED BY <2>3 DEF Asked
  <1>3. Visible(w, d, x, y, n + 1)
    BY <1>1, <1>2 DEF Visible
  <1> QED BY <1>1, <1>3 DEF Pair

(* broadcastLocked *)
LEMMA BroadcastKeepsPair ==
  ASSUME NEW w, NEW d, NEW x, NEW y, NEW n, Pair(w, d, x, y, n)
  PROVE  /\ Pair(BroadcastLocked(w, Frame("patch", n + 1)), d, x, y, n + 1)
         /\ \A k \in Nat : k >= n => Pair(BroadcastLocked(w, Frame("state.snapshot", k)), d, x, y, n)
         /\ Pair(BroadcastLocked(w, Frame("context.snapshot", 0)), d, x, y, n)
  <1>1. n \in Nat /\ y \in BOOLEAN
    BY DEF Pair
  <1>2. ASSUME NEW f, NEW m, Fits(f, n, m) PROVE Pair(QueueLocked(w, f), d, x, y, m)
    BY <1>1, <1>2, QueueKeepsPair
  <1>3. Pair(BroadcastLocked(w, Frame("patch", n + 1)), d, x, y, n + 1)
    <2>1. Fits(Frame("patch", n + 1), n, n + 1) /\ Frame("patch", n + 1).type = "patch"
      BY <1>1, HubFramesFit
    <2>2. CASE "dashboard" \in w.subs
      BY <1>2, <2>1, <2>2 DEF BroadcastLocked, ChannelFor
    <2>3. CASE "dashboard" \notin w.subs
      BY <2>1, <2>3, FilteredKeepsPair DEF BroadcastLocked, ChannelFor
    <2> QED BY <2>2, <2>3
  <1>4. ASSUME NEW k \in Nat, k >= n PROVE Pair(BroadcastLocked(w, Frame("state.snapshot", k)), d, x, y, n)
    <2>1. Fits(Frame("state.snapshot", k), n, n)
      BY <1>1, <1>4, HubFramesFit
    <2> QED BY <1>2, <2>1 DEF BroadcastLocked
  <1>5. Pair(BroadcastLocked(w, Frame("context.snapshot", 0)), d, x, y, n)
    <2>1. Fits(Frame("context.snapshot", 0), n, n)
      BY <1>1, HubFramesFit
    <2> QED BY <1>2, <2>1 DEF BroadcastLocked
  <1> QED BY <1>3, <1>4, <1>5

(* The hub's dispatch of a patch.                                          *)
LEMMA DispatchKeeps == ASSUME StreamInv, Dispatch PROVE StreamInv'
  <1>1. v \in Nat /\ dispatched \in 0..v /\ Pair(c, down, b, resync, dispatched)
    BY DEF StreamInv
  <1>2. /\ c' = BroadcastLocked(c, Frame("patch", dispatched + 1)) /\ dispatched' = dispatched + 1
        /\ v' = v /\ down' = down /\ b' = b /\ resync' = resync /\ dispatched < v
    BY DEF Dispatch
  <1>3. Pair(c', down', b', resync', dispatched')
    BY <1>1, <1>2, BroadcastKeepsPair
  <1>4. v' \in Nat /\ dispatched' \in 0..v'
    BY <1>1, <1>2
  <1> QED BY <1>3, <1>4 DEF StreamInv

(* The hub's periodic snapshots.                                           *)
LEMMA TickKeeps == ASSUME StreamInv, Tick PROVE StreamInv'
  <1>1. v \in Nat /\ dispatched \in 0..v /\ Pair(c, down, b, resync, dispatched)
    BY DEF StreamInv
  <1>2. PICK w : w = BroadcastLocked(c, Frame("state.snapshot", v))
    OBVIOUS
  <1>3. /\ c' = BroadcastLocked(w, Frame("context.snapshot", 0))
        /\ v' = v /\ down' = down /\ b' = b /\ resync' = resync /\ dispatched' = dispatched
    BY <1>2 DEF Tick, Snapshot, ContextSnapshot
  <1>4. Pair(w, down, b, resync, dispatched)
    <2>1. v \in Nat /\ v >= dispatched
      BY <1>1
    <2> QED BY <1>1, <1>2, <2>1, BroadcastKeepsPair
  <1>5. Pair(c', down', b', resync', dispatched')
    BY <1>3, <1>4, BroadcastKeepsPair
  <1> QED BY <1>1, <1>3, <1>5 DEF StreamInv

(* The baseline of a resync.                                               *)
LEMMA FlushResyncKeeps == ASSUME StreamInv, FlushResync PROVE StreamInv'
  <1>1. v \in Nat /\ dispatched \in 0..v /\ Pair(c, down, b, resync, dispatched)
    BY DEF StreamInv
  <1>2. /\ c' = QueueLocked(c, Frame("state.snapshot", v)) /\ resync' = FALSE
        /\ v' = v /\ down' = down /\ b' = b /\ dispatched' = dispatched
    BY DEF FlushResync, Snapshot
  <1>3. Fits(Frame("state.snapshot", v), dispatched, dispatched) /\ Frame("state.snapshot", v).type = "state.snapshot"
    BY <1>1, HubFramesFit
  <1>4. PICK z \in BOOLEAN : z = FALSE
    OBVIOUS
  <1>5. Pair(c', down, b, z, dispatched)
    BY <1>1, <1>2, <1>3, <1>4, QueueKeepsPair
  <1> QED BY <1>1, <1>2, <1>4, <1>5 DEF StreamInv

(* A client whose frames on the way stay the same.                         *)
LEMMA SameFramesKeepPair ==
  ASSUME NEW w, NEW d, NEW x, NEW y, NEW n, Pair(w, d, x, y, n), ~w.closed,
         NEW r \in Clients, NEW e \in Seq(QueuedFrames), ClientSound(r), InOrder(r, e),
         Coming(r, e) = Coming(w, d), r.seq = w.seq, r.subs = w.subs, ~r.closed
  PROVE  Pair(r, e, x, y, n)
  <1>1. /\ w \in Clients /\ d \in Seq(QueuedFrames) /\ x \in Browsers /\ y \in BOOLEAN /\ n \in Nat
        /\ ClientSound(w) /\ InOrder(w, d) /\ OneSocket(w, d, x, y) /\ Asks(w, x) /\ Visible(w, d, x, y, n)
    BY DEF Pair
  <1>2. OneSocket(r, e, x, y)
    BY <1>1 DEF OneSocket
  <1>3. Asks(r, x)
    BY <1>1 DEF Asks
  <1>4. Visible(r, e, x, y, n)
    BY <1>1 DEF Visible
  <1> QED BY <1>1, <1>2, <1>3, <1>4 DEF Pair

(* The writer waits for its token, finds it or a ping is due.              *)
LEMMA WriterKeeps == ASSUME StreamInv, WriterWaits \/ WriterWakes \/ WriterPings PROVE StreamInv'
  <1>1. v \in Nat /\ dispatched \in 0..v /\ Pair(c, down, b, resync, dispatched)
    BY DEF StreamInv
  <1>2. v' = v /\ down' = down /\ b' = b /\ dispatched' = dispatched /\ resync' = resync /\ ~c.closed
    BY DEF WriterWaits, WriterWakes, WriterPings
  <1>3. c \in Clients /\ down \in Seq(QueuedFrames) /\ ClientSound(c) /\ InOrder(c, down)
    BY <1>1 DEF Pair
  <1>4. PICK p, q \in BOOLEAN : /\ c' = [c EXCEPT !.waiting = p, !.wake = q]
                                /\ p /\ c.pending # <<>> => q
    <2>1. c.wake \in BOOLEAN /\ c.waiting \in BOOLEAN /\ c = [c EXCEPT !.wake = c.wake]
      BY <1>3 DEF Clients
    <2>2. CASE WriterWaits
      <3>1. c' = [c EXCEPT !.waiting = TRUE, !.wake = c.wake] /\ c.pending = <<>>
        BY <1>3, <2>2 DEF WriterWaits, Clients
      <3> QED BY <2>1, <3>1
    <2>3. CASE WriterWakes
      <3>1. c' = [c EXCEPT !.waiting = FALSE, !.wake = FALSE]
        BY <2>3 DEF WriterWakes
      <3> QED BY <3>1
    <2>4. CASE WriterPings
      <3>1. c' = [c EXCEPT !.waiting = FALSE, !.wake = c.wake]
        BY <1>3, <2>4 DEF WriterPings, Clients
      <3> QED BY <2>1, <3>1
    <2> QED BY <2>2, <2>3, <2>4
  <1>5. c' \in Clients
    <2>1. PICK Q : Q = Seq(QueuedFrames)
      OBVIOUS
    <2>2. Clients = [subs : SUBSET Channels, seq : Nat, pending : Q, bytes : Int,
                     wake : BOOLEAN, waiting : BOOLEAN, closed : BOOLEAN]
      BY <2>1 DEF Clients
    <2> QED BY <1>3, <1>4, <2>2
  <1>6. /\ c'.pending = c.pending /\ c'.bytes = c.bytes /\ c'.seq = c.seq /\ c'.subs = c.subs
        /\ c'.waiting = p /\ c'.wake = q /\ c'.closed = c.closed
    BY <1>3, <1>4 DEF Clients
  <1>7. PICK r : r = c'
    OBVIOUS
  <1>8. ClientSound(r)
    BY <1>3, <1>4, <1>6, <1>7 DEF ClientSound, BytesExact, Sequenced
  <1>9. Coming(r, down) = Coming(c, down)
    BY <1>6, <1>7 DEF Coming
  <1>10. InOrder(r, down)
    BY <1>3, <1>6, <1>7, <1>9 DEF InOrder
  <1>11. Pair(r, down, b, resync, dispatched)
    BY <1>1, <1>2, <1>3, <1>5, <1>6, <1>7, <1>8, <1>9, <1>10, SameFramesKeepPair
  <1> QED BY <1>1, <1>2, <1>7, <1>11 DEF StreamInv

(* removeFirstLocked                                                       *)
LEMMA RemoveFirstSound ==
  ASSUME NEW w \in Clients, ClientSound(w), w.pending # <<>>, ~w.waiting
  PROVE  /\ RemoveFirstLocked(w) \in Clients /\ ClientSound(RemoveFirstLocked(w))
         /\ RemoveFirstLocked(w).pending = Tail(w.pending)
         /\ RemoveFirstLocked(w).seq = w.seq /\ RemoveFirstLocked(w).subs = w.subs
         /\ RemoveFirstLocked(w).closed = w.closed
  <1>1. PICK q \in Seq(QueuedFrames), a \in Int : q = w.pending /\ a = w.bytes
    BY DEF Clients
  <1>2. PICK f \in QueuedFrames, p \in Seq(QueuedFrames) : f = Head(q) /\ p = Tail(q)
    BY <1>1, QueueParts
  <1>3. SizeOf(f) \in Nat \ {0}
    BY SizesAreNatural DEF QueuedFrames
  <1>4. PICK m \in Int : m = a - SizeOf(f)
    BY <1>3
  <1> DEFINE r == RemoveFirstLocked(w)
  <1>5. r = [w EXCEPT !.pending = p, !.bytes = m]
    BY <1>1, <1>2, <1>4 DEF RemoveFirstLocked, Clients
  <1>6. r \in Clients
    <2>1. PICK Q : Q = Seq(QueuedFrames)
      OBVIOUS
    <2>2. Clients = [subs : SUBSET Channels, seq : Nat, pending : Q, bytes : Int,
                     wake : BOOLEAN, waiting : BOOLEAN, closed : BOOLEAN] /\ p \in Q
      BY <2>1 DEF Clients
    <2> QED BY <1>5, <2>2
  <1>7. /\ r.pending = p /\ r.bytes = m /\ r.seq = w.seq /\ r.subs = w.subs /\ r.waiting = w.waiting
        /\ r.closed = w.closed
    BY <1>5 DEF Clients
  <1> HIDE DEF r
  <1>8. BytesOf(p) = BytesOf(q) - SizeOf(f)
    BY <1>1, <1>2, BytesOfTail
  <1>9. a = BytesOf(q) /\ a <= QueueBytes /\ Len(q) <= QueueLimit
    BY <1>1 DEF ClientSound, BytesExact
  <1>10. Len(q) \in Nat \ {0} /\ Len(p) = Len(q) - 1 /\ \A i \in 1..Len(q) - 1 : p[i] = q[i + 1]
    BY <1>1, <1>2, QueueParts
  <1>11. BytesExact(r)
    <2>1. m = BytesOf(p)
      BY <1>4, <1>8, <1>9
    <2>2. m <= QueueBytes
      BY <1>3, <1>4, <1>9, QueueAssumption
    <2>3. Len(p) <= QueueLimit
      BY <1>9, <1>10, QueueAssumption
    <2> QED BY <1>7, <2>1, <2>2, <2>3 DEF BytesExact
  <1>12. Sequenced(r)
    <2>1. /\ \A i, j \in 1..Len(q) : i < j => q[i].seq < q[j].seq
          /\ q[Len(q)].seq = w.seq
      BY <1>1 DEF ClientSound, Sequenced
    <2>2. DOMAIN p = 1..Len(p)
      OBVIOUS
    <2>3. ASSUME NEW i \in 1..Len(p), NEW j \in 1..Len(p), i < j PROVE p[i].seq < p[j].seq
      <3>1. i + 1 \in 1..Len(q) /\ j + 1 \in 1..Len(q) /\ i + 1 < j + 1
        BY <1>10, <2>3
      <3> QED BY <1>10, <2>1, <3>1
    <2>4. p # <<>> => p[Len(p)].seq = w.seq
      <3> SUFFICES ASSUME p # <<>> PROVE p[Len(p)].seq = w.seq
        OBVIOUS
      <3>1. Len(p) \in 1..Len(q) - 1 /\ Len(p) + 1 = Len(q)
        BY <1>10, QueueParts
      <3> QED BY <1>10, <2>1, <3>1
    <2> QED BY <1>7, <2>2, <2>3, <2>4 DEF Sequenced
  <1>13. ClientSound(r)
    <2>1. r.closed => r.pending = <<>>
      BY <1>1, <1>7 DEF ClientSound
    <2> QED BY <1>7, <1>11, <1>12, <2>1 DEF ClientSound
  <1> QED BY <1>1, <1>2, <1>6, <1>7, <1>13 DEF r

(* The writer's first frame is the next one on the network.                *)
LEMMA WriteFrameKeeps == ASSUME StreamInv, WriteFrame PROVE StreamInv'
  <1>1. v \in Nat /\ dispatched \in 0..v /\ Pair(c, down, b, resync, dispatched)
    BY DEF StreamInv
  <1>2. /\ v' = v /\ b' = b /\ dispatched' = dispatched /\ resync' = resync
        /\ ~c.closed /\ ~c.waiting /\ c.pending # <<>>
        /\ down' = Append(down, Head(c.pending)) /\ c' = RemoveFirstLocked(c)
    BY DEF WriteFrame
  <1>3. c \in Clients /\ down \in Seq(QueuedFrames) /\ ClientSound(c) /\ InOrder(c, down)
    BY <1>1 DEF Pair
  <1>4. PICK q \in Seq(QueuedFrames) : q = c.pending
    BY <1>3 DEF Clients
  <1>5. PICK f \in QueuedFrames, p \in Seq(QueuedFrames) : f = Head(q) /\ p = Tail(q)
    BY <1>2, <1>4, QueueParts
  <1>6. PICK r \in Clients : r = c' /\ ClientSound(r) /\ r.pending = p /\ r.seq = c.seq /\ r.subs = c.subs /\ ~r.closed
    BY <1>2, <1>3, <1>4, <1>5, RemoveFirstSound
  <1>7. PICK e \in Seq(QueuedFrames) : e = down' /\ Range(e) = Range(down) \cup {f}
                                       /\ Len(e) = Len(down) + 1 /\ e[Len(down) + 1] = f
                                       /\ \A i \in 1..Len(down) : e[i] = down[i]
    <2>1. \A g \in QueuedFrames : Range(Append(down, g)) = Range(down) \cup {g}
      BY <1>3, Members
    <2>2. \A g \in QueuedFrames : /\ Append(down, g) \in Seq(QueuedFrames) /\ Len(Append(down, g)) = Len(down) + 1
                                  /\ \A i \in 1..Len(down) : Append(down, g)[i] = down[i]
                                  /\ Append(down, g)[Len(down) + 1] = g
      BY <1>3, QueueSteps
    <2> QED BY <1>2, <1>4, <1>5, <2>1, <2>2
  <1>8. Range(q) = {f} \cup Range(p) /\ f \in Range(q)
    BY <1>2, <1>4, <1>5, Members
  <1>9. Coming(r, e) = Coming(c, down)
    BY <1>4, <1>6, <1>7, <1>8 DEF Coming
  <1>10. /\ \A g \in Range(down), h \in Range(q) : g.seq < h.seq
         /\ \A g \in Range(down) : g.seq <= c.seq
         /\ Coming(c, down) # {} => \E g \in Coming(c, down) : g.seq = c.seq
         /\ \A i, j \in 1..Len(down) : i < j => down[i].seq < down[j].seq
    <2>1. /\ \A g \in Range(down), h \in Range(c.pending) : g.seq < h.seq
          /\ \A g \in Range(down) : g.seq <= c.seq
          /\ Coming(c, down) # {} => \E g \in Coming(c, down) : g.seq = c.seq
          /\ Rising(down)
      BY <1>2, <1>3 DEF InOrder
    <2>2. DOMAIN down = 1..Len(down)
      BY <1>3
    <2> QED BY <1>4, <2>1, <2>2 DEF Rising
  <1>11. \A h \in Range(p) : f.seq < h.seq
    <2> TAKE h \in Range(p)
    <2>1. PICK i \in 1..Len(p) : h = p[i]
      BY Members
    <2>2. Len(q) \in Nat \ {0} /\ Len(p) = Len(q) - 1 /\ p[i] = q[i + 1] /\ f = q[1]
      BY <1>2, <1>4, <1>5, <2>1, QueueParts
    <2>3. 1 \in DOMAIN q /\ i + 1 \in DOMAIN q /\ 1 < i + 1
      BY <2>2
    <2> QED BY <1>3, <1>4, <2>1, <2>2, <2>3 DEF ClientSound, Sequenced
  <1>12. f.seq <= c.seq
    <2>1. Numbered(Coming(c, down), c.seq)
      BY <1>2, <1>3, InOrderNumbers
    <2>2. f \in Coming(c, down)
      BY <1>4, <1>8 DEF Coming
    <2> QED BY <2>1, <2>2 DEF Numbered
  <1>13. Rising(e)
    <2>1. ASSUME NEW i \in 1..Len(e), NEW j \in 1..Len(e), i < j PROVE e[i].seq < e[j].seq
      <3>1. Len(down) \in Nat /\ i \in 1..Len(down)
        BY <1>3, <1>7, <2>1
      <3>2. CASE j = Len(down) + 1
        <4>1. e[i] = down[i] /\ down[i] \in Range(down)
          BY <1>3, <1>7, <3>1, Members
        <4> QED BY <1>7, <1>8, <1>10, <3>2, <4>1
      <3>3. CASE j # Len(down) + 1
        <4>1. j \in 1..Len(down)
          BY <1>7, <3>1, <3>3
        <4> QED BY <1>7, <1>10, <2>1, <3>1, <4>1
      <3> QED BY <3>2, <3>3
    <2>2. DOMAIN e = 1..Len(e)
      OBVIOUS
    <2> QED BY <2>1, <2>2 DEF Rising
  <1>14. InOrder(r, e)
    <2>1. \A g \in Range(e), h \in Range(p) : g.seq < h.seq
      BY <1>7, <1>8, <1>10, <1>11
    <2>2. \A g \in Range(e) : g.seq <= c.seq
      BY <1>7, <1>10, <1>12
    <2> QED BY <1>6, <1>9, <1>10, <1>13, <2>1, <2>2 DEF InOrder
  <1>15. Pair(r, e, b, resync, dispatched)
    BY <1>1, <1>2, <1>6, <1>9, <1>14, SameFramesKeepPair
  <1> QED BY <1>1, <1>2, <1>6, <1>7, <1>15 DEF StreamInv

(* The end of a connection on the server's side.                           *)
LEMMA SlowClientKeeps == ASSUME StreamInv, SlowClient PROVE StreamInv'
  <1>1. v \in Nat /\ dispatched \in 0..v /\ Pair(c, down, b, resync, dispatched)
    BY DEF StreamInv
  <1>2. v' = v /\ down' = down /\ b' = b /\ dispatched' = dispatched /\ resync' = resync /\ c' = SignalClose(c)
    BY DEF SlowClient
  <1>3. c \in Clients /\ resync \in BOOLEAN /\ dispatched \in Nat
    BY <1>1 DEF Pair
  <1>4. PICK r \in Clients : r = c' /\ ClientSound(r) /\ Refuses(c, r)
    BY <1>2, <1>3, SignalCloseSound
  <1>5. Pair(r, down, b, resync, dispatched)
    BY <1>1, <1>3, <1>4, RefusalKeepsPair
  <1> QED BY <1>1, <1>2, <1>4, <1>5 DEF StreamInv

(* What is asked for stays in order as the server reads.                   *)
LEMMA CommandsLeft ==
  ASSUME NEW q \in Seq(Commands), q # <<>>
  PROVE  /\ Tail(q) \in Seq(Commands) /\ Head(q) \in Commands /\ Head(q) = q[1] /\ 1 \in DOMAIN q
         /\ Repairs(q) => Repairs(Tail(q))
         /\ Returns(q) => Returns(Tail(q))
         /\ \A i \in DOMAIN q : i = 1 \/ \E k \in DOMAIN Tail(q) : Tail(q)[k] = q[i]
         /\ Range(q) = {Head(q)} \cup Range(Tail(q))
  <1>1. PICK p \in Seq(Commands) : p = Tail(q)
    BY QueueParts
  <1>2. /\ Len(q) \in Nat \ {0} /\ Len(p) = Len(q) - 1 /\ \A i \in 1..Len(q) - 1 : p[i] = q[i + 1]
        /\ Head(q) \in Commands /\ Head(q) = q[1] /\ 1 \in DOMAIN q /\ DOMAIN q = 1..Len(q) /\ DOMAIN p = 1..Len(p)
    BY <1>1, QueueParts
  <1>3. \A i \in DOMAIN p : i + 1 \in DOMAIN q /\ p[i] = q[i + 1]
    BY <1>2
  <1>4. \A i \in DOMAIN q : i = 1 \/ (i - 1 \in DOMAIN p /\ p[i - 1] = q[i])
    <2> TAKE i \in DOMAIN q
    <2>1. i = 1 \/ (i - 1 \in 1..Len(q) - 1 /\ (i - 1) + 1 = i)
      BY <1>2
    <2> QED BY <1>2, <2>1
  <1>5. \A i \in DOMAIN p, j \in DOMAIN q : j > i + 1 => j - 1 \in DOMAIN p /\ j - 1 > i /\ p[j - 1] = q[j]
    BY <1>2, <1>4
  <1>6. Repairs(q) => Repairs(p)
    BY <1>3, <1>5 DEF Repairs
  <1>7. Returns(q) => Returns(p)
    BY <1>3, <1>5 DEF Returns
  <1>8. \A i \in DOMAIN q : i = 1 \/ \E k \in DOMAIN p : p[k] = q[i]
    BY <1>4
  <1>9. Range(q) = {Head(q)} \cup Range(p)
    BY <1>1, Members
  <1> QED BY <1>1, <1>2, <1>6, <1>7, <1>8, <1>9

(* The client r is w with other subscriptions.                             *)
Subscribes(w, command, r) ==
  /\ r \in Clients /\ r.pending = w.pending /\ r.bytes = w.bytes /\ r.seq = w.seq /\ r.closed = w.closed
  /\ r.waiting = w.waiting /\ r.wake = w.wake
  /\ r.subs = IF command.type = "subscribe" THEN w.subs \cup command.channels
                                            ELSE w.subs \ command.channels

(* subscribe and unsubscribe change nothing but the subscriptions.         *)
LEMMA SubscriptionsSound ==
  ASSUME NEW w \in Clients, NEW command \in Commands
  PROVE  Subscribes(w, command, SetSubscriptions(w, command))
  <1> DEFINE r == SetSubscriptions(w, command)
  <1>1. PICK S \in SUBSET Channels : S = w.subs
    BY DEF Clients
  <1>2. PICK T \in SUBSET Channels : T = command.channels
    BY DEF Commands
  <1>3. PICK U \in SUBSET Channels : U = IF command.type = "subscribe" THEN S \cup T ELSE S \ T
    OBVIOUS
  <1>4. r = [w EXCEPT !.subs = U]
    BY <1>1, <1>2, <1>3 DEF SetSubscriptions, Clients
  <1> HIDE DEF r
  <1>5. r \in Clients
    BY <1>4 DEF Clients
  <1>6. /\ r.pending = w.pending /\ r.bytes = w.bytes /\ r.seq = w.seq /\ r.closed = w.closed
        /\ r.waiting = w.waiting /\ r.wake = w.wake /\ r.subs = U
    BY <1>4 DEF Clients
  <1>7. Subscribes(w, command, r)
    BY <1>1, <1>2, <1>3, <1>5, <1>6 DEF Subscribes
  <1> QED BY <1>7 DEF r

(* What handleCommand makes of a command, but for the answer to a ping.    *)
Obeys(w, command) == IF command.type \in {"subscribe", "unsubscribe"} THEN SetSubscriptions(w, command) ELSE w

(* The client r, the browser u and the pending resync z once it is read.   *)
IsRead(w, x, y, r, u, z) ==
  /\ ~w.closed /\ x.up # <<>>
  /\ z \in BOOLEAN /\ z = (y \/ Head(x.up).type = "resync")
  /\ r = Obeys(w, Head(x.up)) /\ u = [x EXCEPT !.up = Tail(x.up)]

(* A command that the server reads keeps the pair sound.                   *)
LEMMA CommandKeepsPair ==
  ASSUME NEW w, NEW d, NEW x, NEW y, NEW n, Pair(w, d, x, y, n),
         NEW r, NEW u, NEW z, IsRead(w, x, y, r, u, z)
  PROVE  Pair(r, d, u, z, n)
  <1>1. /\ ~w.closed /\ x.up # <<>> /\ z \in BOOLEAN /\ z = (y \/ Head(x.up).type = "resync")
         /\ r = Obeys(w, Head(x.up)) /\ u = [x EXCEPT !.up = Tail(x.up)]
    BY DEF IsRead
  <1>2. /\ w \in Clients /\ d \in Seq(QueuedFrames) /\ x \in Browsers /\ y \in BOOLEAN /\ n \in Nat
        /\ ClientSound(w) /\ InOrder(w, d) /\ OneSocket(w, d, x, y) /\ Asks(w, x) /\ Visible(w, d, x, y, n)
    BY DEF Pair
  <1>3. PICK q \in Seq(Commands) : q = x.up
    BY <1>2 DEF Browsers
  <1>4. PICK p \in Seq(Commands), command \in Commands : p = Tail(q) /\ command = Head(q)
    BY <1>1, <1>3, CommandsLeft
  <1>5. /\ command = q[1] /\ 1 \in DOMAIN q /\ (Repairs(q) => Repairs(p)) /\ (Returns(q) => Returns(p))
        /\ \A i \in DOMAIN q : i = 1 \/ \E k \in DOMAIN p : p[k] = q[i]
        /\ Range(q) = {command} \cup Range(p)
    BY <1>1, <1>3, <1>4, CommandsLeft
  <1>6. u = [x EXCEPT !.up = p] /\ z = (y \/ command.type = "resync") /\ r = Obeys(w, command)
    BY <1>1, <1>3, <1>4
  <1>7. u \in Browsers
    <2>1. PICK Q : Q = Seq(Commands)
      OBVIOUS
    <2>2. p \in Q
      BY <2>1
    <2> QED BY <1>2, <1>6, <2>1, <2>2 DEF Browsers
  <1>8. /\ u.ws = x.ws /\ u.sequence = x.sequence /\ u.resyncing = x.resyncing /\ u.desired = x.desired
        /\ u.requestedRepair = x.requestedRepair /\ u.profileBarrier = x.profileBarrier
        /\ u.applied = x.applied /\ u.have = x.have /\ u.up = p
    BY <1>2, <1>6 DEF Browsers
  <1>9. /\ r \in Clients /\ r.pending = w.pending /\ r.bytes = w.bytes /\ r.seq = w.seq /\ ~r.closed
        /\ r.waiting = w.waiting /\ r.wake = w.wake
        /\ (command.type = "subscribe" => r.subs = w.subs \cup command.channels)
        /\ (command.type = "unsubscribe" => r.subs = w.subs \ command.channels)
        /\ (command.type \notin {"subscribe", "unsubscribe"} => r.subs = w.subs)
    <2>1. CASE command.type \in {"subscribe", "unsubscribe"}
      <3>1. r = SetSubscriptions(w, command)
        BY <1>6, <2>1 DEF Obeys
      <3>2. w \in Clients
        BY <1>2
      <3>3. Subscribes(w, command, r)
        BY <3>1, <3>2, SubscriptionsSound
      <3> QED BY <1>1, <2>1, <3>3 DEF Subscribes
    <2>2. CASE command.type \notin {"subscribe", "unsubscribe"}
      BY <1>2, <1>6, <1>1, <2>2 DEF Obeys
    <2> QED BY <2>1, <2>2
  <1>10. ClientSound(r)
    BY <1>2, <1>9 DEF ClientSound, BytesExact, Sequenced
  <1>11. Coming(r, d) = Coming(w, d)
    BY <1>9 DEF Coming
  <1>12. InOrder(r, d)
    BY <1>1, <1>2, <1>9, <1>11 DEF InOrder
  <1>13. x.ws = "open"
    BY <1>1, <1>2 DEF OneSocket
  <1>14. OneSocket(r, d, u, z)
    BY <1>8, <1>13 DEF OneSocket
  <1>15. Asked(x, y) => Asked(u, z)
    <2> SUFFICES ASSUME Asked(x, y) PROVE Asked(u, z)
      OBVIOUS
    <2>1. CASE y
      BY <1>6, <2>1 DEF Asked
    <2>2. CASE Resync \in Range(q)
      <3>1. CASE Resync = command
        BY <1>6, <3>1 DEF Asked, Resync
      <3>2. CASE Resync # command
        BY <1>5, <1>8, <2>2, <3>2 DEF Asked
      <3> QED BY <3>1, <3>2
    <2> QED BY <1>3, <2>1, <2>2 DEF Asked
  <1>16. Visible(r, d, u, z, n)
    BY <1>1, <1>2, <1>8, <1>9, <1>11, <1>15 DEF Visible
  <1>17. Asks(r, u)
    <2>1. /\ u.requestedRepair => u.resyncing
          /\ u.ws = "open" /\ ~u.resyncing =>
               u.applied = u.desired /\ (u.applied = "dashboard" => ~u.profileBarrier)
      BY <1>2, <1>8 DEF Asks
    <2>2. Repairs(u.up)
      BY <1>2, <1>3, <1>5, <1>8 DEF Asks
    <2>3. ASSUME u.applied = "dashboard"
          PROVE  Returns(u.up) /\ ("dashboard" \notin r.subs => \E j \in DOMAIN p : Resumes(p[j]))
      <3>1. Returns(q) /\ ("dashboard" \notin w.subs => \E j \in DOMAIN q : Resumes(q[j]))
        BY <1>1, <1>2, <1>3, <1>8, <1>13, <2>3 DEF Asks
      <3>2. ASSUME "dashboard" \notin r.subs PROVE \E j \in DOMAIN p : Resumes(p[j])
        <4>1. ~Resumes(command)
          BY <1>9, <3>2 DEF Resumes
        <4>2. CASE Leaves(command)
          <5>1. PICK j \in DOMAIN q : j > 1 /\ Resumes(q[j])
            BY <1>5, <3>1, <4>2 DEF Returns
          <5>2. PICK k \in DOMAIN p : p[k] = q[j]
            BY <1>5, <5>1
          <5> QED BY <5>1, <5>2
        <4>3. CASE ~Leaves(command)
          <5>1. "dashboard" \notin w.subs
            BY <1>9, <3>2, <4>3 DEF Leaves
          <5>2. PICK j \in DOMAIN q : Resumes(q[j])
            BY <3>1, <5>1
          <5>3. PICK k \in DOMAIN p : p[k] = q[j]
            BY <1>5, <4>1, <5>2
          <5> QED BY <5>2, <5>3
        <4> QED BY <4>2, <4>3
      <3> QED BY <1>5, <1>8, <3>1, <3>2
    <2> QED BY <1>8, <1>9, <2>1, <2>2, <2>3 DEF Asks
  <1> QED BY <1>2, <1>7, <1>1, <1>9, <1>10, <1>12, <1>14, <1>16, <1>17 DEF Pair

(* readPump                                                                *)
LEMMA ReadCommandKeeps == ASSUME StreamInv, ReadCommand PROVE StreamInv'
  <1>1. v \in Nat /\ dispatched \in 0..v /\ Pair(c, down, b, resync, dispatched)
    BY DEF StreamInv
  <1>2. PICK command : command = Head(b.up)
    OBVIOUS
  <1>3. /\ v' = v /\ down' = down /\ dispatched' = dispatched /\ b.up # <<>> /\ ~c.closed
        /\ b' = [b EXCEPT !.up = Tail(b.up)] /\ resync' = (resync \/ command.type = "resync")
        /\ c' = CASE command.type \in {"subscribe", "unsubscribe"} -> SetSubscriptions(c, command)
                  [] command.type = "ping" -> QueueLocked(c, Frame("pong", 0))
                  [] command.type = "resync" -> c
    BY <1>2 DEF ReadCommand
  <1>4. b.up \in Seq(Commands) /\ dispatched \in Nat
    BY <1>1 DEF Pair, Browsers
  <1>5. command \in Commands
    BY <1>2, <1>3, <1>4, CommandsLeft
  <1>6. command.type \in {"subscribe", "unsubscribe", "ping", "resync"}
    BY <1>5 DEF Commands
  <1>7. PICK z \in BOOLEAN : z = resync'
    <2>1. resync' \in BOOLEAN
      BY <1>1, <1>3 DEF Pair
    <2> QED BY <2>1
  <1>8. PICK r, x : z = resync' /\ r = Obeys(c, command) /\ x = b'
    BY <1>7
  <1>9. Pair(r, down, x, z, dispatched)
    <2>1. IsRead(c, b, resync, r, x, z)
      BY <1>2, <1>3, <1>7, <1>8 DEF IsRead
    <2> QED BY <1>1, <2>1, CommandKeepsPair
  <1>10. CASE command.type \in {"subscribe", "unsubscribe"}
    <2>1. c' = r
      BY <1>3, <1>8, <1>10 DEF Obeys
    <2> QED BY <1>1, <1>3, <1>8, <1>9, <2>1 DEF StreamInv
  <1>11. CASE command.type = "resync"
    <2>1. c' = r
      BY <1>3, <1>8, <1>11 DEF Obeys
    <2> QED BY <1>1, <1>3, <1>8, <1>9, <2>1 DEF StreamInv
  <1>12. CASE command.type = "ping"
    <2>1. r = c /\ c' = QueueLocked(c, Frame("pong", 0))
      BY <1>3, <1>8, <1>12 DEF Obeys
    <2>2. Fits(Frame("pong", 0), dispatched, dispatched)
      BY <1>4, HubFramesFit
    <2>3. Pair(c', down, x, z, dispatched)
      BY <1>9, <2>1, <2>2, QueueKeepsPair
    <2> QED BY <1>1, <1>3, <1>8, <2>3 DEF StreamInv
  <1> QED BY <1>6, <1>10, <1>11, <1>12

(* The baseline is queued for a new client before anything else.           *)
LEMMA AdmitKeeps == ASSUME StreamInv, Admit PROVE StreamInv'
  <1>1. v \in Nat /\ dispatched \in 0..v /\ Pair(c, down, b, resync, dispatched)
    BY DEF StreamInv
  <1>2. PICK f : f = Frame("state.snapshot", v)
    OBVIOUS
  <1>3. /\ v' = v /\ down' = down /\ dispatched' = dispatched /\ resync' = resync
        /\ b.ws = "dialing" /\ b' = [b EXCEPT !.ws = "open"] /\ c' = QueueLocked(NewClient, f)
    BY <1>2 DEF Admit, Snapshot
  <1>4. dispatched \in Nat /\ v >= dispatched
    BY <1>1
  <1>5. Fits(f, dispatched, dispatched) /\ f.type = "state.snapshot"
    BY <1>1, <1>2, <1>4, HubFramesFit
  <1>6. f \in NewFrames /\ f.version >= dispatched
    BY <1>5 DEF Fits
  <1>7. /\ b \in Browsers /\ resync \in BOOLEAN /\ OneSocket(c, down, b, resync) /\ Asks(c, b)
        /\ down \in Seq(QueuedFrames)
    BY <1>1 DEF Pair
  <1>8. /\ down = <<>> /\ b.up = <<>> /\ ~resync /\ b.resyncing /\ ~b.requestedRepair
        /\ b.applied = "dashboard" /\ b.sequence = 0
    BY <1>3, <1>7 DEF OneSocket
  <1>9. PICK x \in Browsers : /\ x = b' /\ x.ws = "open" /\ x.up = <<>> /\ x.resyncing /\ ~x.requestedRepair
                              /\ x.applied = "dashboard" /\ x.sequence = 0
    <2>1. b' \in Browsers
      BY <1>3, <1>7 DEF Browsers
    <2>2. /\ b'.ws = "open" /\ b'.up = <<>> /\ b'.resyncing /\ ~b'.requestedRepair
          /\ b'.applied = "dashboard" /\ b'.sequence = 0
      BY <1>3, <1>7, <1>8 DEF Browsers
    <2> QED BY <2>1, <2>2
  <1>10. PICK w \in Clients : /\ w = NewClient /\ ClientSound(w) /\ ~w.closed /\ w.pending = <<>> /\ w.seq = 0
                              /\ w.subs = {"dashboard"} /\ InOrder(w, down) /\ Coming(w, down) = {}
    <2>1. <<>> \in Seq(QueuedFrames) /\ BytesOf(<<>>) = 0
      BY EmptySeq, BytesOfAppend
    <2>2. NewClient \in Clients
      BY <2>1 DEF NewClient, Clients, Channels
    <2>3. /\ ~NewClient.closed /\ NewClient.pending = <<>> /\ NewClient.seq = 0 /\ NewClient.bytes = 0
          /\ NewClient.subs = {"dashboard"}
      BY DEF NewClient
    <2>4. ClientSound(NewClient)
      BY <2>1, <2>3, QueueAssumption DEF ClientSound, BytesExact, Sequenced
    <2>5. Coming(NewClient, down) = {} /\ Range(down) = {} /\ Range(NewClient.pending) = {}
      BY <1>8, <2>3 DEF Coming, Range
    <2>6. InOrder(NewClient, down)
      BY <1>8, <2>5 DEF InOrder, Rising
    <2> QED BY <2>2, <2>3, <2>4, <2>5, <2>6
  <1>11. PICK r : r = c'
    OBVIOUS
  <1>12. /\ r \in Clients /\ ClientSound(r)
         /\ Refuses(w, r) \/ Superseded(w, f, r) \/ Enqueued(w, f, r)
    BY <1>3, <1>6, <1>10, <1>11, QueueLockedSound
  <1>13. OneSocket(r, down, x, resync)
    BY <1>9 DEF OneSocket
  <1>14. Repairs(x.up) /\ Returns(x.up)
    BY <1>9 DEF Repairs, Returns
  <1>15. CASE Refuses(w, r)
    <2>1. r.closed /\ Range(r.pending) = {}
      BY <1>15 DEF Refuses, Range
    <2>2. InOrder(r, down)
      BY <1>10, <2>1 DEF InOrder
    <2>3. Asks(r, x) /\ Visible(r, down, x, resync, dispatched)
      BY <1>9, <1>14, <2>1 DEF Asks, Visible
    <2>4. Pair(r, down, x, resync, dispatched)
      BY <1>4, <1>7, <1>12, <1>13, <2>2, <2>3 DEF Pair
    <2> QED BY <1>1, <1>3, <1>9, <1>11, <2>4 DEF StreamInv
  <1>16. CASE ~Refuses(w, r)
    <2>1. ~Superseded(w, f, r)
      BY <1>10 DEF Superseded
    <2>2. Enqueued(w, f, r)
      BY <1>12, <1>16, <2>1
    <2>3. InOrder(r, down) /\ r.seq = 1 /\ Extends({}, 0, f, Coming(r, down)) /\ ~r.closed /\ "dashboard" \in r.subs
      <3>1. InOrder(r, down) /\ r.seq = w.seq + 1 /\ Extends(Coming(w, down), w.seq, f, Coming(r, down))
        BY <1>6, <1>7, <1>10, <1>12, <2>2, EnqueuedInOrder
      <3> QED BY <1>10, <2>2, <3>1 DEF Enqueued
    <2>4. PICK e : e = Renumbered(f, 1) /\ e.seq = 1 /\ e.type = "state.snapshot" /\ e.version = f.version
      BY <1>5, <1>6, RenumberedSays
    <2>5. e \in Coming(r, down)
      BY <2>3, <2>4 DEF Extends
    <2>6. Numbered(Coming(r, down), 1)
      BY <1>7, <1>12, <2>3, InOrderNumbers
    <2>7. Followed(Coming(r, down), 1, dispatched)
      BY <1>4, <1>6, <2>4, <2>5, <2>6, BaselineTells
    <2>8. Visible(r, down, x, resync, dispatched)
      BY <1>9, <2>3, <2>4, <2>5, <2>7 DEF Visible
    <2>9. Asks(r, x)
      BY <1>9, <1>14, <2>3 DEF Asks
    <2>10. Pair(r, down, x, resync, dispatched)
      BY <1>4, <1>7, <1>12, <1>13, <2>3, <2>8, <2>9 DEF Pair
    <2> QED BY <1>1, <1>3, <1>9, <1>11, <2>10 DEF StreamInv
  <1> QED BY <1>15, <1>16

-----------------------------------------------------------------------------
(* The browser's side keeps the invariant *)

(* What the timers and the probes change of a browser.                     *)
SameTab(x, u) ==
  /\ u.ws = x.ws /\ u.sequence = x.sequence /\ u.resyncing = x.resyncing
  /\ u.requestedRepair = x.requestedRepair /\ u.profileBarrier = x.profileBarrier
  /\ u.applied = x.applied /\ u.have = x.have /\ u.up = x.up

(* They keep the pair sound, in the profile that is applied.               *)
LEMMA SameTabKeepsPair ==
  ASSUME NEW w, NEW d, NEW x, NEW y, NEW n, Pair(w, d, x, y, n), NEW u \in Browsers, SameTab(x, u),
         u.ws = "open" /\ ~u.resyncing => u.applied = u.desired
  PROVE  Pair(w, d, u, y, n)
  <1>1. /\ w \in Clients /\ d \in Seq(QueuedFrames) /\ x \in Browsers /\ y \in BOOLEAN /\ n \in Nat
        /\ ClientSound(w) /\ InOrder(w, d) /\ OneSocket(w, d, x, y) /\ Asks(w, x) /\ Visible(w, d, x, y, n)
    BY DEF Pair
  <1>2. OneSocket(w, d, u, y)
    BY <1>1 DEF OneSocket, SameTab
  <1>3. Asks(w, u)
    BY <1>1 DEF Asks, SameTab
  <1>4. Visible(w, d, u, y, n)
    BY <1>1 DEF Visible, Asked, SameTab
  <1> QED BY <1>1, <1>2, <1>3, <1>4 DEF Pair

(* No more is heard of a socket that the browser has given up.             *)
LEMMA ForgottenPair ==
  ASSUME NEW u \in Browsers, u.ws # "open", u.up = <<>>, u.requestedRepair => u.resyncing, NEW n \in Nat,
         u.ws = "dialing" => u.resyncing /\ ~u.requestedRepair /\ u.applied = "dashboard" /\ u.sequence = 0
  PROVE  Pair(NoClient, <<>>, u, FALSE, n)
  <1>1. <<>> \in Seq(QueuedFrames)
    BY EmptySeq
  <1>2. NewClient \in Clients
    BY <1>1 DEF NewClient, Clients, Channels
  <1>3. PICK w \in Clients : w = NoClient /\ ClientSound(w) /\ w.closed /\ w.pending = <<>>
    BY <1>2, SignalCloseSound DEF NoClient, Refuses
  <1>4. PICK d \in Seq(QueuedFrames) : d = <<>> /\ Rising(d) /\ Range(d) = {} /\ Range(w.pending) = {}
    <2>1. Rising(<<>>) /\ Range(<<>>) = {}
      BY DEF Rising, Range
    <2> QED BY <1>1, <1>3, <2>1
  <1>5. PICK y \in BOOLEAN : y = FALSE
    OBVIOUS
  <1>6. InOrder(w, d)
    BY <1>3, <1>4 DEF InOrder
  <1>7. OneSocket(w, d, u, y)
    BY <1>3, <1>4, <1>5 DEF OneSocket
  <1>8. Asks(w, u)
    BY <1>3 DEF Asks, Repairs, Returns
  <1>9. Visible(w, d, u, y, n)
    BY DEF Visible
  <1>10. Pair(w, d, u, y, n)
    BY <1>3, <1>6, <1>7, <1>8, <1>9 DEF Pair
  <1> QED BY <1>3, <1>4, <1>5, <1>10

(* Commands that are sent come after those that the server has yet to read.*)
Joins(q, e, p) ==
  /\ p \in Seq(Commands) /\ Len(p) = Len(q) + Len(e) /\ Len(q) \in Nat /\ Len(e) \in Nat
  /\ DOMAIN p = 1..Len(q) + Len(e) /\ DOMAIN q = 1..Len(q)
  /\ \A i \in 1..Len(q) : p[i] = q[i]
  /\ \A i \in 1..Len(e) : p[Len(q) + i] = e[i] /\ Len(q) + i \in DOMAIN p
  /\ \A i \in DOMAIN p : i \in 1..Len(q) \/ \E k \in 1..Len(e) : i = Len(q) + k /\ p[i] = e[k]

(* Sending appends: what was there stays where it is.                      *)
LEMMA CommandsSent ==
  ASSUME NEW q \in Seq(Commands), NEW e \in Seq(Commands), NEW p, p = q \o e
  PROVE  Joins(q, e, p)
  <1>1. p \in Seq(Commands) /\ Len(p) = Len(q) + Len(e) /\ Len(q) \in Nat /\ Len(e) \in Nat
    OBVIOUS
  <1>2. DOMAIN p = 1..Len(q) + Len(e) /\ DOMAIN q = 1..Len(q)
    OBVIOUS
  <1>3. \A i \in 1..Len(q) : p[i] = q[i]
    OBVIOUS
  <1>4. \A i \in 1..Len(e) : p[Len(q) + i] = e[i] /\ Len(q) + i \in DOMAIN p
    OBVIOUS
  <1>5. \A i \in DOMAIN p : i \in 1..Len(q) \/ \E k \in 1..Len(e) : i = Len(q) + k /\ p[i] = e[k]
    <2> TAKE i \in DOMAIN p
    <2>1. i \in 1..Len(q) \/ (i - Len(q) \in 1..Len(e) /\ i = Len(q) + (i - Len(q)))
      BY <1>1, <1>2
    <2> QED BY <1>4, <2>1
  <1> QED BY <1>1, <1>2, <1>3, <1>4, <1>5 DEF Joins

(* requestRepair, for one who has no request out: a resync is the last     *)
(* thing the browser has asked for.                                        *)
LEMMA ResyncSent ==
  ASSUME NEW w, NEW d, NEW x, NEW y, NEW n, Pair(w, d, x, y, n), x.ws = "open",
         NEW u \in Browsers, NEW p, u.up = Append(p, Resync), p \in Seq(Commands),
         Returns(p) \/ u.applied # "dashboard",
         u.applied = "dashboard" /\ ~w.closed /\ "dashboard" \notin w.subs => \E j \in DOMAIN p : Resumes(p[j]),
         u.ws = "open" /\ u.sequence = x.sequence /\ u.resyncing
  PROVE  Pair(w, d, u, y, n) /\ Asked(u, y)
  <1>1. /\ w \in Clients /\ d \in Seq(QueuedFrames) /\ x \in Browsers /\ y \in BOOLEAN /\ n \in Nat
        /\ ClientSound(w) /\ InOrder(w, d) /\ OneSocket(w, d, x, y) /\ Asks(w, x) /\ Visible(w, d, x, y, n)
    BY DEF Pair
  <1>2. Resync \in Commands /\ ~Resumes(Resync) /\ ~Leaves(Resync)
    BY DEF Resync, Commands, Resumes, Leaves
  <1>3. PICK q \in Seq(Commands) : /\ q = u.up /\ Len(q) = Len(p) + 1 /\ q[Len(p) + 1] = Resync
                                   /\ (\A i \in 1..Len(p) : q[i] = p[i]) /\ Range(q) = Range(p) \cup {Resync}
    <2>1. \A g \in Commands : /\ Append(p, g) \in Seq(Commands) /\ Len(Append(p, g)) = Len(p) + 1
                              /\ \A i \in 1..Len(p) : Append(p, g)[i] = p[i]
                              /\ Append(p, g)[Len(p) + 1] = g
      BY QueueSteps
    <2>2. \A g \in Commands : Range(Append(p, g)) = Range(p) \cup {g}
      BY Members
    <2> QED BY <1>2, <2>1, <2>2
  <1>4. /\ Len(p) \in Nat /\ DOMAIN p = 1..Len(p) /\ DOMAIN q = 1..Len(p) + 1
        /\ \A i \in DOMAIN q : i = Len(p) + 1 \/ (i \in DOMAIN p /\ i < Len(p) + 1)
    BY <1>3
  <1>5. Repairs(q)
    BY <1>2, <1>3, <1>4 DEF Repairs
  <1>6. u.applied = "dashboard" => Returns(q)
    <2> SUFFICES ASSUME u.applied = "dashboard", NEW i \in DOMAIN q, Leaves(q[i])
                 PROVE  \E j \in DOMAIN q : j > i /\ Resumes(q[j])
      BY DEF Returns
    <2>1. i \in DOMAIN p /\ Leaves(p[i])
      BY <1>2, <1>3, <1>4
    <2>2. PICK j \in DOMAIN p : j > i /\ Resumes(p[j])
      BY <2>1 DEF Returns
    <2>3. j \in DOMAIN q /\ q[j] = p[j]
      BY <1>3, <1>4
    <2> QED BY <2>2, <2>3
  <1>7. u.applied = "dashboard" /\ ~w.closed /\ "dashboard" \notin w.subs => \E j \in DOMAIN q : Resumes(q[j])
    <2> SUFFICES ASSUME NEW j \in DOMAIN p, Resumes(p[j]) PROVE \E i \in DOMAIN q : Resumes(q[i])
      OBVIOUS
    <2>1. j \in DOMAIN q /\ q[j] = p[j]
      BY <1>3, <1>4
    <2> QED BY <2>1
  <1>8. Asks(w, u)
    BY <1>3, <1>5, <1>6, <1>7 DEF Asks
  <1>9. Asked(u, y)
    BY <1>3 DEF Asked
  <1>10. Visible(w, d, u, y, n)
    BY <1>1, <1>9 DEF Visible
  <1>11. OneSocket(w, d, u, y)
    BY DEF OneSocket
  <1> QED BY <1>1, <1>8, <1>9, <1>10, <1>11 DEF Pair

(* requestRepair                                                           *)
LEMMA RequestRepairKeepsPair ==
  ASSUME NEW w, NEW d, NEW x, NEW y, NEW n, Pair(w, d, x, y, n)
  PROVE  /\ Pair(w, d, RequestRepair(x), y, n) /\ RequestRepair(x).ws = x.ws
         /\ x.ws = "open" /\ ~x.requestedRepair => Asked(RequestRepair(x), y)
  <1>1. x \in Browsers /\ Asks(w, x)
    BY DEF Pair
  <1>2. CASE x.requestedRepair \/ x.ws # "open"
    BY <1>2 DEF RequestRepair
  <1>3. CASE ~(x.requestedRepair \/ x.ws # "open")
    <2>1. PICK p \in Seq(Commands) : p = x.up
      BY <1>1 DEF Browsers
    <2>2. PICK q \in Seq(Commands) : q = Append(p, Resync)
      <3>1. Resync \in Commands
        BY DEF Resync, Commands
      <3> QED BY <3>1, QueueSteps
    <2>3. PICK u : u = RequestRepair(x)
      OBVIOUS
    <2>4. u = [x EXCEPT !.requestedRepair = TRUE, !.resyncing = TRUE, !.up = q]
      BY <1>3, <2>1, <2>2, <2>3 DEF RequestRepair
    <2>5. u \in Browsers
      <3>1. PICK Q : Q = Seq(Commands)
        OBVIOUS
      <3>2. q \in Q
        BY <3>1
      <3>3. PICK t \in BOOLEAN : t = TRUE
        OBVIOUS
      <3>4. u = [x EXCEPT !.requestedRepair = t, !.resyncing = t, !.up = q]
        BY <2>4, <3>3
      <3> QED BY <1>1, <3>1, <3>2, <3>4 DEF Browsers
    <2>6. /\ u.up = q /\ u.ws = "open" /\ u.sequence = x.sequence /\ u.resyncing
          /\ u.applied = x.applied
      BY <1>1, <1>3, <2>4 DEF Browsers
    <2>7. Returns(p) \/ u.applied # "dashboard"
      BY <1>1, <2>1, <2>6 DEF Asks
    <2>8. u.applied = "dashboard" /\ ~w.closed /\ "dashboard" \notin w.subs => \E j \in DOMAIN p : Resumes(p[j])
      BY <1>1, <1>3, <2>1, <2>6 DEF Asks
    <2>9. Pair(w, d, u, y, n) /\ Asked(u, y)
      BY <1>3, <2>2, <2>5, <2>6, <2>7, <2>8, ResyncSent
    <2> QED BY <1>3, <2>3, <2>6, <2>9
  <1> QED BY <1>2, <1>3

(* applyProfile, for a tab whose profile may have changed.                 *)
LEMMA ApplyProfileKeepsPair ==
  ASSUME NEW w, NEW d, NEW x, NEW y, NEW n, Pair(w, d, x, y, n), NEW u \in Browsers, SameTab(x, u)
  PROVE  Pair(w, d, ApplyProfile(u), y, n) /\ ApplyProfile(u).ws = u.ws
  <1>1. /\ w \in Clients /\ d \in Seq(QueuedFrames) /\ x \in Browsers /\ y \in BOOLEAN /\ n \in Nat
        /\ ClientSound(w) /\ InOrder(w, d) /\ OneSocket(w, d, x, y) /\ Asks(w, x) /\ Visible(w, d, x, y, n)
    BY DEF Pair
  <1>2. CASE u.ws # "open" \/ u.resyncing \/ u.desired = u.applied
    <2>1. ApplyProfile(u) = u
      BY <1>2 DEF ApplyProfile
    <2> QED BY <1>2, <2>1, SameTabKeepsPair
  <1>3. CASE ~(u.ws # "open" \/ u.resyncing \/ u.desired = u.applied)
    <2>1. /\ u.ws = x.ws /\ u.sequence = x.sequence /\ u.resyncing = x.resyncing
          /\ u.requestedRepair = x.requestedRepair /\ u.profileBarrier = x.profileBarrier
          /\ u.applied = x.applied /\ u.have = x.have /\ u.up = x.up
      BY DEF SameTab
    <2>2. u.ws = "open" /\ ~u.resyncing /\ ~u.requestedRepair
      BY <1>1, <1>3, <2>1 DEF Asks
    <2>3. PICK q \in Seq(Commands) : q = u.up /\ Repairs(q)
      BY <1>1, <2>1 DEF Asks, Browsers
    <2>4. PICK profile \in Profiles : profile = u.desired
      BY DEF Browsers
    <2>5. PICK barrier \in BOOLEAN : barrier = (u.profileBarrier \/ profile = "context")
      <3>1. u.profileBarrier \in BOOLEAN
        BY DEF Browsers
      <3> QED BY <3>1
    <2>6. PICK z \in Seq(Commands) : /\ z = ProfileCommands[profile]
                                     /\ \A i \in 1..Len(z) : ~Leaves(z[i]) \/ profile # "dashboard"
                                     /\ profile = "dashboard" => 1 \in 1..Len(z) /\ Resumes(z[1])
                                     /\ profile # "dashboard" => \A i \in 1..Len(z) : ~Resumes(z[i])
      <3>1. /\ Subscribe({"dashboard"}) \in Commands /\ Unsubscribe({"context"}) \in Commands
            /\ Subscribe({"context"}) \in Commands /\ Unsubscribe({"dashboard"}) \in Commands
            /\ Unsubscribe({"dashboard", "context"}) \in Commands /\ Ping \in Commands
        BY DEF Subscribe, Unsubscribe, Ping, Commands, Channels
      <3>2. /\ Resumes(Subscribe({"dashboard"})) /\ ~Resumes(Unsubscribe({"context"}))
            /\ ~Resumes(Subscribe({"context"})) /\ ~Resumes(Unsubscribe({"dashboard"}))
            /\ ~Resumes(Unsubscribe({"dashboard", "context"})) /\ ~Resumes(Ping)
            /\ ~Leaves(Subscribe({"dashboard"})) /\ ~Leaves(Unsubscribe({"context"}))
        BY DEF Subscribe, Unsubscribe, Ping, Resumes, Leaves
      <3>3. CASE profile = "dashboard"
        <4>1. PICK a, e \in Commands : a = Subscribe({"dashboard"}) /\ e = Unsubscribe({"context"})
          BY <3>1
        <4>2. ProfileCommands[profile] = <<a, e>>
          BY <3>3, <4>1 DEF ProfileCommands
        <4>3. <<a, e>> \in Seq(Commands) /\ Len(<<a, e>>) = 2 /\ <<a, e>>[1] = a /\ <<a, e>>[2] = e
          OBVIOUS
        <4>4. \A i \in 1..2 : ~Leaves(<<a, e>>[i])
          BY <3>2, <4>1, <4>3
        <4>5. PICK s \in Seq(Commands) : s = <<a, e>> /\ 1..Len(s) = 1..2 /\ s[1] = a
          BY <4>3
        <4>6. s = ProfileCommands[profile] /\ (\A i \in 1..Len(s) : ~Leaves(s[i])) /\ 1 \in 1..Len(s) /\ Resumes(s[1])
          BY <3>2, <4>1, <4>2, <4>4, <4>5
        <4> QED BY <3>3, <4>6
      <3>4. CASE profile = "context"
        <4>1. PICK a, e, g \in Commands : a = Subscribe({"context"}) /\ e = Unsubscribe({"dashboard"}) /\ g = Ping
          BY <3>1
        <4>2. ProfileCommands[profile] = <<a, e, g>>
          BY <3>4, <4>1 DEF ProfileCommands
        <4>3. /\ <<a, e, g>> \in Seq(Commands) /\ Len(<<a, e, g>>) = 3
              /\ <<a, e, g>>[1] = a /\ <<a, e, g>>[2] = e /\ <<a, e, g>>[3] = g
          OBVIOUS
        <4>4. \A i \in 1..3 : ~Resumes(<<a, e, g>>[i])
          BY <3>2, <4>1, <4>3
        <4>5. PICK s \in Seq(Commands) : s = <<a, e, g>> /\ 1..Len(s) = 1..3
          BY <4>3
        <4>6. s = ProfileCommands[profile] /\ \A i \in 1..Len(s) : ~Resumes(s[i])
          BY <4>2, <4>4, <4>5
        <4> QED BY <3>4, <4>6
      <3>5. CASE profile = "hidden"
        <4>1. PICK a, e \in Commands : a = Unsubscribe({"dashboard", "context"}) /\ e = Ping
          BY <3>1
        <4>2. ProfileCommands[profile] = <<a, e>>
          BY <3>5, <4>1 DEF ProfileCommands
        <4>3. <<a, e>> \in Seq(Commands) /\ Len(<<a, e>>) = 2 /\ <<a, e>>[1] = a /\ <<a, e>>[2] = e
          OBVIOUS
        <4>4. \A i \in 1..2 : ~Resumes(<<a, e>>[i])
          BY <3>2, <4>1, <4>3
        <4>5. PICK s \in Seq(Commands) : s = <<a, e>> /\ 1..Len(s) = 1..2
          BY <4>3
        <4>6. s = ProfileCommands[profile] /\ \A i \in 1..Len(s) : ~Resumes(s[i])
          BY <4>2, <4>4, <4>5
        <4> QED BY <3>5, <4>6
      <3> QED BY <3>3, <3>4, <3>5 DEF Profiles
    <2>7. PICK p \in Seq(Commands) : p = q \o z
      <3>1. q \o z \in Seq(Commands)
        BY ConcatProperties
      <3> QED BY <3>1
    <2>8. /\ Len(p) = Len(q) + Len(z) /\ Len(q) \in Nat /\ Len(z) \in Nat
          /\ DOMAIN p = 1..Len(q) + Len(z) /\ DOMAIN q = 1..Len(q)
          /\ \A i \in 1..Len(q) : p[i] = q[i]
          /\ \A i \in 1..Len(z) : p[Len(q) + i] = z[i] /\ Len(q) + i \in DOMAIN p
          /\ \A i \in DOMAIN p : i \in 1..Len(q) \/ \E k \in 1..Len(z) : i = Len(q) + k /\ p[i] = z[k]
      <3>1. Joins(q, z, p)
        BY <2>7, CommandsSent
      <3> QED BY <3>1 DEF Joins
    <2>9. PICK sent : sent = [u EXCEPT !.up = p, !.applied = profile, !.profileBarrier = barrier]
      OBVIOUS
    <2>10. sent \in Browsers
      <3>1. PICK Q : Q = Seq(Commands)
        OBVIOUS
      <3>2. p \in Q
        BY <3>1
      <3> QED BY <2>9, <3>1, <3>2 DEF Browsers
    <2>11. /\ sent.ws = "open" /\ sent.sequence = x.sequence /\ ~sent.resyncing /\ ~sent.requestedRepair
           /\ sent.applied = profile /\ sent.desired = profile /\ sent.have = x.have /\ sent.up = p
           /\ sent.profileBarrier = barrier
      BY <2>1, <2>2, <2>4, <2>9 DEF Browsers
    <2>12. ApplyProfile(u) = IF profile = "dashboard" THEN RequestRepair(sent) ELSE sent
      BY <1>3, <2>3, <2>4, <2>5, <2>6, <2>7, <2>9 DEF ApplyProfile
    <2>13. CASE profile # "dashboard"
      <3>1. Repairs(p)
        <4> SUFFICES ASSUME NEW i \in DOMAIN p, Resumes(p[i]) PROVE \E j \in DOMAIN p : j > i /\ p[j] = Resync
          BY DEF Repairs
        <4>1. i \in 1..Len(q) /\ Resumes(q[i])
          BY <2>6, <2>8, <2>13
        <4>2. PICK j \in 1..Len(q) : j > i /\ q[j] = Resync
          BY <2>3, <2>8, <4>1 DEF Repairs
        <4>3. j \in DOMAIN p /\ p[j] = q[j]
          BY <2>8
        <4> QED BY <4>2, <4>3
      <3>2. Asks(w, sent)
        BY <2>11, <2>13, <3>1 DEF Asks
      <3>3. Visible(w, d, sent, y, n)
        BY <1>1, <2>1, <2>2, <2>11, <2>13 DEF Visible
      <3>4. OneSocket(w, d, sent, y)
        BY <2>11 DEF OneSocket
      <3>5. Pair(w, d, sent, y, n)
        BY <1>1, <2>10, <3>2, <3>3, <3>4 DEF Pair
      <3> QED BY <2>2, <2>11, <2>12, <2>13, <3>5
    <2>14. CASE profile = "dashboard"
      <3>1. PICK s \in Seq(Commands) : s = Append(p, Resync)
        <4>1. Resync \in Commands
          BY DEF Resync, Commands
        <4> QED BY <4>1, QueueSteps
      <3>2. PICK r : r = RequestRepair(sent)
        OBVIOUS
      <3>3. r = [sent EXCEPT !.requestedRepair = TRUE, !.resyncing = TRUE, !.up = s]
        BY <2>11, <3>1, <3>2 DEF RequestRepair
      <3>4. r \in Browsers
        <4>1. PICK Q : Q = Seq(Commands)
          OBVIOUS
        <4>2. s \in Q
          BY <4>1
        <4>3. PICK t \in BOOLEAN : t = TRUE
          OBVIOUS
        <4>4. r = [sent EXCEPT !.requestedRepair = t, !.resyncing = t, !.up = s]
          BY <3>3, <4>3
        <4> QED BY <2>10, <4>1, <4>2, <4>4 DEF Browsers
      <3>5. r.up = s /\ r.ws = "open" /\ r.sequence = x.sequence /\ r.resyncing
        BY <2>10, <2>11, <3>3 DEF Browsers
      <3>6. PICK k \in DOMAIN p : k = Len(q) + 1 /\ Resumes(p[k])
        BY <2>6, <2>8, <2>14
      <3>7. Returns(p)
        <4> SUFFICES ASSUME NEW i \in DOMAIN p, Leaves(p[i]) PROVE \E j \in DOMAIN p : j > i /\ Resumes(p[j])
          BY DEF Returns
        <4>1. i \in 1..Len(q)
          BY <2>6, <2>8, <2>14
        <4>2. k > i
          BY <2>8, <3>6, <4>1
        <4> QED BY <3>6, <4>2
      <3>8. Pair(w, d, r, y, n)
        BY <2>1, <2>2, <3>1, <3>4, <3>5, <3>6, <3>7, ResyncSent
      <3> QED BY <2>2, <2>12, <2>14, <3>2, <3>5, <3>8
    <2> QED BY <2>13, <2>14
  <1> QED BY <1>2, <1>3

-----------------------------------------------------------------------------
(* The browser reads *)

(* The next frame is the one with the lowest number on the way.            *)
Reads(w, d, f, e) ==
  /\ f \in QueuedFrames /\ e \in Seq(QueuedFrames) /\ InOrder(w, e)
  /\ Coming(w, d) = {f} \cup Coming(w, e)
  /\ \A g \in Coming(w, e) : g \in QueuedFrames /\ f.seq < g.seq
  /\ ~w.closed /\ Coming(w, e) = {} => f.seq = w.seq

(* What the network delivers is that next frame.                           *)
LEMMA HeadIsRead ==
  ASSUME NEW w \in Clients, NEW d \in Seq(QueuedFrames), ClientSound(w), InOrder(w, d), d # <<>>,
         NEW f, f = Head(d), NEW e, e = Tail(d)
  PROVE  Reads(w, d, f, e)
  <1>1. f \in QueuedFrames /\ e \in Seq(QueuedFrames)
    BY QueueParts
  <1>2. /\ Len(d) \in Nat \ {0} /\ Len(e) = Len(d) - 1 /\ f = d[1]
        /\ \A i \in 1..Len(d) - 1 : e[i] = d[i + 1]
    BY QueueParts
  <1>3. Range(d) = {f} \cup Range(e)
    BY Members
  <1>4. \A i, j \in 1..Len(d) : i < j => d[i].seq < d[j].seq
    <2>1. DOMAIN d = 1..Len(d)
      OBVIOUS
    <2> QED BY <2>1 DEF InOrder, Rising
  <1>5. \A i \in 1..Len(e) : i + 1 \in 1..Len(d) /\ e[i] = d[i + 1]
    BY <1>2
  <1>6. Rising(e)
    <2>1. DOMAIN e = 1..Len(e)
      BY <1>1
    <2>2. ASSUME NEW i \in 1..Len(e), NEW j \in 1..Len(e), i < j PROVE e[i].seq < e[j].seq
      <3>1. i + 1 < j + 1
        BY <2>2
      <3> QED BY <1>4, <1>5, <3>1
    <2> QED BY <2>1, <2>2 DEF Rising
  <1>7. PICK q \in Seq(QueuedFrames) : q = w.pending
    BY DEF Clients
  <1>8. \A g \in Range(e) : g \in QueuedFrames /\ f.seq < g.seq
    <2> TAKE g \in Range(e)
    <2>1. g \in QueuedFrames
      BY <1>1, Members
    <2>2. PICK i \in 1..Len(e) : g = e[i]
      <3>1. DOMAIN e = 1..Len(e)
        BY <1>1
      <3> QED BY <3>1 DEF Range
    <2>3. 1 \in 1..Len(d) /\ 1 < i + 1
      BY <1>2
    <2> QED BY <1>2, <1>4, <1>5, <2>1, <2>2, <2>3
  <1>9. \A g \in Range(q) : g \in QueuedFrames /\ f.seq < g.seq
    <2>1. Range(q) \subseteq QueuedFrames
      BY Members
    <2> QED BY <1>3, <1>7, <2>1 DEF InOrder
  <1>10. Coming(w, d) = {f} \cup Coming(w, e)
    BY <1>3 DEF Coming
  <1>11. \A g \in Coming(w, e) : g \in QueuedFrames /\ f.seq < g.seq
    BY <1>7, <1>8, <1>9 DEF Coming
  <1>12. ~w.closed => \E g \in Coming(w, d) : g.seq = w.seq
    BY <1>10 DEF InOrder
  <1>13. ~w.closed /\ Coming(w, e) = {} => f.seq = w.seq
    BY <1>10, <1>12
  <1>14. ~w.closed /\ Coming(w, e) # {} => \E g \in Coming(w, e) : g.seq = w.seq
    <2> SUFFICES ASSUME ~w.closed, Coming(w, e) # {} PROVE \E g \in Coming(w, e) : g.seq = w.seq
      OBVIOUS
    <2>1. PICK g \in Coming(w, d) : g.seq = w.seq
      BY <1>12
    <2>2. PICK h \in Coming(w, e) : TRUE
      OBVIOUS
    <2>3. h.seq \in 1..w.seq /\ w.seq \in Nat /\ f.seq < h.seq
      <3>1. Numbered(Coming(w, d), w.seq) /\ h \in Coming(w, d)
        BY <1>10, InOrderNumbers
      <3> QED BY <1>11, <3>1 DEF Numbered
    <2>4. g # f
      <3>1. f.seq \in Nat
        BY <1>1 DEF QueuedFrames
      <3> QED BY <2>1, <2>3, <3>1
    <2> QED BY <1>10, <2>1, <2>4
  <1>15. InOrder(w, e)
    <2>1. \A g \in Range(e), h \in Range(q) : g.seq < h.seq
      BY <1>3, <1>7 DEF InOrder
    <2>2. ~w.closed => \A g \in Range(e) : g.seq <= w.seq
      BY <1>3 DEF InOrder
    <2> QED BY <1>6, <1>7, <1>14, <2>1, <2>2 DEF InOrder
  <1> QED BY <1>1, <1>10, <1>11, <1>13, <1>15 DEF Reads

(* Who has read the next frame is told by those after it.                  *)
LEMMA ToldAfterRead ==
  ASSUME NEW f \in QueuedFrames, NEW E \in SUBSET QueuedFrames, \A g \in E : f.seq < g.seq,
         NEW t \in Nat, NEW s \in Nat, NEW K, Told({f} \cup E, t, s, K)
  PROVE  /\ f.seq <= s => Told(E, t, s, K)
         /\ f.seq = s + 1 /\ f.type # "state.snapshot" =>
              \A J \in SUBSET K : (f.type = "patch" => f.version \notin J) => Told(E, t, f.seq, J)
  <1>1. f.seq \in Nat /\ \A g \in E : g.seq \in Nat
    BY DEF QueuedFrames
  <1>2. ASSUME f.seq <= s PROVE Told(E, t, s, K)
    <2>1. ~(f.seq > s) /\ \A m \in s + 1..t : f.seq # m
      BY <1>1, <1>2
    <2>2. CASE \E g \in {f} \cup E : g.seq > s /\ g.type = "state.snapshot"
      <3>1. \E g \in E : g.seq > s /\ g.type = "state.snapshot"
        BY <2>1, <2>2
      <3> QED BY <3>1 DEF Told
    <2>3. CASE \E m \in s + 1..t : \A g \in {f} \cup E : g.seq # m
      <3>1. \E m \in s + 1..t : \A g \in E : g.seq # m
        BY <2>3
      <3> QED BY <3>1 DEF Told
    <2>4. CASE \A k \in K : \E g \in {f} \cup E : g.seq > s /\ g.type = "patch" /\ g.version = k
      <3>1. \A k \in K : \E g \in E : g.seq > s /\ g.type = "patch" /\ g.version = k
        BY <2>1, <2>4
      <3> QED BY <3>1 DEF Told
    <2> QED BY <2>2, <2>3, <2>4 DEF Told
  <1>3. ASSUME f.seq = s + 1, f.type # "state.snapshot", NEW J \in SUBSET K, f.type = "patch" => f.version \notin J
        PROVE  Told(E, t, f.seq, J)
    <2>1. \A g \in E : g.seq > f.seq
      BY <1>1
    <2>2. CASE \E g \in {f} \cup E : g.seq > s /\ g.type = "state.snapshot"
      <3>1. \E g \in E : g.seq > f.seq /\ g.type = "state.snapshot"
        BY <1>3, <2>1, <2>2
      <3> QED BY <3>1 DEF Told
    <2>3. CASE \E m \in s + 1..t : \A g \in {f} \cup E : g.seq # m
      <3>1. PICK m \in s + 1..t : \A g \in {f} \cup E : g.seq # m
        BY <2>3
      <3>2. m \in f.seq + 1..t
        BY <1>1, <1>3, <3>1
      <3> QED BY <3>1, <3>2 DEF Told
    <2>4. CASE \A k \in K : \E g \in {f} \cup E : g.seq > s /\ g.type = "patch" /\ g.version = k
      <3>1. \A k \in J : \E g \in E : g.seq > f.seq /\ g.type = "patch" /\ g.version = k
        BY <1>3, <2>1, <2>4
      <3> QED BY <3>1 DEF Told
    <2> QED BY <2>2, <2>3, <2>4 DEF Told
  <1> QED BY <1>2, <1>3

(* Baselines that are still on the way are still followed.                 *)
LEMMA FollowedAfterRead ==
  ASSUME NEW f \in QueuedFrames, NEW E \in SUBSET QueuedFrames, \A g \in E : f.seq < g.seq,
         NEW t \in Nat, NEW n, Followed({f} \cup E, t, n)
  PROVE  Followed(E, t, n)
  <1> SUFFICES ASSUME NEW g \in E, g.type = "state.snapshot" PROVE Told(E, t, g.seq, (g.version + 1)..n)
    BY DEF Followed
  <1>1. PICK K, s : K = (g.version + 1)..n /\ s = g.seq
    OBVIOUS
  <1>2. Told({f} \cup E, t, s, K)
    BY <1>1 DEF Followed
  <1>3. f.seq <= s /\ s \in Nat
    BY <1>1 DEF QueuedFrames
  <1> QED BY <1>1, <1>2, <1>3, ToldAfterRead

(* A browser that is resyncing passes a frame over.                        *)
Skips(x, u) ==
  /\ u.ws = x.ws /\ u.sequence = x.sequence /\ u.resyncing /\ u.desired = x.desired
  /\ u.requestedRepair = x.requestedRepair /\ u.profileBarrier = x.profileBarrier
  /\ u.applied = x.applied /\ u.have = x.have /\ u.up = x.up

(* It asked for a baseline, or one is still to come, so nothing is lost.   *)
LEMMA PassedOver ==
  ASSUME NEW w, NEW d, NEW x, NEW y, NEW n, Pair(w, d, x, y, n), d # <<>>, x.ws = "open",
         Head(d).type # "state.snapshot", NEW u \in Browsers, Skips(x, u)
  PROVE  Pair(w, Tail(d), u, y, n)
  <1>1. /\ w \in Clients /\ d \in Seq(QueuedFrames) /\ x \in Browsers /\ y \in BOOLEAN /\ n \in Nat
        /\ ClientSound(w) /\ InOrder(w, d) /\ OneSocket(w, d, x, y) /\ Asks(w, x) /\ Visible(w, d, x, y, n)
    BY DEF Pair
  <1>2. PICK f, e : f = Head(d) /\ e = Tail(d)
    OBVIOUS
  <1>3. /\ f \in QueuedFrames /\ e \in Seq(QueuedFrames) /\ InOrder(w, e)
        /\ Coming(w, d) = {f} \cup Coming(w, e)
        /\ \A g \in Coming(w, e) : g \in QueuedFrames /\ f.seq < g.seq
    <2>1. Reads(w, d, f, e)
      BY <1>1, <1>2, HeadIsRead
    <2> QED BY <2>1 DEF Reads
  <1>4. /\ u.ws = "open" /\ u.sequence = x.sequence /\ u.resyncing /\ u.desired = x.desired
        /\ u.requestedRepair = x.requestedRepair /\ u.profileBarrier = x.profileBarrier
        /\ u.applied = x.applied /\ u.have = x.have /\ u.up = x.up
    BY DEF Skips
  <1>5. Asks(w, u)
    BY <1>1, <1>4 DEF Asks
  <1>6. OneSocket(w, e, u, y)
    BY <1>4 DEF OneSocket
  <1>7. w.seq \in Nat
    BY <1>1 DEF Clients
  <1>8. PICK E \in SUBSET QueuedFrames : E = Coming(w, e)
    BY <1>3
  <1>9. Followed({f} \cup E, w.seq, n) => Followed(E, w.seq, n)
    BY <1>3, <1>7, <1>8, FollowedAfterRead
  <1>10. Visible(w, e, u, y, n)
    BY <1>1, <1>2, <1>3, <1>4, <1>8, <1>9 DEF Visible, Asked
  <1> QED BY <1>1, <1>2, <1>3, <1>5, <1>6, <1>10 DEF Pair

(* The browser u has read frame f, and in its order.                       *)
Stays(x, u) ==
  /\ u.ws = "open" /\ u.up = x.up /\ u.applied = x.applied /\ u.desired = x.desired
  /\ u.requestedRepair = x.requestedRepair /\ u.resyncing = x.resyncing
  /\ u.profileBarrier => x.profileBarrier

Follows(x, f, u) ==
  /\ u.sequence = f.seq /\ f.seq = x.sequence + 1 /\ x.have \subseteq u.have
  /\ f.type = "patch" /\ x.desired # "hidden" /\ ~x.profileBarrier => f.version \in u.have

(* Whatever the browser still lacks is told by the frames after f.         *)
LEMMA ReadInOrder ==
  ASSUME NEW w, NEW d, NEW x, NEW y, NEW n, Pair(w, d, x, y, n), d # <<>>, x.ws = "open", ~x.resyncing,
         NEW f, f = Head(d), f.type # "state.snapshot", NEW u \in Browsers, Stays(x, u), w.closed \/ Follows(x, f, u)
  PROVE  Pair(w, Tail(d), u, y, n)
  <1>1. /\ w \in Clients /\ d \in Seq(QueuedFrames) /\ x \in Browsers /\ y \in BOOLEAN /\ n \in Nat
        /\ ClientSound(w) /\ InOrder(w, d) /\ OneSocket(w, d, x, y) /\ Asks(w, x) /\ Visible(w, d, x, y, n)
    BY DEF Pair
  <1>2. PICK e : e = Tail(d)
    OBVIOUS
  <1>3. /\ f \in QueuedFrames /\ e \in Seq(QueuedFrames) /\ InOrder(w, e)
        /\ Coming(w, d) = {f} \cup Coming(w, e)
        /\ \A g \in Coming(w, e) : g \in QueuedFrames /\ f.seq < g.seq
        /\ ~w.closed /\ Coming(w, e) = {} => f.seq = w.seq
    <2>1. Reads(w, d, f, e)
      BY <1>1, <1>2, HeadIsRead
    <2> QED BY <2>1 DEF Reads
  <1>4. /\ u.ws = "open" /\ u.up = x.up /\ u.applied = x.applied /\ u.desired = x.desired
        /\ u.requestedRepair = x.requestedRepair /\ u.resyncing = x.resyncing
        /\ u.profileBarrier => x.profileBarrier
    BY DEF Stays
  <1>5. Asks(w, u)
    BY <1>1, <1>4 DEF Asks
  <1>6. OneSocket(w, e, u, y)
    BY <1>4 DEF OneSocket
  <1>7. w.seq \in Nat /\ f.seq \in Nat \ {0} /\ x.sequence \in Nat
    BY <1>1, <1>3 DEF Clients, QueuedFrames, Browsers
  <1>8. PICK E \in SUBSET QueuedFrames : E = Coming(w, e)
    BY <1>3
  <1>9. ASSUME ~w.closed PROVE Visible(w, e, u, y, n)
    <2>1. /\ u.sequence = f.seq /\ f.seq = x.sequence + 1 /\ x.have \subseteq u.have
          /\ f.type = "patch" /\ x.desired # "hidden" /\ ~x.profileBarrier => f.version \in u.have
      BY <1>9 DEF Follows
    <2>2. ASSUME u.applied = "dashboard", ~Asked(u, y)
          PROVE  Told(E, w.seq, f.seq, (1..n) \ u.have) /\ Followed(E, w.seq, n)
      <3>1. Told({f} \cup E, w.seq, x.sequence, (1..n) \ x.have) /\ Followed({f} \cup E, w.seq, n)
        BY <1>1, <1>3, <1>4, <1>8, <1>9, <2>2 DEF Visible, Asked
      <3>2. x.desired # "hidden" /\ ~x.profileBarrier
        BY <1>1, <1>4, <2>2 DEF Asks
      <3>3. PICK K, J : K = (1..n) \ x.have /\ J = (1..n) \ u.have
        OBVIOUS
      <3>4. J \in SUBSET K /\ (f.type = "patch" => f.version \notin J)
        BY <2>1, <3>2, <3>3
      <3>5. Told({f} \cup E, w.seq, x.sequence, K)
        BY <3>1, <3>3
      <3>6. Told(E, w.seq, f.seq, J)
        BY <1>3, <1>7, <1>8, <2>1, <3>4, <3>5, ToldAfterRead
      <3>7. Followed(E, w.seq, n)
        BY <1>3, <1>7, <1>8, <3>1, FollowedAfterRead
      <3> QED BY <3>3, <3>6, <3>7
    <2>3. \A g \in Coming(w, e) : u.sequence < g.seq
      BY <1>3, <2>1
    <2>4. Coming(w, e) = {} => u.sequence = w.seq
      BY <1>3, <1>9, <2>1
    <2>5. u.sequence # 0
      BY <1>7, <2>1
    <2> QED BY <1>8, <2>1, <2>2, <2>3, <2>4, <2>5 DEF Visible
  <1>10. Visible(w, e, u, y, n)
    BY <1>9 DEF Visible
  <1> QED BY <1>1, <1>2, <1>3, <1>5, <1>6, <1>10 DEF Pair

(* onFrame, for a frame that is not a baseline                             *)
LEMMA OnFrameKeepsPair ==
  ASSUME NEW w, NEW d, NEW x, NEW y, NEW n, Pair(w, d, x, y, n), d # <<>>, x.ws = "open",
         NEW f, f = Head(d), f.type # "state.snapshot"
  PROVE  Pair(w, Tail(d), OnFrame(x, f), y, n)
  <1>1. /\ w \in Clients /\ d \in Seq(QueuedFrames) /\ x \in Browsers /\ y \in BOOLEAN /\ n \in Nat
        /\ ClientSound(w) /\ InOrder(w, d) /\ OneSocket(w, d, x, y) /\ Asks(w, x) /\ Visible(w, d, x, y, n)
    BY DEF Pair
  <1>2. f \in QueuedFrames /\ f \in Coming(w, d)
    <2>1. Reads(w, d, f, Tail(d))
      BY <1>1, HeadIsRead
    <2> QED BY <2>1 DEF Reads
  <1>3. f.seq \in Nat \ {0} /\ f.version \in Nat /\ x.sequence \in Nat
    BY <1>1, <1>2 DEF QueuedFrames, Browsers
  <1>4. CASE x.resyncing
    <2>1. Skips(x, x)
      BY <1>4 DEF Skips
    <2>2. OnFrame(x, f) = x
      BY <1>4 DEF OnFrame
    <2> QED BY <1>1, <2>1, <2>2, PassedOver
  <1>5. CASE ~x.resyncing /\ f.seq <= x.sequence
    <2>1. w.closed
      <3>1. ~w.closed => x.sequence < f.seq
        BY <1>1, <1>2, <1>5 DEF Visible
      <3> QED BY <1>3, <1>5, <3>1
    <2>2. OnFrame(x, f) = x
      BY <1>5 DEF OnFrame
    <2>3. Stays(x, x)
      BY DEF Stays
    <2> QED BY <1>1, <1>5, <2>1, <2>2, <2>3, ReadInOrder
  <1>6. CASE ~x.resyncing /\ f.seq > x.sequence /\ f.seq # x.sequence + 1
    <2>1. ~x.requestedRepair
      BY <1>1, <1>6 DEF Asks
    <2>2. PICK t \in BOOLEAN : t = TRUE
      OBVIOUS
    <2>3. PICK u : u = [x EXCEPT !.resyncing = TRUE]
      OBVIOUS
    <2>4. u \in Browsers
      <3>1. PICK Q : Q = Seq(Commands)
        OBVIOUS
      <3>2. u = [x EXCEPT !.resyncing = t]
        BY <2>2, <2>3
      <3> QED BY <1>1, <3>1, <3>2 DEF Browsers
    <2>5. Skips(x, u)
      BY <1>1, <2>3 DEF Skips, Browsers
    <2>6. Pair(w, Tail(d), u, y, n)
      BY <2>4, <2>5, PassedOver
    <2>7. Pair(w, Tail(d), RequestRepair(u), y, n)
      BY <2>6, RequestRepairKeepsPair
    <2>8. PICK q : q = Append(x.up, Resync)
      OBVIOUS
    <2>9. u.ws = "open" /\ ~u.requestedRepair /\ u.up = x.up
      BY <2>1, <2>5 DEF Skips
    <2>10. RequestRepair(u) = [u EXCEPT !.requestedRepair = TRUE, !.resyncing = TRUE, !.up = q]
      BY <2>8, <2>9 DEF RequestRepair
    <2>11. RequestRepair(x) = [x EXCEPT !.requestedRepair = TRUE, !.resyncing = TRUE, !.up = q]
      BY <2>1, <2>8 DEF RequestRepair
    <2>12. RequestRepair(u) = RequestRepair(x)
      BY <1>1, <2>3, <2>10, <2>11 DEF Browsers
    <2>13. OnFrame(x, f) = RequestRepair(x)
      BY <1>3, <1>6 DEF OnFrame
    <2> QED BY <2>7, <2>12, <2>13
  <1>7. CASE ~x.resyncing /\ f.seq = x.sequence + 1
    <2>1. PICK barrier \in BOOLEAN : barrier = IF f.type = "pong" THEN FALSE ELSE x.profileBarrier
      <3>1. x.profileBarrier \in BOOLEAN
        BY <1>1 DEF Browsers
      <3> QED BY <3>1
    <2>2. PICK have \in SUBSET Nat :
            have = IF f.type = "patch" /\ x.desired # "hidden" /\ ~x.profileBarrier
                   THEN x.have \cup {f.version} ELSE x.have
      BY <1>1, <1>3 DEF Browsers
    <2>3. PICK s \in Nat : s = f.seq
      BY <1>3
    <2>4. PICK u : u = [x EXCEPT !.sequence = s, !.profileBarrier = barrier, !.have = have]
      OBVIOUS
    <2>5. u \in Browsers
      <3>1. PICK Q : Q = Seq(Commands)
        OBVIOUS
      <3> QED BY <1>1, <2>4, <3>1 DEF Browsers
    <2>6. /\ u.ws = x.ws /\ u.up = x.up /\ u.applied = x.applied /\ u.desired = x.desired
          /\ u.requestedRepair = x.requestedRepair /\ u.resyncing = x.resyncing
          /\ u.profileBarrier = barrier /\ u.sequence = s /\ u.have = have
      BY <1>1, <2>4 DEF Browsers
    <2>7. OnFrame(x, f) = u
      <3>1. ~(x.resyncing \/ f.seq <= x.sequence) /\ f.seq = x.sequence + 1
        BY <1>3, <1>7
      <3>2. CASE f.type = "pong"
        <4>1. OnFrame(x, f) = [x EXCEPT !.sequence = s, !.profileBarrier = barrier]
          BY <2>1, <2>3, <3>1, <3>2 DEF OnFrame
        <4>2. have = x.have
          BY <2>2, <3>2
        <4> QED BY <1>1, <2>4, <4>1, <4>2 DEF Browsers
      <3>3. CASE f.type # "pong"
        <4>1. OnFrame(x, f) = [x EXCEPT !.sequence = s, !.have = have]
          BY <2>2, <2>3, <3>1, <3>3 DEF OnFrame
        <4>2. barrier = x.profileBarrier
          BY <2>1, <3>3
        <4> QED BY <1>1, <2>4, <4>1, <4>2 DEF Browsers
      <3> QED BY <3>2, <3>3
    <2>8. Stays(x, u)
      BY <2>1, <2>6 DEF Stays
    <2>9. Follows(x, f, u)
      BY <1>7, <2>2, <2>3, <2>6 DEF Follows
    <2> QED BY <1>7, <2>5, <2>7, <2>8, <2>9, ReadInOrder
  <1> QED BY <1>3, <1>4, <1>5, <1>6, <1>7

(* A baseline starts the browser afresh, in the profile it has applied.    *)
Afresh(x, f, u) ==
  /\ u.ws = x.ws /\ u.up = x.up /\ u.applied = x.applied /\ u.sequence = f.seq /\ u.have = 1..f.version
  /\ ~u.requestedRepair /\ ~u.profileBarrier /\ ~u.resyncing

(* Whatever the baseline lacks is told by the frames after it.             *)
LEMMA BaselineReadKeepsPair ==
  ASSUME NEW w, NEW d, NEW x, NEW y, NEW n, Pair(w, d, x, y, n), d # <<>>, x.ws = "open",
         NEW f, f = Head(d), f.type = "state.snapshot",
         NEW u \in Browsers, Afresh(x, f, u), u.desired = u.applied
  PROVE  Pair(w, Tail(d), u, y, n)
  <1>1. /\ w \in Clients /\ d \in Seq(QueuedFrames) /\ x \in Browsers /\ y \in BOOLEAN /\ n \in Nat
        /\ ClientSound(w) /\ InOrder(w, d) /\ OneSocket(w, d, x, y) /\ Asks(w, x) /\ Visible(w, d, x, y, n)
    BY DEF Pair
  <1>2. PICK e : e = Tail(d)
    OBVIOUS
  <1>3. /\ f \in QueuedFrames /\ e \in Seq(QueuedFrames) /\ InOrder(w, e)
        /\ Coming(w, d) = {f} \cup Coming(w, e)
        /\ \A g \in Coming(w, e) : g \in QueuedFrames /\ f.seq < g.seq
        /\ ~w.closed /\ Coming(w, e) = {} => f.seq = w.seq
    <2>1. Reads(w, d, f, e)
      BY <1>1, <1>2, HeadIsRead
    <2> QED BY <2>1 DEF Reads
  <1>4. /\ u.ws = x.ws /\ u.up = x.up /\ u.applied = x.applied /\ u.sequence = f.seq /\ u.have = 1..f.version
        /\ ~u.requestedRepair /\ ~u.profileBarrier /\ ~u.resyncing
    BY DEF Afresh
  <1>5. Asks(w, u)
    BY <1>1, <1>4 DEF Asks
  <1>6. OneSocket(w, e, u, y)
    BY <1>4 DEF OneSocket
  <1>7. w.seq \in Nat /\ f.seq \in Nat \ {0} /\ f.version \in Nat
    BY <1>1, <1>3 DEF Clients, QueuedFrames
  <1>8. PICK E \in SUBSET QueuedFrames : E = Coming(w, e)
    BY <1>3
  <1>9. ASSUME ~w.closed PROVE Visible(w, e, u, y, n)
    <2>1. ASSUME u.applied = "dashboard", ~Asked(u, y)
          PROVE  Told(E, w.seq, f.seq, (1..n) \ u.have) /\ Followed(E, w.seq, n)
      <3>1. Followed({f} \cup E, w.seq, n)
        BY <1>1, <1>3, <1>4, <1>8, <1>9, <2>1 DEF Visible, Asked
      <3>2. PICK s \in Nat : s = f.seq
        BY <1>7
      <3>3. PICK K : K = (f.version + 1)..n
        OBVIOUS
      <3>4. Told({f} \cup E, w.seq, s, K)
        BY <3>1, <3>2, <3>3 DEF Followed
      <3>5. Told(E, w.seq, s, K)
        <4>1. f.seq <= s /\ w.seq \in Nat /\ \A g \in E : f.seq < g.seq
          BY <1>3, <1>7, <1>8, <3>2
        <4>2. f.seq <= s => Told(E, w.seq, s, K)
          BY <1>3, <3>4, <4>1, ToldAfterRead
        <4> QED BY <4>1, <4>2
      <3>6. (1..n) \ u.have \subseteq K
        BY <1>1, <1>4, <1>7, <3>3
      <3>7. Followed(E, w.seq, n)
        BY <1>3, <1>7, <1>8, <3>1, FollowedAfterRead
      <3> QED BY <3>2, <3>5, <3>6, <3>7, ToldOfFewer
    <2>2. \A g \in Coming(w, e) : u.sequence < g.seq
      BY <1>3, <1>4
    <2>3. Coming(w, e) = {} => u.sequence = w.seq
      BY <1>3, <1>4, <1>9
    <2>4. u.sequence # 0
      BY <1>4, <1>7
    <2> QED BY <1>4, <1>8, <2>1, <2>2, <2>3, <2>4 DEF Visible
  <1>10. Visible(w, e, u, y, n)
    BY <1>9 DEF Visible
  <1> QED BY <1>1, <1>2, <1>3, <1>5, <1>6, <1>10 DEF Pair

(* onBaseline                                                              *)
LEMMA OnBaselineKeepsPair ==
  ASSUME NEW w, NEW d, NEW x, NEW y, NEW n, Pair(w, d, x, y, n), d # <<>>, x.ws = "open",
         NEW f, f = Head(d), f.type = "state.snapshot"
  PROVE  Pair(w, Tail(d), OnBaseline(x, f), y, n)
  <1>1. /\ w \in Clients /\ d \in Seq(QueuedFrames) /\ x \in Browsers /\ y \in BOOLEAN /\ n \in Nat
        /\ ClientSound(w) /\ InOrder(w, d)
    BY DEF Pair
  <1>2. f \in QueuedFrames
    <2>1. Reads(w, d, f, Tail(d))
      BY <1>1, HeadIsRead
    <2> QED BY <2>1 DEF Reads
  <1>3. PICK s \in Nat : s = f.seq
    BY <1>2 DEF QueuedFrames
  <1>4. PICK have \in SUBSET Nat : have = 1..f.version
    <2>1. 1..f.version \subseteq Nat
      BY <1>2 DEF QueuedFrames
    <2> QED BY <2>1
  <1>5. PICK t \in BOOLEAN : t = FALSE
    OBVIOUS
  <1>6. PICK applied \in Profiles : applied = x.applied
    BY <1>1 DEF Browsers
  <1>7. PICK u : u = [x EXCEPT !.sequence = s, !.requestedRepair = t, !.profileBarrier = t,
                               !.resyncing = t, !.have = have]
    OBVIOUS
  <1>8. PICK z : z = [x EXCEPT !.sequence = s, !.requestedRepair = t, !.profileBarrier = t,
                               !.resyncing = t, !.have = have, !.desired = applied]
    OBVIOUS
  <1>9. u \in Browsers /\ z \in Browsers
    <2>1. PICK Q : Q = Seq(Commands)
      OBVIOUS
    <2>2. u \in Browsers
      BY <1>1, <1>7, <2>1 DEF Browsers
    <2>3. z \in Browsers
      BY <1>1, <1>8, <2>1 DEF Browsers
    <2> QED BY <2>2, <2>3
  <1>10. /\ u.ws = x.ws /\ u.up = x.up /\ u.applied = x.applied /\ u.sequence = s /\ u.have = have
         /\ u.requestedRepair = t /\ u.profileBarrier = t /\ u.resyncing = t
    BY <1>1, <1>7 DEF Browsers
  <1>11. /\ z.ws = x.ws /\ z.up = x.up /\ z.applied = x.applied /\ z.sequence = s /\ z.have = have
         /\ z.requestedRepair = t /\ z.profileBarrier = t /\ z.resyncing = t /\ z.desired = applied
    BY <1>1, <1>8 DEF Browsers
  <1>12. Afresh(x, f, z)
    BY <1>3, <1>4, <1>5, <1>11 DEF Afresh
  <1>13. Pair(w, Tail(d), z, y, n)
    BY <1>6, <1>9, <1>11, <1>12, BaselineReadKeepsPair
  <1>14. SameTab(z, u)
    BY <1>10, <1>11 DEF SameTab
  <1>15. Pair(w, Tail(d), ApplyProfile(u), y, n)
    BY <1>9, <1>13, <1>14, ApplyProfileKeepsPair
  <1>16. OnBaseline(x, f) = ApplyProfile(u)
    BY <1>3, <1>4, <1>5, <1>7 DEF OnBaseline
  <1> QED BY <1>15, <1>16

(* onMessage                                                               *)
LEMMA OnMessageKeeps == ASSUME StreamInv, OnMessage PROVE StreamInv'
  <1>1. v \in Nat /\ dispatched \in 0..v /\ Pair(c, down, b, resync, dispatched)
    BY DEF StreamInv
  <1>2. PICK f : f = Head(down)
    OBVIOUS
  <1>3. /\ v' = v /\ dispatched' = dispatched /\ c' = c /\ resync' = resync
        /\ b.ws = "open" /\ down # <<>> /\ down' = Tail(down)
        /\ b' = IF f.type = "state.snapshot" THEN OnBaseline(b, f) ELSE OnFrame(b, f)
    BY <1>2 DEF OnMessage
  <1>4. Pair(c, Tail(down), b', resync, dispatched)
    <2>1. CASE f.type = "state.snapshot"
      BY <1>1, <1>2, <1>3, <2>1, OnBaselineKeepsPair
    <2>2. CASE f.type # "state.snapshot"
      BY <1>1, <1>2, <1>3, <2>2, OnFrameKeepsPair
    <2> QED BY <2>1, <2>2
  <1> QED BY <1>1, <1>3, <1>4 DEF StreamInv

(* The tab's socket is gone: onclose, the timers and a new socket          *)
LEMMA ForgetKeeps ==
  ASSUME StreamInv, Forget, v' = v, dispatched' = dispatched,
         b' \in Browsers, b'.ws # "open", b'.up = <<>>, b'.requestedRepair => b'.resyncing,
         b'.ws = "dialing" => b'.resyncing /\ ~b'.requestedRepair /\ b'.applied = "dashboard" /\ b'.sequence = 0
  PROVE  StreamInv'
  <1>1. v \in Nat /\ dispatched \in 0..v /\ dispatched \in Nat
    BY DEF StreamInv
  <1>2. c' = NoClient /\ resync' = FALSE /\ down' = <<>>
    BY DEF Forget
  <1>3. Pair(NoClient, <<>>, b', FALSE, dispatched)
    BY <1>1, ForgottenPair
  <1> QED BY <1>1, <1>2, <1>3 DEF StreamInv

(* What reconnect and open return.                                         *)
LEMMA TimersChange ==
  ASSUME NEW x \in Browsers
  PROVE  /\ Reconnect(x) \in Browsers /\ SameTab(x, Reconnect(x)) /\ Reconnect(x).desired = x.desired
         /\ Open(x) \in Browsers /\ SameTab(x, Open(x)) /\ Open(x).desired = x.desired
  <1>1. PICK Q : Q = Seq(Commands)
    OBVIOUS
  <1>2. SameTab(x, x)
    BY DEF SameTab
  <1>3. PICK u : u = [x EXCEPT !.reconnectTimer = "running"]
    OBVIOUS
  <1>4. u \in Browsers
    BY <1>1, <1>3 DEF Browsers
  <1>5. SameTab(x, u) /\ u.desired = x.desired
    BY <1>3 DEF SameTab, Browsers
  <1>6. PICK z : z = [x EXCEPT !.opening = "probing"]
    OBVIOUS
  <1>7. z \in Browsers
    BY <1>1, <1>6 DEF Browsers
  <1>8. SameTab(x, z) /\ z.desired = x.desired
    BY <1>6 DEF SameTab, Browsers
  <1>9. Reconnect(x) \in Browsers /\ SameTab(x, Reconnect(x)) /\ Reconnect(x).desired = x.desired
    <2>1. Reconnect(x) = x \/ Reconnect(x) = u
      BY <1>3 DEF Reconnect
    <2> QED BY <1>2, <1>4, <1>5, <2>1
  <1>10. Open(x) \in Browsers /\ SameTab(x, Open(x)) /\ Open(x).desired = x.desired
    <2>1. Open(x) = x \/ Open(x) = z
      BY <1>6 DEF Open
    <2> QED BY <1>2, <1>7, <1>8, <2>1
  <1> QED BY <1>9, <1>10

(* The timers and probes of a tab leave the rest of it as it is.           *)
LEMMA TimersKeepPair ==
  ASSUME NEW w, NEW d, NEW x, NEW y, NEW n, Pair(w, d, x, y, n), NEW u \in Browsers, SameTab(x, u),
         u.desired = x.desired
  PROVE  /\ Pair(w, d, u, y, n)
         /\ Pair(w, d, Reconnect(u), y, n)
         /\ Pair(w, d, Open(u), y, n)
  <1>1. x.ws = "open" /\ ~x.resyncing => x.applied = x.desired
    BY DEF Pair, Asks
  <1>2. Pair(w, d, u, y, n)
    <2>1. u.ws = "open" /\ ~u.resyncing => u.applied = u.desired
      BY <1>1 DEF SameTab
    <2> QED BY <2>1, SameTabKeepsPair
  <1>3. PICK z \in Browsers : z = Reconnect(u) /\ SameTab(u, z) /\ z.desired = u.desired
    BY TimersChange
  <1>4. Pair(w, d, z, y, n)
    <2>1. z.ws = "open" /\ ~z.resyncing => z.applied = z.desired
      BY <1>1, <1>3 DEF SameTab
    <2> QED BY <1>2, <1>3, <2>1, SameTabKeepsPair
  <1>5. PICK a \in Browsers : a = Open(u) /\ SameTab(u, a) /\ a.desired = u.desired
    BY TimersChange
  <1>6. Pair(w, d, a, y, n)
    <2>1. a.ws = "open" /\ ~a.resyncing => a.applied = a.desired
      BY <1>1, <1>5 DEF SameTab
    <2> QED BY <1>2, <1>5, <2>1, SameTabKeepsPair
  <1> QED BY <1>2, <1>3, <1>4, <1>5, <1>6

(* What onclose returns.                                                   *)
LEMMA OnCloseChanges ==
  ASSUME NEW x \in Browsers
  PROVE  /\ OnClose(x) \in Browsers /\ OnClose(x).ws = "none" /\ OnClose(x).up = <<>>
         /\ OnClose(x).requestedRepair = x.requestedRepair /\ OnClose(x).resyncing = x.resyncing
  <1>1. PICK p \in Seq(Commands) : p = <<>>
    BY EmptySeq
  <1>2. PICK Q : Q = Seq(Commands)
    OBVIOUS
  <1>3. PICK u : u = [x EXCEPT !.ws = "none", !.up = p]
    OBVIOUS
  <1>4. u \in Browsers
    <2>1. p \in Q
      BY <1>1, <1>2
    <2> QED BY <1>2, <1>3, <2>1 DEF Browsers
  <1>5. u.ws = "none" /\ u.up = p /\ u.requestedRepair = x.requestedRepair /\ u.resyncing = x.resyncing
    BY <1>3 DEF Browsers
  <1>6. OnClose(x) = Reconnect(u)
    BY <1>1, <1>3 DEF OnClose
  <1>7. Reconnect(u) \in Browsers /\ SameTab(u, Reconnect(u))
    BY <1>4, TimersChange
  <1> QED BY <1>1, <1>5, <1>6, <1>7 DEF SameTab

(* onclose, the timers that close the socket, and a new one                *)
LEMMA SocketLeftKeeps ==
  ASSUME StreamInv, ConnectionLost \/ Refused \/ BaselineTimeout \/ EarlyTimeout \/ HiddenTimeout
  PROVE  StreamInv'
  <1>1. b \in Browsers /\ (b.requestedRepair => b.resyncing)
    BY DEF StreamInv, Pair, Asks
  <1>2. Forget /\ v' = v /\ dispatched' = dispatched
    BY DEF ConnectionLost, Refused, BaselineTimeout, EarlyTimeout, HiddenTimeout
  <1>3. CASE ~HiddenTimeout
    <2>1. b' = OnClose(b)
      BY <1>3 DEF ConnectionLost, Refused, BaselineTimeout, EarlyTimeout
    <2>2. PICK u \in Browsers : /\ u = b' /\ u.ws = "none" /\ u.up = <<>>
                                /\ u.requestedRepair = b.requestedRepair /\ u.resyncing = b.resyncing
      BY <1>1, <2>1, OnCloseChanges
    <2> QED BY <1>1, <1>2, <2>2, ForgetKeeps
  <1>4. CASE HiddenTimeout
    <2>1. PICK p \in Seq(Commands) : p = <<>>
      BY EmptySeq
    <2>2. PICK Q : Q = Seq(Commands)
      OBVIOUS
    <2>3. PICK u : u = b' /\ u = [b EXCEPT !.ws = "none", !.up = p]
      BY <1>4, <2>1 DEF HiddenTimeout
    <2>4. u \in Browsers
      <3>1. p \in Q
        BY <2>1, <2>2
      <3> QED BY <1>1, <2>2, <2>3, <3>1 DEF Browsers
    <2>5. u.ws = "none" /\ u.up = p /\ u.requestedRepair = b.requestedRepair /\ u.resyncing = b.resyncing
      BY <1>1, <2>3 DEF Browsers
    <2> QED BY <1>1, <1>2, <2>1, <2>3, <2>4, <2>5, ForgetKeeps
  <1> QED BY <1>3, <1>4

(* open after the session probe                                            *)
LEMMA ProbeSucceedsKeeps == ASSUME StreamInv, ProbeSucceeds PROVE StreamInv'
  <1>1. b \in Browsers
    BY DEF StreamInv, Pair
  <1>2. Forget /\ v' = v /\ dispatched' = dispatched
    BY DEF ProbeSucceeds
  <1>3. PICK p \in Seq(Commands) : p = <<>>
    BY EmptySeq
  <1>4. PICK Q : Q = Seq(Commands)
    OBVIOUS
  <1>5. PICK t \in BOOLEAN : t = TRUE
    OBVIOUS
  <1>6. PICK z \in BOOLEAN : z = FALSE
    OBVIOUS
  <1>7. PICK u : u = b'
    OBVIOUS
  <1>8. u = [b EXCEPT !.opening = "no", !.ws = "dialing", !.sequence = 0, !.resyncing = t,
                      !.requestedRepair = z, !.applied = "dashboard", !.profileBarrier = z, !.up = p]
    BY <1>3, <1>5, <1>6, <1>7 DEF ProbeSucceeds
  <1>9. u \in Browsers
    <2>1. p \in Q
      BY <1>3, <1>4
    <2> QED BY <1>1, <1>4, <1>8, <2>1 DEF Browsers, Profiles
  <1>10. /\ u.ws = "dialing" /\ u.up = p /\ u.resyncing = t /\ u.requestedRepair = z
         /\ u.applied = "dashboard" /\ u.sequence = 0
    BY <1>1, <1>8 DEF Browsers
  <1> QED BY <1>2, <1>3, <1>5, <1>6, <1>7, <1>9, <1>10, ForgetKeeps

(* What the tab's timer and probe come to                                  *)
LEMMA TimersKeep ==
  ASSUME StreamInv, ReconnectTimerFires \/ ProbeFails \/ AbortSettles PROVE StreamInv'
  <1>1. v \in Nat /\ dispatched \in 0..v /\ Pair(c, down, b, resync, dispatched) /\ b \in Browsers
    BY DEF StreamInv, Pair
  <1>2. v' = v /\ dispatched' = dispatched /\ c' = c /\ resync' = resync /\ down' = down
    BY DEF ReconnectTimerFires, ProbeFails, AbortSettles
  <1>3. PICK Q : Q = Seq(Commands)
    OBVIOUS
  <1>4. CASE ReconnectTimerFires
    <2>1. PICK u : u = [b EXCEPT !.reconnectTimer = "over"]
      OBVIOUS
    <2>2. u \in Browsers
      BY <1>1, <1>3, <2>1 DEF Browsers
    <2>3. SameTab(b, u) /\ u.desired = b.desired
      BY <1>1, <2>1 DEF SameTab, Browsers
    <2>4. b' = Open(u)
      BY <1>4, <2>1 DEF ReconnectTimerFires
    <2>5. Pair(c, down, Open(u), resync, dispatched)
      BY <1>1, <2>2, <2>3, TimersKeepPair
    <2> QED BY <1>1, <1>2, <2>4, <2>5 DEF StreamInv
  <1>5. CASE ProbeFails \/ AbortSettles
    <2>1. PICK u : u = [b EXCEPT !.opening = "no"]
      OBVIOUS
    <2>2. u \in Browsers
      BY <1>1, <1>3, <2>1 DEF Browsers
    <2>3. SameTab(b, u) /\ u.desired = b.desired
      BY <1>1, <2>1 DEF SameTab, Browsers
    <2>4. b' = Reconnect(u)
      BY <1>5, <2>1 DEF ProbeFails, AbortSettles
    <2>5. Pair(c, down, Reconnect(u), resync, dispatched)
      BY <1>1, <2>2, <2>3, TimersKeepPair
    <2> QED BY <1>1, <1>2, <2>4, <2>5 DEF StreamInv
  <1> QED BY <1>4, <1>5

(* A tab is hidden.                                                        *)
LEMMA HideKeepsPair ==
  ASSUME NEW w, NEW d, NEW x, NEW y, NEW n, Pair(w, d, x, y, n)
  PROVE  Pair(w, d, Hide(x), y, n)
  <1>1. x \in Browsers
    BY DEF Pair
  <1>2. PICK Q : Q = Seq(Commands)
    OBVIOUS
  <1>3. PICK timer \in {"never", "running", "over"} :
          timer = IF x.reconnectTimer = "running" THEN "over" ELSE x.reconnectTimer
    BY <1>1 DEF Browsers
  <1>4. PICK opening \in {"no", "probing", "aborted"} :
          opening = IF x.opening = "probing" THEN "aborted" ELSE x.opening
    BY <1>1 DEF Browsers
  <1>5. PICK u : u = [x EXCEPT !.desired = "hidden", !.reconnectTimer = timer, !.opening = opening]
    OBVIOUS
  <1>6. u \in Browsers
    BY <1>1, <1>2, <1>5 DEF Browsers, Profiles
  <1>7. SameTab(x, u)
    BY <1>1, <1>5 DEF SameTab, Browsers
  <1>8. Hide(x) = ApplyProfile(u)
    BY <1>3, <1>4, <1>5 DEF Hide
  <1> QED BY <1>6, <1>7, <1>8, ApplyProfileKeepsPair

(* A tab shows a page, perhaps after it was hidden.                        *)
LEMMA ShowKeepsPair ==
  ASSUME NEW w, NEW d, NEW x, NEW y, NEW n, Pair(w, d, x, y, n), NEW profile \in Profiles
  PROVE  Pair(w, d, Show(x, profile), y, n)
  <1>1. x \in Browsers
    BY DEF Pair
  <1>2. PICK Q : Q = Seq(Commands)
    OBVIOUS
  <1>3. PICK u : u = [x EXCEPT !.desired = profile]
    OBVIOUS
  <1>4. u \in Browsers
    BY <1>1, <1>2, <1>3 DEF Browsers
  <1>5. SameTab(x, u)
    BY <1>1, <1>3 DEF SameTab, Browsers
  <1>6. CASE u.ws = "none"
    <2>1. Show(x, profile) = Open(u)
      BY <1>3, <1>6 DEF Show
    <2>2. Pair(w, d, u, y, n)
      BY <1>4, <1>5, <1>6, SameTabKeepsPair
    <2>3. SameTab(u, u)
      BY DEF SameTab
    <2> QED BY <1>4, <2>1, <2>2, <2>3, TimersKeepPair
  <1>7. CASE u.ws # "none"
    <2>1. Pair(w, d, ApplyProfile(u), y, n)
      BY <1>4, <1>5, ApplyProfileKeepsPair
    <2>2. Pair(w, d, RequestRepair(ApplyProfile(u)), y, n)
      BY <2>1, RequestRepairKeepsPair
    <2>3. Show(x, profile) = ApplyProfile(u) \/ Show(x, profile) = RequestRepair(ApplyProfile(u))
      BY <1>3, <1>7 DEF Show
    <2> QED BY <2>1, <2>2, <2>3
  <1> QED BY <1>6, <1>7

(* The user: profiles and refreshes                                        *)
LEMMA UserKeeps ==
  ASSUME StreamInv, Refresh \/ \E profile \in Profiles : SetProfile(profile) PROVE StreamInv'
  <1>1. v \in Nat /\ dispatched \in 0..v /\ Pair(c, down, b, resync, dispatched) /\ b \in Browsers
    BY DEF StreamInv, Pair
  <1>2. v' = v /\ dispatched' = dispatched /\ c' = c /\ resync' = resync /\ down' = down
    BY DEF Refresh, SetProfile
  <1>3. CASE Refresh
    <2>1. SameTab(b, b)
      BY DEF SameTab
    <2>2. Pair(c, down, RequestRepair(b), resync, dispatched)
      BY <1>1, RequestRepairKeepsPair
    <2>3. Pair(c, down, Open(b), resync, dispatched)
      BY <1>1, <2>1, TimersKeepPair
    <2>4. b' = RequestRepair(b) \/ b' = Open(b) \/ b' = b
      BY <1>3 DEF Refresh
    <2>5. Pair(c, down, b', resync, dispatched)
      BY <1>1, <2>2, <2>3, <2>4
    <2> QED BY <1>1, <1>2, <2>5 DEF StreamInv
  <1>4. ASSUME NEW profile \in Profiles, SetProfile(profile) PROVE StreamInv'
    <2>1. b' = Hide(b) \/ b' = Show(b, profile)
      BY <1>4 DEF SetProfile
    <2>2. Pair(c, down, Hide(b), resync, dispatched) /\ Pair(c, down, Show(b, profile), resync, dispatched)
      BY <1>1, HideKeepsPair, ShowKeepsPair
    <2>3. Pair(c, down, b', resync, dispatched)
      BY <2>1, <2>2
    <2> QED BY <1>1, <1>2, <2>3 DEF StreamInv
  <1> QED BY <1>3, <1>4

(* The state may have versions that are not dispatched yet.                *)
LEMMA StateChangesKeep == ASSUME StreamInv, StateChanges PROVE StreamInv'
  <1>1. v \in Nat /\ dispatched \in 0..v /\ Pair(c, down, b, resync, dispatched)
    BY DEF StreamInv
  <1>2. /\ v' = v + 1 /\ dispatched' = dispatched /\ c' = c /\ resync' = resync /\ down' = down /\ b' = b
    BY DEF StateChanges
  <1>3. v' \in Nat /\ dispatched' \in 0..v'
    BY <1>1, <1>2
  <1> QED BY <1>1, <1>2, <1>3 DEF StreamInv

(* A tab that has just been opened                                         *)
LEMMA InitSound == ASSUME Init PROVE StreamInv
  <1>1. PICK x : x = NewBrowser
    OBVIOUS
  <1>2. x \in Browsers
    <2>1. PICK p \in Seq(Commands) : p = <<>>
      BY EmptySeq
    <2>2. PICK t \in BOOLEAN : t = TRUE
      OBVIOUS
    <2>3. PICK z \in BOOLEAN : z = FALSE
      OBVIOUS
    <2>4. PICK h \in SUBSET Nat : h = {}
      OBVIOUS
    <2>5. PICK S : S = Seq(Commands)
      OBVIOUS
    <2>6. p \in S
      BY <2>5
    <2>7. x = [ws |-> "none", opening |-> "probing", reconnectTimer |-> "never",
               sequence |-> 0, resyncing |-> t, requestedRepair |-> z, profileBarrier |-> z,
               desired |-> "dashboard", applied |-> "dashboard", up |-> p, have |-> h]
      BY <1>1, <2>1, <2>2, <2>3, <2>4 DEF NewBrowser
    <2> QED BY <2>5, <2>6, <2>7 DEF Browsers, Profiles
  <1>3. x.ws = "none" /\ x.up = <<>> /\ x.resyncing
    BY <1>1 DEF NewBrowser
  <1>4. Pair(NoClient, <<>>, x, FALSE, 0)
    BY <1>2, <1>3, ForgottenPair
  <1>5. Pair(NoClient, <<>>, Hide(x), FALSE, 0)
    BY <1>4, HideKeepsPair
  <1>6. Pair(NoClient, <<>>, Show(x, "context"), FALSE, 0)
    BY <1>4, ShowKeepsPair DEF Profiles
  <1>7. /\ v = 0 /\ dispatched = 0 /\ c = NoClient /\ resync = FALSE /\ down = <<>>
        /\ b = x \/ b = Show(x, "context") \/ b = Hide(x)
    BY <1>1 DEF Init
  <1>8. Pair(c, down, b, resync, dispatched)
    BY <1>4, <1>5, <1>6, <1>7
  <1> QED BY <1>7, <1>8 DEF StreamInv

(* Every step of the system keeps the invariant.                           *)
LEMMA StreamInductive == StreamInv /\ [Next]_vars => StreamInv'
  <1> SUFFICES ASSUME StreamInv, [Next]_vars PROVE StreamInv'
    OBVIOUS
  <1>1. CASE StateChanges
    BY <1>1, StateChangesKeep
  <1>2. CASE Server
    <2>1. CASE Dispatch
      BY <2>1, DispatchKeeps
    <2>2. CASE Tick
      BY <2>2, TickKeeps
    <2>3. CASE FlushResync
      BY <2>3, FlushResyncKeeps
    <2>4. CASE Admit
      BY <2>4, AdmitKeeps
    <2>5. CASE ReadCommand
      BY <2>5, ReadCommandKeeps
    <2>6. CASE WriteFrame
      BY <2>6, WriteFrameKeeps
    <2>7. CASE WriterWaits \/ WriterWakes \/ WriterPings
      BY <2>7, WriterKeeps
    <2>8. CASE SlowClient
      BY <2>8, SlowClientKeeps
    <2> QED BY <1>2, <2>1, <2>2, <2>3, <2>4, <2>5, <2>6, <2>7, <2>8 DEF Server
  <1>3. CASE Browser
    <2>1. CASE OnMessage
      BY <2>1, OnMessageKeeps
    <2>2. CASE ConnectionLost \/ Refused \/ BaselineTimeout \/ EarlyTimeout \/ HiddenTimeout
      BY <2>2, SocketLeftKeeps
    <2>3. CASE ReconnectTimerFires \/ ProbeFails \/ AbortSettles
      BY <2>3, TimersKeep
    <2>4. CASE ProbeSucceeds
      BY <2>4, ProbeSucceedsKeeps
    <2>5. CASE Refresh \/ \E profile \in Profiles : SetProfile(profile)
      BY <2>5, UserKeeps
    <2> QED BY <1>3, <2>1, <2>2, <2>3, <2>4, <2>5 DEF Browser
  <1>4. CASE UNCHANGED vars
    BY <1>4 DEF vars, StreamInv
  <1> QED BY <1>1, <1>2, <1>3, <1>4 DEF Next

-----------------------------------------------------------------------------
(* What the invariant says of the frames in their order *)

(* The frames on the way, as the properties list them: by rising numbers.  *)
LEMMA FramesAre ==
  ASSUME StreamInv
  PROVE  /\ Frames \in Seq(QueuedFrames) /\ Len(Frames) \in Nat /\ DOMAIN Frames = 1..Len(Frames)
         /\ \A f : f \in Coming(c, down) <=> \E i \in DOMAIN Frames : Frames[i] = f
         /\ \A i, j \in DOMAIN Frames : i < j => Frames[i].seq < Frames[j].seq
         /\ \A i \in DOMAIN Frames : Frames[i].seq \in Nat \ {0}
  <1>1. c \in Clients /\ down \in Seq(QueuedFrames) /\ ClientSound(c) /\ InOrder(c, down)
    BY DEF StreamInv, Pair
  <1>2. PICK q \in Seq(QueuedFrames) : q = c.pending
    BY <1>1 DEF Clients
  <1>3. PICK p, k, n : p = down \o q /\ k = Len(down) /\ n = Len(q)
    OBVIOUS
  <1>4. p = Frames /\ p \in Seq(QueuedFrames) /\ Len(p) = k + n /\ k \in Nat /\ n \in Nat
    <2>1. p = Frames
      BY <1>2, <1>3 DEF Frames
    <2>2. p \in Seq(QueuedFrames) /\ Len(p) = k + n /\ k \in Nat /\ n \in Nat
      BY <1>1, <1>3
    <2> QED BY <2>1, <2>2
  <1>5. /\ DOMAIN down = 1..k /\ DOMAIN q = 1..n /\ DOMAIN p = 1..k + n
        /\ \A i \in 1..k : p[i] = down[i]
        /\ \A i \in 1..n : p[k + i] = q[i]
    BY <1>1, <1>2, <1>3
  <1>6. \A i \in DOMAIN p : i \in 1..k \/ (i - k \in 1..n /\ p[i] = q[i - k])
    <2> TAKE i \in DOMAIN p
    <2>1. i \in 1..k \/ (i - k \in 1..n /\ k + (i - k) = i)
      BY <1>4, <1>5
    <2> QED BY <1>5, <2>1
  <1>7. /\ \A f : f \in Range(down) <=> \E i \in 1..k : f = down[i]
        /\ \A f : f \in Range(q) <=> \E i \in 1..n : f = q[i]
    BY <1>5 DEF Range
  <1>8. \A f : f \in Coming(c, down) <=> \E i \in DOMAIN p : p[i] = f
    <2>1. ASSUME NEW f \in Coming(c, down) PROVE \E i \in DOMAIN p : p[i] = f
      <3>1. CASE f \in Range(down)
        <4>1. PICK i \in 1..k : f = down[i]
          BY <1>7, <3>1
        <4> QED BY <1>4, <1>5, <4>1
      <3>2. CASE f \in Range(q)
        <4>1. PICK i \in 1..n : f = q[i]
          BY <1>7, <3>2
        <4>2. k + i \in DOMAIN p /\ p[k + i] = f
          BY <1>4, <1>5, <4>1
        <4> QED BY <4>2
      <3> QED BY <1>2, <2>1, <3>1, <3>2 DEF Coming
    <2>2. ASSUME NEW i \in DOMAIN p PROVE p[i] \in Coming(c, down)
      <3>1. p[i] \in Range(down) \/ p[i] \in Range(q)
        BY <1>5, <1>6, <1>7
      <3> QED BY <1>2, <3>1 DEF Coming
    <2> QED BY <2>1, <2>2
  <1>9. \A i, j \in DOMAIN p : i < j => p[i].seq < p[j].seq
    <2> SUFFICES ASSUME NEW i \in DOMAIN p, NEW j \in DOMAIN p, i < j PROVE p[i].seq < p[j].seq
      OBVIOUS
    <2>1. CASE j \in 1..k
      <3>1. i \in 1..k
        BY <1>4, <1>5, <2>1
      <3> QED BY <1>1, <1>5, <2>1, <3>1 DEF InOrder, Rising
    <2>2. CASE i \in 1..k /\ j \notin 1..k
      <3>1. p[i] \in Range(down) /\ p[j] \in Range(q)
        BY <1>5, <1>6, <1>7, <2>2
      <3> QED BY <1>1, <1>2, <3>1 DEF InOrder
    <2>3. CASE i \notin 1..k
      <3>1. PICK a \in 1..n, e \in 1..n : a = i - k /\ e = j - k /\ p[i] = q[a] /\ p[j] = q[e] /\ a < e
        <4>1. i \in 1..k + n /\ j \in 1..k + n /\ ~(j \in 1..k)
          BY <1>4, <1>5, <2>3
        <4>2. i - k \in 1..n /\ p[i] = q[i - k] /\ j - k \in 1..n /\ p[j] = q[j - k]
          BY <1>6, <2>3, <4>1
        <4>3. i - k < j - k
          BY <1>4, <4>1
        <4> QED BY <4>2, <4>3
      <3> QED BY <1>1, <1>2, <1>5, <3>1 DEF ClientSound, Sequenced
    <2> QED BY <2>1, <2>2, <2>3
  <1>10. \A i \in DOMAIN p : p[i].seq \in Nat \ {0}
    <2> TAKE i \in DOMAIN p
    <2>1. p[i] \in QueuedFrames
      BY <1>4
    <2> QED BY <2>1 DEF QueuedFrames
  <1> QED BY <1>4, <1>5, <1>8, <1>9, <1>10

(* Without a gap, frame i is the i-th after those that the browser has.    *)
LEMMA NoGapComing ==
  ASSUME StreamInv, ~GapComing
  PROVE  \A i \in DOMAIN Frames : Frames[i].seq = b.sequence + i
  <1>1. PICK p, s : p = Frames /\ s = b.sequence
    OBVIOUS
  <1>2. s \in Nat
    BY <1>1 DEF StreamInv, Pair, Browsers
  <1>3. DOMAIN p = 1..Len(p) /\ Len(p) \in Nat /\ \A i \in DOMAIN p : p[i].seq \in Nat \ {0}
    BY <1>1, FramesAre
  <1>4. \A i \in DOMAIN p : p[i].seq = (IF i = 1 THEN s ELSE p[i - 1].seq) + 1
    BY <1>1 DEF GapComing
  <1> DEFINE S == {i \in DOMAIN p : p[i].seq # s + i}
  <1>5. ASSUME S # {} PROVE FALSE
    <2>1. PICK x \in S : \A y \in S : x <= y
      <3>1. S \in SUBSET Nat
        BY <1>3
      <3> HIDE DEF S
      <3> QED BY <1>5, <3>1, LeastNatural
    <2>2. CASE x = 1
      BY <1>2, <1>4, <2>1, <2>2
    <2>3. CASE x # 1
      <3>1. x - 1 \in DOMAIN p /\ x \in Nat
        BY <1>3, <2>1, <2>3
      <3>2. x - 1 \notin S
        BY <2>1, <3>1
      <3>3. p[x - 1].seq = s + (x - 1)
        BY <3>1, <3>2
      <3> QED BY <1>2, <1>4, <2>1, <2>3, <3>1, <3>3
    <2> QED BY <2>2, <2>3
  <1> QED BY <1>1, <1>5

(* The queue keeps its promises wherever the invariant holds.              *)
LEMMA StreamInvQueueSound == StreamInv => QueueSound
  <1> SUFFICES ASSUME StreamInv PROVE QueueSound
    OBVIOUS
  <1>1. /\ ClientSound(c) /\ Visible(c, down, b, resync, dispatched)
    BY DEF StreamInv, Pair
  <1>2. BaselineFirst
    <2> SUFFICES ASSUME b.ws = "open", ~c.closed, b.sequence = 0
                 PROVE  Frames # <<>> /\ Frames[1].type = "state.snapshot" /\ Frames[1].seq = 1
      BY DEF BaselineFirst
    <2>1. PICK f \in Coming(c, down) : f.seq = 1 /\ f.type = "state.snapshot"
      BY <1>1 DEF Visible
    <2>2. PICK i \in DOMAIN Frames : Frames[i] = f
      BY FramesAre
    <2>3. /\ DOMAIN Frames = 1..Len(Frames) /\ Len(Frames) \in Nat /\ Frames \in Seq(QueuedFrames)
          /\ (1 < i /\ 1 \in DOMAIN Frames => Frames[1].seq < Frames[i].seq)
          /\ (1 \in DOMAIN Frames => Frames[1].seq \in Nat \ {0})
      BY FramesAre
    <2>4. 1 \in DOMAIN Frames /\ (i = 1 \/ 1 < i)
      BY <2>3
    <2>5. i = 1
      BY <2>1, <2>2, <2>3, <2>4
    <2>6. Frames # <<>>
      BY <2>3, <2>4
    <2> QED BY <2>1, <2>2, <2>5, <2>6
  <1> QED BY <1>1, <1>2 DEF QueueSound, ClientSound, NoLostWakeup

(* And no loss is silent.                                                  *)
LEMMA StreamInvLossVisible == StreamInv => LossVisible
  <1> SUFFICES ASSUME StreamInv, b.ws = "open", ~c.closed, b.desired = "dashboard", ~b.resyncing,
                      ~BaselineComing, ~GapComing
               PROVE  \A k \in (1..dispatched) \ b.have :
                        \E i \in DOMAIN Frames : Frames[i].type = "patch" /\ Frames[i].version = k
    BY DEF LossVisible
  <1>1. /\ c \in Clients /\ b \in Browsers /\ Asks(c, b) /\ Visible(c, down, b, resync, dispatched)
        /\ InOrder(c, down)
    BY DEF StreamInv, Pair
  <1>2. b.applied = "dashboard" /\ ~Asked(b, resync)
    <2>1. b.applied = "dashboard"
      BY <1>1 DEF Asks
    <2>2. ~Asked(b, resync)
      BY DEF BaselineComing, Asked
    <2> QED BY <2>1, <2>2
  <1>3. /\ Told(Coming(c, down), c.seq, b.sequence, (1..dispatched) \ b.have)
        /\ Coming(c, down) = {} => b.sequence = c.seq
    BY <1>1, <1>2 DEF Visible
  <1>4. \A f : f \in Coming(c, down) <=> \E i \in DOMAIN Frames : Frames[i] = f
    BY FramesAre
  <1>5. ~ \E f \in Coming(c, down) : f.seq > b.sequence /\ f.type = "state.snapshot"
    BY <1>4 DEF BaselineComing, Frames
  <1>6. ~ \E m \in b.sequence + 1..c.seq : \A f \in Coming(c, down) : f.seq # m
    <2> SUFFICES ASSUME NEW m \in b.sequence + 1..c.seq PROVE \E f \in Coming(c, down) : f.seq = m
      OBVIOUS
    <2>1. PICK s \in Nat, t \in Nat : s = b.sequence /\ t = c.seq
      BY <1>1 DEF Browsers, Clients
    <2>2. Coming(c, down) # {}
      BY <1>3, <2>1
    <2>3. PICK f \in Coming(c, down) : f.seq = t
      BY <1>1, <2>1, <2>2 DEF InOrder
    <2>4. PICK k \in DOMAIN Frames : Frames[k] = f
      BY <1>4
    <2>5. DOMAIN Frames = 1..Len(Frames) /\ Len(Frames) \in Nat
      BY FramesAre
    <2>6. \A i \in DOMAIN Frames : Frames[i].seq = s + i
      BY <2>1, NoGapComing
    <2>7. t = s + k
      BY <2>3, <2>4, <2>6
    <2>8. PICK j \in DOMAIN Frames : m = s + j
      <3>1. m - s \in 1..k /\ k \in 1..Len(Frames) /\ m = s + (m - s)
        BY <2>1, <2>4, <2>5, <2>7
      <3>2. m - s \in DOMAIN Frames
        BY <2>5, <3>1
      <3> QED BY <3>1, <3>2
    <2>9. Frames[j] \in Coming(c, down) /\ Frames[j].seq = m
      BY <1>4, <2>6, <2>8
    <2> QED BY <2>9
  <1>7. \A k \in (1..dispatched) \ b.have :
          \E f \in Coming(c, down) : f.seq > b.sequence /\ f.type = "patch" /\ f.version = k
    BY <1>3, <1>5, <1>6 DEF Told
  <1> QED BY <1>4, <1>7

-----------------------------------------------------------------------------
(* What holds of the system *)

(* The server's record of a connection, the frames and commands on the way *)
(* and the browser's own state have their types, and the invariant holds,  *)
(* throughout.                                                             *)
THEOREM StreamSound == Spec => []StreamInv
  BY InitSound, StreamInductive, PTL DEF Spec

(* The queue of every connection keeps its promises: its byte count is     *)
(* exact, its numbers make every removal visible, the baseline that opens  *)
(* it survives whatever is queued after it, and its writer is woken        *)
(* (ws_queue.go).                                                          *)
THEOREM StreamQueueSound == Spec => []QueueSound
  BY InitSound, StreamInductive, StreamInvQueueSound, PTL DEF Spec

(* No loss is silent: what a visible dashboard lacks of the changes that   *)
(* were dispatched is on the way, or a baseline is, or the browser is      *)
(* about to find a gap (ws.go, ws_queue.go and ws.ts together).            *)
THEOREM StreamLossVisible == Spec => []LossVisible
  BY InitSound, StreamInductive, StreamInvLossVisible, PTL DEF Spec
=============================================================================
