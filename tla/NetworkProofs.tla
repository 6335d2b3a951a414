--------------------------- MODULE NetworkProofs ---------------------------
(***************************************************************************)
(* Replicas that have not failed agree, for any log, any calls and any     *)
(* number of replicas and restarts.                                        *)
(***************************************************************************)
EXTENDS Network, SumTheorems

----------------------------------------------------------------------------
(* The loop over the transactions of a block.                              *)

(* A set of numbers up to n has a largest one.                             *)
LEMMA LargestExists ==
    ASSUME NEW n \in Nat, NEW T \in SUBSET (1..n), T # {}
    PROVE  \E x \in T : \A y \in T : x >= y
<1> DEFINE K == {m \in Nat : \A U \in SUBSET (1..m) : U # {} => \E x \in U : \A y \in U : x >= y}
<1>1. 0 \in K
  <2>1. 1..0 = {}
    OBVIOUS
  <2>2. QED
    BY <2>1
<1>2. ASSUME NEW m \in Nat, m \in K
      PROVE  m + 1 \in K
  <2>1. SUFFICES ASSUME NEW U \in SUBSET (1..(m + 1)), U # {}
                 PROVE  \E x \in U : \A y \in U : x >= y
    OBVIOUS
  <2>2. CASE m + 1 \in U
    BY <2>1, <2>2
  <2>3. CASE m + 1 \notin U
    <3>1. U \in SUBSET (1..m)
      BY <2>1, <2>3
    <3>2. QED
      BY <1>2, <2>1, <3>1
  <2>4. QED
    BY <2>2, <2>3
<1>3. Nat \subseteq K
  <2> HIDE DEF K
  <2>1. QED
    BY <1>1, <1>2, NatSetInduction
<1>4. QED
  BY <1>3

(* The fold takes the transactions from the last one down.                 *)
Latest(T) == CHOOSE x \in T : \A y \in T : x >= y

Round(s, b, T, before) ==
    IF T = {} THEN s ELSE ApplyTransaction(before[T \ {Latest(T)}], b[Latest(T)])

(* g has what the loop leaves after the transactions of any subset.        *)
Rounds(s, b, g) == g = [T \in SUBSET DOMAIN b |-> Round(s, b, T, g)]

LEMMA RoundsExist ==
    ASSUME NEW s, NEW b \in Seq(Message)
    PROVE  \E g : Rounds(s, b, g)
<1> DEFINE S == DOMAIN b
           K == {n \in Nat : \E g : g = [T \in AtMost(S, n) |-> Round(s, b, T, g)]}
<1>1. /\ IsFiniteSet(S) /\ S \in SUBSET Nat
      /\ \A T \in SUBSET S : IsFiniteSet(T) /\ Cardinality(T) \in Nat
  <2>1. IsFiniteSet(S) /\ S \in SUBSET Nat
    BY FS_Interval
  <2>2. QED
    BY <2>1, FS_Subset, FS_CardinalityType
<1>2. ASSUME NEW T \in SUBSET S, T # {}
      PROVE  /\ Latest(T) \in T
             /\ T \ {Latest(T)} \in SUBSET S
             /\ Cardinality(T \ {Latest(T)}) = Cardinality(T) - 1
  <2>1. \E x \in T : \A y \in T : x >= y
    <3>1. T \in SUBSET (1..Len(b)) /\ Len(b) \in Nat
      OBVIOUS
    <3>2. QED
      BY <1>2, <3>1, LargestExists
  <2>2. Latest(T) \in T
    BY <2>1 DEF Latest
  <2>3. Cardinality(T \ {Latest(T)}) = Cardinality(T) - 1
    BY <1>1, <2>2, FS_RemoveElement, Zenon
  <2>4. QED
    BY <2>2, <2>3
<1>3. 0 \in K
  <2> DEFINE g == [T \in AtMost(S, 0) |-> s]
  <2>1. \A T \in AtMost(S, 0) : T = {}
    BY <1>1, FS_EmptySet DEF AtMost
  <2>2. g = [T \in AtMost(S, 0) |-> Round(s, b, T, g)]
    BY <2>1 DEF Round
  <2>3. QED
    BY <2>2
<1>4. ASSUME NEW n \in Nat, n \in K
      PROVE  n + 1 \in K
  <2>1. PICK g : g = [T \in AtMost(S, n) |-> Round(s, b, T, g)]
    BY <1>4
  <2> DEFINE h == [T \in AtMost(S, n + 1) |-> IF T \in AtMost(S, n) THEN g[T] ELSE Round(s, b, T, g)]
  <2>2. AtMost(S, n) \subseteq AtMost(S, n + 1)
    BY <1>1 DEF AtMost
  <2>3. ASSUME NEW T \in AtMost(S, n + 1)
        PROVE  h[T] = Round(s, b, T, h)
    <3>1. T \in SUBSET S
      BY DEF AtMost
    <3>2. h[T] = Round(s, b, T, g)
      BY <2>1
    <3>3. CASE T = {}
      BY <3>2, <3>3 DEF Round
    <3>4. CASE T # {}
      <4>1. T \ {Latest(T)} \in AtMost(S, n)
        BY <1>1, <1>2, <3>1, <3>4 DEF AtMost
      <4>2. h[T \ {Latest(T)}] = g[T \ {Latest(T)}]
        BY <2>2, <4>1
      <4>3. QED
        BY <3>2, <3>4, <4>2 DEF Round
    <3>5. QED
      BY <3>3, <3>4
  <2>4. h = [T \in AtMost(S, n + 1) |-> Round(s, b, T, h)]
    <3>1. h = [T \in AtMost(S, n + 1) |-> h[T]]
      OBVIOUS
    <3> HIDE DEF h
    <3>2. QED
      BY <2>3, <3>1
  <2> HIDE DEF h
  <2>5. QED
    BY <2>4
<1>5. Cardinality(S) \in K
  <2> HIDE DEF K
  <2>1. QED
    BY <1>1, <1>3, <1>4, NatSetInduction
<1>6. AtMost(S, Cardinality(S)) = SUBSET S
  <2>1. \A T \in SUBSET S : Cardinality(T) <= Cardinality(S)
    BY <1>1, FS_Subset
  <2>2. QED
    BY <2>1 DEF AtMost
<1>7. QED
  BY <1>5, <1>6 DEF Rounds

(* What the loop does to a WAS, transaction by transaction.                *)
Loop(s, b, run) ==
    /\ run[0] = s
    /\ \A k \in 1..Len(b) : run[k] = ApplyTransaction(run[k - 1], b[k])

LEMMA FoldIsLoop ==
    ASSUME NEW s, NEW b \in Seq(Message)
    PROVE  \E run : Loop(s, b, run) /\ FoldLeft(ApplyTransaction, s, b) = run[Len(b)]
<1> DEFINE g == CHOOSE g : g = [T \in SUBSET DOMAIN b |-> Round(s, b, T, g)]
           run == [k \in 0..Len(b) |-> g[1..k]]
<1>1. g = [T \in SUBSET DOMAIN b |-> Round(s, b, T, g)]
  BY RoundsExist DEF Rounds
<1>2. FoldLeft(ApplyTransaction, s, b) = g[DOMAIN b]
  BY DEF FoldLeft, MapThenFoldSet, Round, Latest, Max
<1> HIDE DEF g
<1>3. Len(b) \in Nat /\ DOMAIN b = 1..Len(b)
  OBVIOUS
<1>4. run[0] = s
  <2>1. 1..0 = {}
    OBVIOUS
  <2>2. g[{}] = s
    BY <1>1 DEF Round
  <2>3. QED
    BY <1>3, <2>1, <2>2
<1>5. ASSUME NEW k \in 1..Len(b)
      PROVE  run[k] = ApplyTransaction(run[k - 1], b[k])
  <2>1. Latest(1..k) = k
    <3>1. k \in 1..k /\ \A y \in 1..k : k >= y
      BY <1>3
    <3>2. Latest(1..k) \in 1..k /\ \A y \in 1..k : Latest(1..k) >= y
      BY <3>1 DEF Latest
    <3>3. QED
      BY <1>3, <3>1, <3>2
  <2>2. 1..k # {} /\ 1..k \in SUBSET DOMAIN b
    <3>1. k \in 1..k
      BY <1>3
    <3>2. 1..k \subseteq 1..Len(b)
      BY <1>3
    <3>3. QED
      BY <1>3, <3>1, <3>2
  <2>6. (1..k) \ {k} = 1..(k - 1)
    BY <1>3
  <2>3. g[1..k] = ApplyTransaction(g[1..(k - 1)], b[k])
    BY <1>1, <2>1, <2>2, <2>6 DEF Round
  <2>4. k \in 0..Len(b) /\ k - 1 \in 0..Len(b)
    BY <1>3
  <2>5. QED
    BY <2>3, <2>4
<1>6. FoldLeft(ApplyTransaction, s, b) = run[Len(b)]
  BY <1>2, <1>3
<1> HIDE DEF run
<1>7. QED
  BY <1>4, <1>5, <1>6 DEF Loop

(* A WAS as the loop keeps it.                                             *)
IsStage(s) == DOMAIN s = {"was", "gp", "last", "ok"} /\ s.ok \in BOOLEAN

(* A round that succeeds does to the ledger what the ledger alone decides. *)
LEMMA RoundOutcome ==
    ASSUME NEW s, IsStage(s), NEW t
    PROVE  /\ IsStage(ApplyTransaction(s, t))
           /\ ApplyTransaction(s, t).ok =>
                 /\ s.ok
                 /\ ApplyTransaction(s, t).was = Execute(s.was, t)
                 /\ ApplyTransaction(s, t).last = Execute(s.was, t)
<1> DEFINE r == ApplyTransaction(s, t)
<1>1. CASE ~s.ok
  BY <1>1 DEF ApplyTransaction
<1>2. CASE s.ok /\ NonceMatches(s.was, t) /\ Executes(s.was, s.gp, t)
  <2>1. r = Applied(s, t)
    BY <1>2 DEF ApplyTransaction
  <2>2. /\ DOMAIN Applied(s, t) = DOMAIN s
        /\ Applied(s, t).was = Execute(s.was, t)
        /\ Applied(s, t).last = Execute(s.was, t)
        /\ Applied(s, t).ok = s.ok
    BY DEF Applied, IsStage
  <2> HIDE DEF r
  <2>3. QED
    BY <1>2, <2>1, <2>2 DEF IsStage, r
<1>3. CASE s.ok /\ ~(NonceMatches(s.was, t) /\ Executes(s.was, s.gp, t))
  <2>1. r = Failed(s, t)
    BY <1>3 DEF ApplyTransaction
  <2>2. DOMAIN Failed(s, t) = DOMAIN s /\ Failed(s, t).ok = FALSE
    BY DEF Failed, IsStage
  <2> HIDE DEF r
  <2>3. QED
    BY <2>1, <2>2 DEF IsStage, r
<1>4. QED
  BY <1>1, <1>2, <1>3 DEF IsStage

(* Two nodes with the same ledger for whom a block succeeds have the same  *)
(* ledger after it, whatever was left in their gas pools; and the last     *)
(* receipt names that ledger.                                              *)
LEMMA SameBlockSameLedger ==
    ASSUME NEW s, IsStage(s), NEW u, IsStage(u), s.was = u.was,
           NEW b \in Seq(Message),
           FoldLeft(ApplyTransaction, s, b).ok, FoldLeft(ApplyTransaction, u, b).ok
    PROVE  /\ FoldLeft(ApplyTransaction, s, b).was = FoldLeft(ApplyTransaction, u, b).was
           /\ \/ FoldLeft(ApplyTransaction, s, b).last = s.last
              \/ FoldLeft(ApplyTransaction, s, b).last = FoldLeft(ApplyTransaction, s, b).was
<1>1. PICK f : Loop(s, b, f) /\ FoldLeft(ApplyTransaction, s, b) = f[Len(b)]
  BY FoldIsLoop
<1>2. PICK g : Loop(u, b, g) /\ FoldLeft(ApplyTransaction, u, b) = g[Len(b)]
  BY FoldIsLoop
<1> DEFINE Good(k) == /\ IsStage(f[k]) /\ IsStage(g[k])
                      /\ f[k].ok /\ g[k].ok => f[k].was = g[k].was
                      /\ f[k].ok => f[k].last = s.last \/ f[k].last = f[k].was
           K == {k \in Nat : k <= Len(b) => Good(k)}
<1>3. Len(b) \in Nat
  OBVIOUS
<1>4. 0 \in K
  BY <1>1, <1>2 DEF Loop
<1>5. ASSUME NEW k \in Nat, k \in K
      PROVE  k + 1 \in K
  <2>1. SUFFICES ASSUME k + 1 <= Len(b)
                 PROVE  Good(k + 1)
    BY <1>3
  <2>2. k + 1 \in 1..Len(b) /\ (k + 1) - 1 = k
    BY <1>3, <2>1
  <2>3. f[k + 1] = ApplyTransaction(f[k], b[k + 1]) /\ g[k + 1] = ApplyTransaction(g[k], b[k + 1])
    BY <1>1, <1>2, <2>2 DEF Loop
  <2>4. Good(k)
    BY <1>3, <1>5, <2>1
  <2>5. /\ IsStage(f[k + 1])
        /\ f[k + 1].ok => /\ f[k].ok
                          /\ f[k + 1].was = Execute(f[k].was, b[k + 1])
                          /\ f[k + 1].last = Execute(f[k].was, b[k + 1])
    BY <2>3, <2>4, RoundOutcome
  <2>6. /\ IsStage(g[k + 1])
        /\ g[k + 1].ok => g[k].ok /\ g[k + 1].was = Execute(g[k].was, b[k + 1])
    BY <2>3, <2>4, RoundOutcome
  <2>7. QED
    BY <2>4, <2>5, <2>6
<1>6. Len(b) \in K
  <2> HIDE DEF K
  <2>1. QED
    BY <1>3, <1>4, <1>5, NatSetInduction
<1>7. QED
  BY <1>1, <1>2, <1>3, <1>6
----------------------------------------------------------------------------
(* What a ledger is made of.  For replicas that have not failed it is      *)
(* decided by the blocks they have processed and the heights at which they *)
(* have created their genesis accounts: a function f takes the two to the  *)
(* ledger, and each of its values follows from an earlier one by a block   *)
(* or by the genesis accounts.                                             *)

(* The ledger M is what a block that succeeds makes of L.                  *)
Reaches(L, b, M) ==
    \E s : /\ IsStage(s) /\ s.was = L
          /\ FoldLeft(ApplyTransaction, s, b).ok
          /\ FoldLeft(ApplyTransaction, s, b).was = M

LEMMA ReachesOne ==
    ASSUME NEW L, NEW b \in Seq(Message), NEW M, NEW N, Reaches(L, b, M), Reaches(L, b, N)
    PROVE  M = N
  BY SameBlockSameLedger DEF Reaches

(* The genesis accounts on top of L.                                       *)
Minting(L) == [L EXCEPT !.balance = [a \in Account |->
                   IF a \in DOMAIN Genesis THEN @[a] + Genesis[a] ELSE @[a]]]

EndsWith(m, h) == m # <<>> /\ m[Len(m)] = h

Empty(h, m, L) == h = 0 /\ m = <<>> /\ L = EmptyLedger

ByMint(f, h, m, L) ==
    \E p \in Seq(Nat) : m = Append(p, h) /\ <<h, p>> \in DOMAIN f /\ L = Minting(f[<<h, p>>])

ByBlock(f, h, m, L) ==
    /\ h \in 1..Len(Log) /\ ~EndsWith(m, h)
    /\ <<h - 1, m>> \in DOMAIN f
    /\ Reaches(f[<<h - 1, m>>], Log[h], L)

Derived(f, h, m, L) == Empty(h, m, L) \/ ByMint(f, h, m, L) \/ ByBlock(f, h, m, L)

Explains(f) ==
    /\ DOMAIN f \subseteq Nat \X Seq(Nat)
    /\ \A h \in Nat : \A m \in Seq(Nat) : <<h, m>> \in DOMAIN f => Derived(f, h, m, f[<<h, m>>])

LEMMA AppendEnds ==
    ASSUME NEW p \in Seq(Nat), NEW h \in Nat
    PROVE  /\ EndsWith(Append(p, h), h)
           /\ \A q \in Seq(Nat) : Append(p, h) = Append(q, h) => p = q
<1>1. EndsWith(Append(p, h), h)
  BY DEF EndsWith
<1>2. ASSUME NEW q \in Seq(Nat), Append(p, h) = Append(q, h)
      PROVE  p = q
  <2>1. Len(p) = Len(q)
    <3>1. Len(Append(p, h)) = Len(p) + 1 /\ Len(Append(q, h)) = Len(q) + 1
      OBVIOUS
    <3>2. QED
      BY <1>2, <3>1
  <2>2. ASSUME NEW i \in 1..Len(p)
        PROVE  p[i] = q[i]
    <3>1. Append(p, h)[i] = p[i] /\ Append(q, h)[i] = q[i]
      BY <2>1
    <3>2. QED
      BY <1>2, <3>1
  <2>3. p = [i \in 1..Len(p) |-> p[i]] /\ q = [i \in 1..Len(q) |-> q[i]]
    OBVIOUS
  <2>4. [i \in 1..Len(p) |-> p[i]] = [i \in 1..Len(q) |-> q[i]]
    BY <2>1, <2>2
  <2>5. QED
    BY <2>3, <2>4, Zenon
<1>3. QED
  BY <1>1, <1>2

(* Where f has a value, it is the only one that can be derived.            *)
LEMMA DerivedOne ==
    ASSUME NEW f, Explains(f), NEW h \in Nat, NEW m \in Seq(Nat), NEW L, Derived(f, h, m, L),
           <<h, m>> \in DOMAIN f
    PROVE  f[<<h, m>>] = L
<1> DEFINE M == f[<<h, m>>]
<1>1. Derived(f, h, m, M)
  BY DEF Explains
<1> HIDE DEF M
<1>2. CASE Empty(h, m, L)
  <2>1. ~ByMint(f, h, m, M)
    BY <1>2, AppendEnds DEF ByMint, EndsWith, Empty
  <2>2. QED
    BY <1>1, <1>2, <2>1 DEF Derived, Empty, ByBlock, M
<1>3. CASE ByMint(f, h, m, L)
  <2>1. EndsWith(m, h)
    BY <1>3, AppendEnds DEF ByMint
  <2>2. ByMint(f, h, m, M)
    BY <1>1, <2>1 DEF Derived, Empty, ByBlock, EndsWith
  <2>3. QED
    BY <1>3, <2>2, AppendEnds DEF ByMint, M
<1>4. CASE ByBlock(f, h, m, L)
  <2>1. ByBlock(f, h, m, M)
    <3>1. ~ByMint(f, h, m, M)
      BY <1>4, AppendEnds DEF ByMint, ByBlock
    <3>2. QED
      BY <1>1, <1>4, <3>1 DEF Derived, Empty, ByBlock
  <2>2. Log[h] \in Seq(Message)
    BY <1>4, NetworkAssumption DEF ByBlock
  <2>3. QED
    BY <1>4, <2>1, <2>2, ReachesOne DEF ByBlock, M
<1>5. QED
  BY <1>2, <1>3, <1>4 DEF Derived

(* g has the values of f, and L.                                           *)
Extends(g, f, h, m, L) ==
    /\ \A k \in DOMAIN f : k \in DOMAIN g /\ g[k] = f[k]
    /\ <<h, m>> \in DOMAIN g /\ g[<<h, m>>] = L

LEMMA DerivedExtends ==
    ASSUME NEW f, Explains(f), NEW h \in Nat, NEW m \in Seq(Nat), NEW L, Derived(f, h, m, L)
    PROVE  \E g : Explains(g) /\ Extends(g, f, h, m, L)
<1>1. CASE <<h, m>> \in DOMAIN f
  <2>1. f[<<h, m>>] = L
    BY <1>1, DerivedOne
  <2>2. QED
    BY <1>1, <2>1 DEF Extends
<1>2. CASE <<h, m>> \notin DOMAIN f
  <2> DEFINE g == [k \in DOMAIN f \cup {<<h, m>>} |-> IF k \in DOMAIN f THEN f[k] ELSE L]
  <2>1. /\ DOMAIN g = DOMAIN f \cup {<<h, m>>}
        /\ \A k \in DOMAIN f : g[k] = f[k]
        /\ g[<<h, m>>] = L
    BY <1>2
  <2> HIDE DEF g
  <2>2. ASSUME NEW i \in Nat, NEW q \in Seq(Nat), NEW M, Derived(f, i, q, M)
        PROVE  Derived(g, i, q, M)
    <3>1. CASE Empty(i, q, M)
      BY <3>1 DEF Derived
    <3>2. CASE ByMint(f, i, q, M)
      <4>1. ByMint(g, i, q, M)
        BY <2>1, <3>2 DEF ByMint
      <4>2. QED
        BY <4>1 DEF Derived
    <3>3. CASE ByBlock(f, i, q, M)
      <4>1. ByBlock(g, i, q, M)
        BY <2>1, <3>3 DEF ByBlock
      <4>2. QED
        BY <4>1 DEF Derived
    <3>4. QED
      BY <2>2, <3>1, <3>2, <3>3 DEF Derived
  <2>3. ASSUME NEW i \in Nat, NEW q \in Seq(Nat), <<i, q>> \in DOMAIN g
        PROVE  Derived(g, i, q, g[<<i, q>>])
    <3>1. CASE <<i, q>> \in DOMAIN f
      <4>1. Derived(f, i, q, f[<<i, q>>]) /\ g[<<i, q>>] = f[<<i, q>>]
        BY <2>1, <3>1 DEF Explains
      <4>2. QED
        BY <2>2, <4>1
    <3>2. CASE <<i, q>> \notin DOMAIN f
      <4>1. i = h /\ q = m
        BY <2>1, <2>3, <3>2
      <4>2. QED
        BY <2>1, <2>2, <4>1
    <3>3. QED
      BY <3>1, <3>2
  <2>4. DOMAIN g \subseteq Nat \X Seq(Nat)
    BY <2>1 DEF Explains
  <2>5. QED
    BY <2>1, <2>3, <2>4 DEF Explains, Extends
<1>3. QED
  BY <1>1, <1>2
----------------------------------------------------------------------------
(* The invariant.                                                          *)

Shape ==
    /\ height \in [Replica -> 0..Len(Log)]
    /\ minted \in [Replica -> Seq(Nat)]
    /\ failed \in [Replica -> BOOLEAN]
    /\ head \in [Replica -> {"none", "unreadable", "stored"}]
    /\ was = [n \in Replica |-> was[n]]
    /\ statedb = [n \in Replica |-> statedb[n]]
    /\ lastRoot = [n \in Replica |-> lastRoot[n]]
    /\ headRoot = [n \in Replica |-> headRoot[n]]

(* Without a failure nothing is left in the WAS between two blocks, and    *)
(* the database leads back to the ledger that is served.                   *)
Clean ==
    \A n \in Replica : ~failed[n] =>
        /\ was[n] = statedb[n]
        /\ lastRoot[n] = NoRoot
        /\ head[n] = "none" => statedb[n] = EmptyLedger
        /\ head[n] = "stored" => headRoot[n] = statedb[n]

MintedBefore ==
    \A n \in Replica : minted[n] # <<>> => minted[n][Len(minted[n])] <= height[n]

Follows(f) ==
    \A n \in Replica : ~failed[n] =>
        <<height[n], minted[n]>> \in DOMAIN f /\ f[<<height[n], minted[n]>>] = statedb[n]

LocalInv == Shape /\ Clean /\ MintedBefore

NetworkInv == LocalInv /\ \E f : Explains(f) /\ Follows(f)

LEMMA InitNetwork == Init => NetworkInv
<1> SUFFICES ASSUME Init PROVE NetworkInv
  OBVIOUS
<1>1. LocalInv
  BY NetworkAssumption DEF Init, LocalInv, Shape, Clean, MintedBefore
<1> DEFINE f == [k \in {<<0, <<>>>>} |-> EmptyLedger]
<1>2. DOMAIN f = {<<0, <<>>>>} /\ f[<<0, <<>>>>] = EmptyLedger
  OBVIOUS
<1> HIDE DEF f
<1>3. Explains(f)
  <2>1. <<>> \in Seq(Nat)
    OBVIOUS
  <2>2. DOMAIN f \subseteq Nat \X Seq(Nat)
    <3> DEFINE e == <<>>
    <3>1. e \in Seq(Nat) /\ DOMAIN f = {<<0, e>>}
      BY <1>2, <2>1
    <3> HIDE DEF e
    <3>2. QED
      BY <3>1
  <2>3. ASSUME NEW h \in Nat, NEW m \in Seq(Nat), <<h, m>> \in DOMAIN f
        PROVE  Derived(f, h, m, f[<<h, m>>])
    <3>1. h = 0 /\ m = <<>>
      BY <1>2, <2>3
    <3>2. QED
      BY <1>2, <3>1 DEF Derived, Empty
  <2>4. QED
    BY <2>2, <2>3 DEF Explains
<1>4. Follows(f)
  BY <1>2 DEF Follows, Init
<1>5. QED
  BY <1>1, <1>3, <1>4 DEF NetworkInv

(* The block of height h, for a node that has not failed.                  *)
LEMMA ProcessedReaches ==
    ASSUME NEW n \in Replica, LocalInv, ~failed[n], height[n] < Len(Log),
           Processed(n, Log[height[n] + 1]).ok
    PROVE  /\ Reaches(statedb[n], Log[height[n] + 1], Processed(n, Log[height[n] + 1]).was)
           /\ \/ Processed(n, Log[height[n] + 1]).last = NoRoot
              \/ Processed(n, Log[height[n] + 1]).last = Processed(n, Log[height[n] + 1]).was
<1> DEFINE s == [was |-> was[n], gp |-> gp[n], last |-> lastRoot[n], ok |-> TRUE]
           b == Log[height[n] + 1]
<1>1. Processed(n, b) = FoldLeft(ApplyTransaction, s, b)
  BY DEF Processed
<1>2. IsStage(s) /\ s.was = was[n] /\ s.last = lastRoot[n]
  BY DEF IsStage
<1>3. b \in Seq(Message)
  BY NetworkAssumption DEF LocalInv, Shape
<1> HIDE DEF s, b
<1>4. FoldLeft(ApplyTransaction, s, b).ok
  BY <1>1 DEF b
<1>5. \/ FoldLeft(ApplyTransaction, s, b).last = s.last
      \/ FoldLeft(ApplyTransaction, s, b).last = FoldLeft(ApplyTransaction, s, b).was
  BY <1>2, <1>3, <1>4, SameBlockSameLedger
<1>6. was[n] = statedb[n] /\ lastRoot[n] = NoRoot
  BY DEF LocalInv, Clean
<1>7. Reaches(statedb[n], b, Processed(n, b).was)
  BY <1>1, <1>2, <1>4, <1>6 DEF Reaches
<1>8. QED
  BY <1>1, <1>2, <1>5, <1>6, <1>7 DEF b
(* A commit of the ledger L, and the height and minted it goes with.       *)
LEMMA CommitLocal ==
    ASSUME LocalInv, NEW n \in Replica, NEW L, NEW root, Commit(n, L, root),
           root = NoRoot \/ root = L, height' \in [Replica -> 0..Len(Log)],
           minted' \in [Replica -> Seq(Nat)], UNCHANGED failed
    PROVE  Shape' /\ Clean'
<1>1. Shape'
  <2>1. head' \in [Replica -> {"none", "unreadable", "stored"}]
    BY DEF Commit, LocalInv, Shape
  <2>2. /\ was' = [m \in Replica |-> was'[m]]
        /\ statedb' = [m \in Replica |-> statedb'[m]]
        /\ lastRoot' = [m \in Replica |-> lastRoot'[m]]
        /\ headRoot' = [m \in Replica |-> headRoot'[m]]
    BY DEF Commit, LocalInv, Shape
  <2>3. QED
    BY <2>1, <2>2 DEF LocalInv, Shape
<1>2. ASSUME NEW m \in Replica, ~failed'[m]
      PROVE  /\ was'[m] = statedb'[m]
             /\ lastRoot'[m] = NoRoot
             /\ head'[m] = "none" => statedb'[m] = EmptyLedger
             /\ head'[m] = "stored" => headRoot'[m] = statedb'[m]
  <2>1. ~failed[m]
    BY <1>2
  <2>2. CASE m = n
    BY <2>2 DEF Commit, LocalInv, Shape
  <2>3. CASE m # n
    BY <2>1, <2>3 DEF Commit, LocalInv, Shape, Clean
  <2>4. QED
    BY <2>2, <2>3
<1>3. QED
  BY <1>1, <1>2 DEF Clean

LEMMA StepLocal == LocalInv /\ [Next]_vars => LocalInv'
<1> SUFFICES ASSUME LocalInv, [Next]_vars PROVE LocalInv'
  OBVIOUS
<1>1. ASSUME NEW n \in Replica, ProcessBlock(n)
      PROVE  LocalInv'
  <2> DEFINE s == Processed(n, Log[height'[n]])
  <2>1. /\ height' \in [Replica -> 0..Len(Log)]
        /\ height'[n] = height[n] + 1 /\ height[n] < Len(Log)
        /\ \A m \in Replica : height'[m] >= height[m]
        /\ minted' = minted
    BY <1>1, NetworkAssumption DEF ProcessBlock, LocalInv, Shape
  <2>2. MintedBefore'
    BY <2>1 DEF LocalInv, MintedBefore, Shape
  <2>3. CASE s.ok /\ Commit(n, s.was, s.last) /\ UNCHANGED failed
    <3>1. CASE failed[n]
      <4>1. Shape'
        BY <2>1, <2>3 DEF Commit, LocalInv, Shape
      <4>2. Clean'
        BY <2>3, <3>1 DEF Commit, LocalInv, Shape, Clean
      <4>3. QED
        BY <2>2, <4>1, <4>2 DEF LocalInv
    <3>2. CASE ~failed[n]
      <4>1. s.last = NoRoot \/ s.last = s.was
        BY <2>1, <2>3, <3>2, ProcessedReaches
      <4>2. minted' \in [Replica -> Seq(Nat)]
        BY <2>1 DEF LocalInv, Shape
      <4> HIDE DEF s
      <4>3. Shape' /\ Clean'
        BY <2>1, <2>3, <4>1, <4>2, CommitLocal
      <4>4. QED
        BY <2>2, <4>3 DEF LocalInv
    <3>3. QED
      BY <3>1, <3>2 DEF LocalInv, Shape
  <2>4. CASE /\ was' = [was EXCEPT ![n] = s.was]
             /\ lastRoot' = [lastRoot EXCEPT ![n] = s.last]
             /\ failed' = [failed EXCEPT ![n] = TRUE]
             /\ UNCHANGED <<statedb, head, headRoot>>
    <3> HIDE DEF s
    <3>1. Shape'
      BY <2>1, <2>4 DEF LocalInv, Shape
    <3>2. Clean'
      BY <2>4 DEF LocalInv, Shape, Clean
    <3>3. QED
      BY <2>2, <3>1, <3>2 DEF LocalInv
  <2>5. QED
    BY <1>1, <2>3, <2>4 DEF ProcessBlock
<1>2. ASSUME NEW n \in Replica, CreateAccounts(n)
      PROVE  LocalInv'
  <2> DEFINE L == Minting(was[n])
  <2>1. Commit(n, L, lastRoot[n])
    BY <1>2 DEF CreateAccounts, Minting
  <2>2. /\ height' = height /\ height \in [Replica -> 0..Len(Log)]
        /\ minted' = [minted EXCEPT ![n] = Append(minted[n], height[n])]
        /\ failed' = failed /\ height[n] \in Nat
    BY <1>2, NetworkAssumption DEF CreateAccounts, LocalInv, Shape
  <2>3. /\ minted' \in [Replica -> Seq(Nat)]
        /\ minted'[n] = Append(minted[n], height[n])
        /\ \A m \in Replica \ {n} : minted'[m] = minted[m]
    BY <2>2 DEF LocalInv, Shape
  <2>4. MintedBefore'
    <3>1. ASSUME NEW m \in Replica, minted'[m] # <<>>
          PROVE  minted'[m][Len(minted'[m])] <= height'[m]
      <4>1. CASE m = n
        BY <2>2, <2>3, <4>1, AppendEnds DEF EndsWith, LocalInv, Shape
      <4>2. CASE m # n
        BY <2>2, <2>3, <3>1, <4>2 DEF LocalInv, MintedBefore
      <4>3. QED
        BY <4>1, <4>2
    <3>2. QED
      BY <3>1 DEF MintedBefore
  <2> HIDE DEF L
  <2>5. CASE failed[n]
    <3>1. Shape'
      BY <2>1, <2>2, <2>3 DEF Commit, LocalInv, Shape
    <3>2. Clean'
      BY <2>1, <2>2, <2>5 DEF Commit, LocalInv, Shape, Clean
    <3>3. QED
      BY <2>4, <3>1, <3>2 DEF LocalInv
  <2>6. CASE ~failed[n]
    <3>1. lastRoot[n] = NoRoot
      BY <2>6 DEF LocalInv, Clean
    <3>2. Shape' /\ Clean'
      BY <2>1, <2>2, <2>3, <3>1, CommitLocal
    <3>3. QED
      BY <2>4, <3>2 DEF LocalInv
  <2>7. QED
    BY <2>5, <2>6
<1>3. ASSUME NEW n \in Replica, NEW c \in Calls, Call(n, c)
      PROVE  LocalInv'
  BY <1>3 DEF Call, LocalInv, Shape, Clean, MintedBefore
<1>4. ASSUME NEW n \in Replica, Restart(n)
      PROVE  LocalInv'
  <2> DEFINE L == IF head[n] = "none" THEN EmptyLedger ELSE headRoot[n]
  <2>1. /\ was' = [was EXCEPT ![n] = L] /\ statedb' = [statedb EXCEPT ![n] = L]
        /\ lastRoot' = [lastRoot EXCEPT ![n] = NoRoot]
        /\ UNCHANGED <<height, head, headRoot, minted, failed>>
    BY <1>4 DEF Restart
  <2>2. /\ head[n] = "none" => L = EmptyLedger
        /\ head[n] # "none" => L = headRoot[n]
    OBVIOUS
  <2> HIDE DEF L
  <2>3. Shape'
    BY <2>1 DEF LocalInv, Shape
  <2>4. Clean'
    BY <2>1, <2>2 DEF LocalInv, Shape, Clean
  <2>5. MintedBefore'
    BY <2>1 DEF LocalInv, MintedBefore
  <2>6. QED
    BY <2>3, <2>4, <2>5 DEF LocalInv
<1>5. CASE UNCHANGED vars
  BY <1>5 DEF vars, LocalInv, Shape, Clean, MintedBefore
<1>6. QED
  BY <1>1, <1>2, <1>3, <1>4, <1>5 DEF Next
(* One node moves on to a ledger that follows from its own.                *)
LEMMA FollowsOn ==
    ASSUME LocalInv, NEW f, Explains(f), Follows(f), NEW n \in Replica,
           UNCHANGED failed,
           \A m \in Replica \ {n} : /\ height'[m] = height[m] /\ minted'[m] = minted[m]
                                    /\ statedb'[m] = statedb[m],
           height'[n] \in Nat, minted'[n] \in Seq(Nat),
           ~failed[n] => Derived(f, height'[n], minted'[n], statedb'[n])
    PROVE  (\E g : Explains(g) /\ Follows(g))'
<1>1. CASE failed[n]
  <2>1. Explains(f)'
    BY DEF Explains
  <2>2. Follows(f)'
    BY <1>1 DEF Follows
  <2>3. QED
    BY <2>1, <2>2
<1>2. CASE ~failed[n]
  <2>1. PICK g : Explains(g) /\ Extends(g, f, height'[n], minted'[n], statedb'[n])
    BY <1>2, DerivedExtends
  <2>2. ASSUME NEW m \in Replica, ~failed'[m]
        PROVE  /\ <<height'[m], minted'[m]>> \in DOMAIN g
               /\ g[<<height'[m], minted'[m]>>] = statedb'[m]
    <3>1. CASE m = n
      BY <2>1, <3>1 DEF Extends
    <3>2. CASE m # n
      <4>1. <<height[m], minted[m]>> \in DOMAIN f /\ f[<<height[m], minted[m]>>] = statedb[m]
        BY <2>2 DEF Follows
      <4>2. /\ <<height[m], minted[m]>> \in DOMAIN g
            /\ g[<<height[m], minted[m]>>] = f[<<height[m], minted[m]>>]
        BY <2>1, <4>1 DEF Extends
      <4>3. height'[m] = height[m] /\ minted'[m] = minted[m] /\ statedb'[m] = statedb[m]
        BY <3>2
      <4>4. QED
        BY <4>1, <4>2, <4>3
    <3>3. QED
      BY <3>1, <3>2
  <2>3. Explains(g)' /\ Follows(g)'
    BY <2>1, <2>2 DEF Explains, Follows
  <2>4. QED
    BY <2>3
<1>3. QED
  BY <1>1, <1>2

LEMMA StepHistory == NetworkInv /\ [Next]_vars => (\E f : Explains(f) /\ Follows(f))'
<1> SUFFICES ASSUME NetworkInv, [Next]_vars
             PROVE  (\E f : Explains(f) /\ Follows(f))'
  OBVIOUS
<1>0. LocalInv
  BY DEF NetworkInv
<1>1. PICK f : Explains(f) /\ Follows(f)
  BY DEF NetworkInv
<1>2. ASSUME UNCHANGED <<height, minted, failed>>,
             \A m \in Replica : ~failed[m] => statedb'[m] = statedb[m]
      PROVE  (\E g : Explains(g) /\ Follows(g))'
  <2>1. Explains(f)' /\ Follows(f)'
    BY <1>1, <1>2 DEF Explains, Follows
  <2>2. QED
    BY <2>1
<1>3. ASSUME NEW n \in Replica, ProcessBlock(n)
      PROVE  (\E g : Explains(g) /\ Follows(g))'
  <2> DEFINE h == height[n] + 1
             s == Processed(n, Log[height'[n]])
  <2>1. /\ height' = [height EXCEPT ![n] = h] /\ height'[n] = h
        /\ h \in 1..Len(Log) /\ h - 1 = height[n] /\ height[n] \in Nat /\ height[n] < Len(Log)
        /\ minted' = minted /\ minted[n] \in Seq(Nat)
    <3>1. /\ height' = [height EXCEPT ![n] = h] /\ height[n] < Len(Log) /\ minted' = minted
      BY <1>3 DEF ProcessBlock
    <3>2. Len(Log) \in Nat /\ height[n] \in 0..Len(Log) /\ minted[n] \in Seq(Nat)
      BY <1>0, NetworkAssumption DEF LocalInv, Shape
    <3>3. height'[n] = h
      BY <1>0, <3>1 DEF LocalInv, Shape
    <3>4. QED
      BY <3>1, <3>2, <3>3
  <2>2. CASE s.ok /\ Commit(n, s.was, s.last) /\ UNCHANGED failed
    <3>1. statedb' = [statedb EXCEPT ![n] = s.was] /\ statedb'[n] = s.was
      BY <1>0, <2>2 DEF Commit, LocalInv, Shape
    <3>2. ASSUME ~failed[n]
          PROVE  Derived(f, h, minted[n], statedb'[n])
      <4>1. Reaches(statedb[n], Log[h], statedb'[n])
        BY <1>0, <2>1, <2>2, <3>1, <3>2, ProcessedReaches
      <4>2. <<h - 1, minted[n]>> \in DOMAIN f /\ f[<<h - 1, minted[n]>>] = statedb[n]
        BY <1>1, <2>1, <3>2 DEF Follows
      <4>3. ~EndsWith(minted[n], h)
        BY <1>0, <2>1 DEF EndsWith, LocalInv, MintedBefore
      <4> HIDE DEF h
      <4>4. QED
        BY <2>1, <4>1, <4>2, <4>3 DEF Derived, ByBlock
    <3>3. \A m \in Replica \ {n} : /\ height'[m] = height[m] /\ minted'[m] = minted[m]
                                    /\ statedb'[m] = statedb[m]
      BY <1>0, <2>1, <3>1 DEF LocalInv, Shape
    <3>4. /\ height'[n] \in Nat /\ minted'[n] \in Seq(Nat)
          /\ ~failed[n] => Derived(f, height'[n], minted'[n], statedb'[n])
      BY <2>1, <3>2
    <3> HIDE DEF s, h
    <3>5. QED
      BY <1>0, <1>1, <2>2, <3>3, <3>4, FollowsOn
  <2>3. CASE failed' = [failed EXCEPT ![n] = TRUE] /\ UNCHANGED statedb
    <3>1. Explains(f)' /\ Follows(f)'
      <4>1. \A m \in Replica : ~failed'[m] => /\ m # n /\ ~failed[m]
                                              /\ height'[m] = height[m]
        BY <1>0, <2>1, <2>3 DEF LocalInv, Shape
      <4>2. QED
        BY <1>1, <2>1, <2>3, <4>1 DEF Explains, Follows
    <3>2. QED
      BY <3>1
  <2>4. QED
    BY <1>3, <2>2, <2>3 DEF ProcessBlock
<1>4. ASSUME NEW n \in Replica, CreateAccounts(n)
      PROVE  (\E g : Explains(g) /\ Follows(g))'
  <2>1. /\ UNCHANGED <<height, failed>> /\ height[n] \in Nat /\ minted[n] \in Seq(Nat)
        /\ minted' = [minted EXCEPT ![n] = Append(minted[n], height[n])]
        /\ minted'[n] = Append(minted[n], height[n]) /\ minted'[n] \in Seq(Nat)
    BY <1>0, <1>4, NetworkAssumption DEF CreateAccounts, LocalInv, Shape
  <2>2. statedb' = [statedb EXCEPT ![n] = Minting(was[n])] /\ statedb'[n] = Minting(was[n])
    <3>1. statedb' = [statedb EXCEPT ![n] = Minting(was[n])]
      BY <1>4 DEF CreateAccounts, Commit, Minting
    <3>2. QED
      BY <1>0, <3>1 DEF LocalInv, Shape
  <2>3. ASSUME ~failed[n]
        PROVE  Derived(f, height'[n], minted'[n], statedb'[n])
    <3>1. <<height[n], minted[n]>> \in DOMAIN f /\ f[<<height[n], minted[n]>>] = was[n]
      BY <1>0, <1>1, <2>3 DEF Follows, LocalInv, Clean
    <3>2. ByMint(f, height'[n], minted'[n], statedb'[n])
      BY <2>1, <2>2, <3>1 DEF ByMint
    <3>3. QED
      BY <3>2 DEF Derived
  <2>4. \A m \in Replica \ {n} : /\ height'[m] = height[m] /\ minted'[m] = minted[m]
                                  /\ statedb'[m] = statedb[m]
    BY <1>0, <2>1, <2>2 DEF LocalInv, Shape
  <2>5. QED
    BY <1>0, <1>1, <2>1, <2>3, <2>4, FollowsOn
<1>5. ASSUME NEW n \in Replica, NEW c \in Calls, Call(n, c)
      PROVE  (\E g : Explains(g) /\ Follows(g))'
  BY <1>2, <1>5 DEF Call
<1>6. ASSUME NEW n \in Replica, Restart(n)
      PROVE  (\E g : Explains(g) /\ Follows(g))'
  <2>1. /\ statedb' = [statedb EXCEPT ![n] = IF head[n] = "none" THEN EmptyLedger ELSE headRoot[n]]
        /\ head[n] # "unreadable" /\ UNCHANGED <<height, minted, failed>>
    BY <1>6 DEF Restart
  <2>2. \A m \in Replica : ~failed[m] => statedb'[m] = statedb[m]
    BY <1>0, <2>1 DEF LocalInv, Shape, Clean
  <2>3. QED
    BY <1>2, <2>1, <2>2
<1>7. CASE UNCHANGED vars
  BY <1>2, <1>7 DEF vars
<1>8. QED
  BY <1>3, <1>4, <1>5, <1>6, <1>7 DEF Next

(* What two replicas that have not failed serve is decided by the blocks   *)
(* they have processed and the heights of their genesis accounts.          *)
THEOREM NetworkInvCorrect == Spec => []NetworkInv
<1>1. NetworkInv /\ [Next]_vars => NetworkInv'
  BY StepLocal, StepHistory DEF NetworkInv
<1>2. QED
  BY InitNetwork, <1>1, PTL DEF Spec

(* Replicas with the same blocks and genesis commits agree unless a block  *)
(* has failed on one of them, whatever calls and restarts came between.    *)
THEOREM AgreeUnlessFailedCorrect == Spec => []AgreeUnlessFailed
<1>1. NetworkInv => AgreeUnlessFailed
  BY DEF NetworkInv, Follows, AgreeUnlessFailed
<1>2. QED
  BY NetworkInvCorrect, <1>1, PTL
=============================================================================
