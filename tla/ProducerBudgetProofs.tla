------------------------ MODULE ProducerBudgetProofs ------------------------
(***************************************************************************)
(* The properties of Producer that count: the bytes and the slots of       *)
(* producerBudget, what Flush and the exits conclude from a count of 0,    *)
(* and the entries of other producers.                                     *)
(***************************************************************************)
EXTENDS ProducerBufferProofs, FiniteSetTheorems

USE DEF appVars, rotVars, workVars, commitVars, resolveVars, storeVars, budgetVars,
        flushVars, closeVars

-----------------------------------------------------------------------------
(* Sums *)

\* The size of an interval that starts at 1.
LEMMA IntervalSize ==
  ASSUME NEW n \in Nat
  PROVE  IsFiniteSet(1 .. n) /\ Cardinality(1 .. n) = n
<1>1. 1 \in Int /\ n \in Int
  OBVIOUS
<1>2. /\ IsFiniteSet(1 .. n)
      /\ Cardinality(1 .. n) = IF 1 > n THEN 0 ELSE n - 1 + 1
  BY <1>1, FS_Interval, Zenon
<1> QED
  BY <1>2

\* A sum over a finite set is a natural number.
LEMMA SumType ==
  ASSUME NEW f, NEW S, IsFiniteSet(S), \A x \in S : f[x] \in Nat
  PROVE  IsFiniteSet(Units(f, S)) /\ SumOf(f, S) \in Nat
<1> DEFINE Piece(x) == {x} \X (1 .. f[x])
           g == [x \in S |-> Piece(x)]
           T == {Piece(x) : x \in S}
<1>1. \A x \in S : IsFiniteSet(Piece(x))
  <2> TAKE x \in S
  <2>1. IsFiniteSet({x})
    BY FS_Singleton, Zenon
  <2>2. IsFiniteSet(1 .. f[x])
    BY IntervalSize, Zenon
  <2> QED
    BY <2>1, <2>2, FS_Product, Zenon
<1>2. IsFiniteSet(T)
  <2>1. g \in Surjection(S, T)
    BY Zenon DEF Surjection
  <2> HIDE DEF g, T
  <2> QED
    BY <2>1, FS_Surjection, Zenon
<1>3. IsFiniteSet(Units(f, S))
  BY <1>1, <1>2, FS_UNION, Zenon DEF Units
<1> QED
  BY <1>3, FS_CardinalityType DEF SumOf

\* The units of a member.
LEMMA UnitsOf ==
  ASSUME NEW f, NEW S
  PROVE  \A u : u \in Units(f, S) <=> \E x \in S : u \in {x} \X (1 .. f[x])
BY DEF Units

\* A sum over two sets that have no member in common.
LEMMA SumUnion ==
  ASSUME NEW f, NEW S, NEW T, IsFiniteSet(S), IsFiniteSet(T), S \cap T = {},
         \A x \in S \cup T : f[x] \in Nat
  PROVE  SumOf(f, S \cup T) = SumOf(f, S) + SumOf(f, T)
<1>1. /\ IsFiniteSet(Units(f, S)) /\ SumOf(f, S) \in Nat
      /\ IsFiniteSet(Units(f, T)) /\ SumOf(f, T) \in Nat
  BY SumType
<1>2. Units(f, S \cup T) = Units(f, S) \cup Units(f, T)
  BY UnitsOf
<1>3. Units(f, S) \cap Units(f, T) = {}
  BY UnitsOf
<1>4. Cardinality(Units(f, S) \cup Units(f, T))
        = Cardinality(Units(f, S)) + Cardinality(Units(f, T)) - Cardinality(Units(f, S) \cap Units(f, T))
  BY <1>1, FS_Union, Zenon
<1>5. Cardinality(Units(f, S) \cap Units(f, T)) = 0
  BY <1>3, FS_EmptySet, Zenon
<1>6. SumOf(f, S \cup T) = SumOf(f, S) + SumOf(f, T) - 0
  BY <1>2, <1>4, <1>5, Zenon DEF SumOf
<1> QED
  BY <1>1, <1>6

\* The sum over a single member.
LEMMA SumSingle ==
  ASSUME NEW f, NEW x, f[x] \in Nat
  PROVE  SumOf(f, {x}) = f[x]
<1>1. Units(f, {x}) = {x} \X (1 .. f[x])
  BY DEF Units
<1>2. IsFiniteSet({x}) /\ Cardinality({x}) = 1
  BY FS_Singleton, Zenon
<1>3. IsFiniteSet(1 .. f[x]) /\ Cardinality(1 .. f[x]) = f[x]
  BY IntervalSize, Zenon
<1>4. Cardinality({x} \X (1 .. f[x])) = Cardinality({x}) * Cardinality(1 .. f[x])
  BY <1>2, <1>3, FS_Product, Zenon
<1>5. SumOf(f, {x}) = 1 * f[x]
  BY <1>1, <1>2, <1>3, <1>4, Zenon DEF SumOf
<1> QED
  BY <1>5

\* The sum over no member.
LEMMA SumEmpty ==
  ASSUME NEW f
  PROVE  SumOf(f, {}) = 0
BY FS_EmptySet DEF SumOf, Units

\* A sum depends only on the values at the members.
LEMMA SumSame ==
  ASSUME NEW f, NEW g, NEW S, \A x \in S : f[x] = g[x]
  PROVE  SumOf(f, S) = SumOf(g, S)
<1>1. \A x \in S : {x} \X (1 .. f[x]) = {x} \X (1 .. g[x])
  OBVIOUS
<1>2. Units(f, S) = Units(g, S)
  BY <1>1 DEF Units
<1> QED
  BY <1>2, Zenon DEF SumOf

\* A sum loses what the members that leave have.
LEMMA SumRemove ==
  ASSUME NEW f, NEW S, NEW T, IsFiniteSet(S), T \subseteq S, \A x \in S : f[x] \in Nat
  PROVE  /\ IsFiniteSet(S \ T) /\ IsFiniteSet(T)
         /\ SumOf(f, S) = SumOf(f, S \ T) + SumOf(f, T)
<1>1. IsFiniteSet(S \ T) /\ IsFiniteSet(T)
  BY FS_Subset
<1>2. S = (S \ T) \cup T /\ (S \ T) \cap T = {}
  OBVIOUS
<1> QED
  BY <1>1, <1>2, SumUnion

\* A sum is 0 only when no member has anything.
LEMMA SumZero ==
  ASSUME NEW f, NEW S, IsFiniteSet(S), \A x \in S : f[x] \in Nat
  PROVE  SumOf(f, S) = 0 <=> \A x \in S : f[x] = 0
<1>1. SumOf(f, S) = 0 <=> Units(f, S) = {}
  BY SumType, FS_EmptySet DEF SumOf
<1>2. \A x \in S : f[x] = 0 <=> 1 .. f[x] = {}
  OBVIOUS
<1>3. ASSUME Units(f, S) = {}
      PROVE  \A x \in S : 1 .. f[x] = {}
  <2> SUFFICES ASSUME NEW x \in S, NEW i \in 1 .. f[x]
               PROVE  FALSE
    OBVIOUS
  <2>1. <<x, i>> \in {x} \X (1 .. f[x])
    OBVIOUS
  <2> QED
    BY <1>3, <2>1, UnitsOf, Zenon
<1>4. ASSUME \A x \in S : 1 .. f[x] = {}
      PROVE  Units(f, S) = {}
  <2> SUFFICES ASSUME NEW u \in Units(f, S)
               PROVE  FALSE
    OBVIOUS
  <2>1. PICK x \in S : u \in {x} \X (1 .. f[x])
    BY UnitsOf, Zenon
  <2> QED
    BY <1>4, <2>1
<1> QED
  BY <1>1, <1>2, <1>3, <1>4

\* A sum grows by what a new member has.
LEMMA SumAdd ==
  ASSUME NEW f, NEW S, IsFiniteSet(S), NEW y, y \notin S, \A x \in S \cup {y} : f[x] \in Nat
  PROVE  IsFiniteSet(S \cup {y}) /\ SumOf(f, S \cup {y}) = SumOf(f, S) + f[y]
<1>1. IsFiniteSet({y}) /\ S \cap {y} = {} /\ f[y] \in Nat
  BY FS_Singleton, Zenon
<1>2. IsFiniteSet(S \cup {y})
  BY <1>1, FS_Union, Zenon
<1>3. SumOf(f, {y}) = f[y]
  BY <1>1, SumSingle, Zenon
<1>4. SumOf(f, S \cup {y}) = SumOf(f, S) + SumOf(f, {y})
  BY <1>1, SumUnion, Zenon
<1> QED
  BY <1>2, <1>3, <1>4, Zenon

-----------------------------------------------------------------------------
(* The bound on the bytes in flight *)

\* The second half of InFlightBound, for the messages S.
Bounded(S) ==
  \/ SumOf(ByteCost, S) <= MaxInFlightBytes
  \/ Cardinality({m \in S : ByteCost[m] > 0}) = 1

\* Messages have costs.
LEMMA CostsTyped ==
  ASSUME NEW S \in SUBSET Msgs
  PROVE  (\A m \in S : ByteCost[m] \in Nat) /\ MaxInFlightBytes \in Nat
BY MessagesAssumption, ConfigAssumption

\* Messages that leave do not exceed the bound.
LEMMA BoundShrinks ==
  ASSUME NEW S \in SUBSET Msgs, NEW T \in SUBSET S, IsFiniteSet(S), Bounded(S)
  PROVE  Bounded(T)
<1>1. /\ \A m \in S : ByteCost[m] \in Nat
      /\ \A m \in T : ByteCost[m] \in Nat
      /\ \A m \in S \ T : ByteCost[m] \in Nat
      /\ MaxInFlightBytes \in Nat
  BY CostsTyped, Zenon
<1>2. /\ IsFiniteSet(S \ T) /\ IsFiniteSet(T)
      /\ SumOf(ByteCost, S) = SumOf(ByteCost, S \ T) + SumOf(ByteCost, T)
  BY <1>1, SumRemove, Zenon
<1>3. CASE SumOf(ByteCost, S) <= MaxInFlightBytes
  <2>1. SumOf(ByteCost, S \ T) \in Nat /\ SumOf(ByteCost, T) \in Nat
    BY <1>1, <1>2, SumType, Zenon
  <2>2. SumOf(ByteCost, T) <= MaxInFlightBytes
    BY <1>1, <1>2, <1>3, <2>1
  <2> QED
    BY <2>2, Zenon DEF Bounded
<1>4. CASE Cardinality({m \in S : ByteCost[m] > 0}) = 1
  <2> DEFINE P == {m \in S : ByteCost[m] > 0}
             Q == {m \in T : ByteCost[m] > 0}
  <2>1. IsFiniteSet(P)
    BY FS_Subset, Zenon
  <2>2. PICK x : P = {x}
    BY <1>4, <2>1, FS_Singleton, Zenon
  <2>3. CASE x \in T
    <3>1. Q = {x}
      BY <2>2, <2>3, Zenon
    <3>2. Cardinality(Q) = 1
      BY <3>1, FS_Singleton, Zenon
    <3> QED
      BY <3>2, Zenon DEF Bounded
  <2>4. CASE x \notin T
    <3>1. \A m \in T : ~(ByteCost[m] > 0)
      BY <2>2, <2>4, Zenon
    <3>2. \A m \in T : ByteCost[m] = 0
      BY <1>1, <3>1
    <3>3. SumOf(ByteCost, T) = 0
      BY <1>1, <1>2, <3>2, SumZero, Zenon
    <3>4. SumOf(ByteCost, T) <= MaxInFlightBytes
      BY <1>1, <3>3
    <3> QED
      BY <3>4, Zenon DEF Bounded
  <2> QED
    BY <2>3, <2>4, Zenon
<1> QED
  BY <1>3, <1>4, Zenon DEF Bounded

\* reserveBytes grants a message that fits, or that has the budget to itself.
LEMMA BoundGrows ==
  ASSUME NEW S \in SUBSET Msgs, IsFiniteSet(S), NEW m \in Msgs, m \notin S,
         \/ SumOf(ByteCost, S) = 0
         \/ SumOf(ByteCost, S) + ByteCost[m] <= MaxInFlightBytes
  PROVE  Bounded(S \cup {m})
<1>1. /\ \A x \in S : ByteCost[x] \in Nat
      /\ \A x \in S \cup {m} : ByteCost[x] \in Nat
      /\ ByteCost[m] \in Nat /\ MaxInFlightBytes \in Nat
  BY CostsTyped, Zenon
<1>2. SumOf(ByteCost, S \cup {m}) = SumOf(ByteCost, S) + ByteCost[m]
  BY <1>1, SumAdd, Zenon
<1>3. CASE SumOf(ByteCost, S) = 0 /\ ByteCost[m] > 0
  <2>1. \A x \in S : ByteCost[x] = 0
    BY <1>1, <1>3, SumZero, Zenon
  <2>2. {x \in S \cup {m} : ByteCost[x] > 0} = {m}
    BY <1>3, <2>1
  <2>3. Cardinality({x \in S \cup {m} : ByteCost[x] > 0}) = 1
    BY <2>2, FS_Singleton, Zenon
  <2> QED
    BY <2>3, Zenon DEF Bounded
<1>4. CASE ~(SumOf(ByteCost, S) = 0 /\ ByteCost[m] > 0)
  <2>1. SumOf(ByteCost, S \cup {m}) <= MaxInFlightBytes
    BY <1>1, <1>2, <1>4
  <2> QED
    BY <2>1, Zenon DEF Bounded
<1> QED
  BY <1>3, <1>4, Zenon

-----------------------------------------------------------------------------
(* The messages that hold bytes *)

\* A message that holds bytes is in one place.
LEMMA HoldersApart ==
  ASSUME TypeOK, MessageFlow
  PROVE  /\ Holders \subseteq Msgs /\ InFlight \subseteq Ordinals
         /\ Reserved \cap Range(acc.msgs) = {}
         /\ (Reserved \cup Range(acc.msgs)) \cap MsgsOf(InFlight) = {}
         /\ \A m \in Msgs : apc[m] \notin {"send", "panicked", "accepted"} => m \notin Holders
<1>1. InFlight \subseteq Ordinals
  BY Zenon DEF InFlight
<1>2. /\ Range(appendCh) \subseteq Msgs /\ Range(acc.msgs) \subseteq Msgs
      /\ MsgsOf(InFlight) \subseteq MsgsOf(Ordinals) /\ MsgsOf(Ordinals) \subseteq Msgs
  BY <1>1, MessagesTyped, MsgsOfBatches, Zenon DEF Waiting
<1>3. \A m \in Waiting \cup MsgsOf(Ordinals) : apc[m] = "accepted"
  BY Zenon DEF MessageFlow, WatchersFlow
<1>4. Range(appendCh) \cap Range(acc.msgs) = {} /\ Waiting \cap MsgsOf(Ordinals) = {}
  <2>1. /\ Range(appendCh) \cap Range(acc.msgs) = {}
        /\ \A o \in Ordinals : Range(batches[o].msgs) \cap Waiting = {}
    BY Zenon DEF MessageFlow, OnePlace
  <2>2. ASSUME NEW m \in Waiting, m \in MsgsOf(Ordinals) PROVE FALSE
    <3>1. PICK o \in Ordinals : m \in Range(batches[o].msgs)
      BY <2>2, MsgsOfBatches, Zenon
    <3> QED
      BY <2>1, <2>2, <3>1, Zenon
  <2> QED
    BY <2>1, <2>2, Zenon
<1>5. Holders \subseteq Msgs
  BY <1>2, Zenon DEF Holders, Reserved
<1>6. \A m \in Reserved : m \in Range(appendCh) \/ apc[m] # "accepted"
  BY Zenon DEF Reserved
<1>7. Reserved \cap Range(acc.msgs) = {}
  BY <1>3, <1>4, <1>6, Zenon DEF Waiting
<1>8. (Reserved \cup Range(acc.msgs)) \cap MsgsOf(InFlight) = {}
  BY <1>2, <1>3, <1>4, <1>6, Zenon DEF Waiting
<1>9. \A m \in Msgs : apc[m] \notin {"send", "panicked", "accepted"} => m \notin Holders
  BY <1>2, <1>3, Zenon DEF Holders, Reserved, Waiting
<1> QED
  BY <1>1, <1>5, <1>7, <1>8, <1>9, Zenon

\* What the budget counts is finite, and every sum is a number.
LEMMA HoldersFinite ==
  ASSUME TypeOK, MessageFlow, BudgetFlow
  PROVE  /\ IsFiniteSet(Holders) /\ IsFiniteSet(Reserved) /\ IsFiniteSet(Range(acc.msgs))
         /\ IsFiniteSet(InFlight)
         /\ \A o \in InFlight : /\ IsFiniteSet(Range(batches[o].msgs))
                                /\ Costs[o] \in Nat /\ Framings[o] \in Nat
         /\ SumOf(ByteCost, Holders) \in Nat /\ SumOf(ByteCost, Reserved) \in Nat
         /\ SumOf(Costs, InFlight) \in Nat /\ SumOf(Framings, InFlight) \in Nat
<1>1. Holders \subseteq Msgs /\ InFlight \subseteq Ordinals
  BY HoldersApart, Zenon
<1>2. IsFiniteSet(Holders)
  BY Zenon DEF BudgetFlow
<1>3. IsFiniteSet(Reserved) /\ IsFiniteSet(Range(acc.msgs))
  <2>1. Reserved \in SUBSET Holders /\ Range(acc.msgs) \in SUBSET Holders
    BY Zenon DEF Holders
  <2> QED
    BY <1>2, <2>1, FS_Subset, Zenon
<1>4. IsFiniteSet(InFlight)
  <2>1. 0 \in Int /\ nextOrdinal - 1 \in Int
    BY DEF TypeOK, RotatorTypes
  <2>2. IsFiniteSet(Ordinals)
    BY <2>1, FS_Interval, Zenon DEF Ordinals
  <2> QED
    BY <1>1, <2>2, FS_Subset, Zenon
<1>5. ASSUME NEW o \in InFlight
      PROVE  IsFiniteSet(Range(batches[o].msgs)) /\ Costs[o] \in Nat /\ Framings[o] \in Nat
  <2>1. Range(batches[o].msgs) \subseteq Holders
    BY MsgsOfBatches, Zenon DEF Holders
  <2>2. IsFiniteSet(Range(batches[o].msgs))
    BY <1>2, <2>1, FS_Subset, Zenon
  <2>3. \A m \in Range(batches[o].msgs) : ByteCost[m] \in Nat
    BY <1>1, <2>1, CostsTyped, Zenon
  <2>4. SumOf(ByteCost, Range(batches[o].msgs)) \in Nat
    BY <2>2, <2>3, SumType, Zenon
  <2>5. batches[o].cost \in Nat
    BY <1>1, Zenon DEF TypeOK, BatchTypes
  <2>6. batches[o].cost >= SumOf(ByteCost, Range(batches[o].msgs))
    BY <1>1, Zenon DEF BudgetFlow
  <2>7. batches[o].cost - SumOf(ByteCost, Range(batches[o].msgs)) \in Nat
    BY <2>4, <2>5, <2>6
  <2> QED
    BY <1>1, <2>2, <2>5, <2>7, Zenon DEF Costs, Framings
<1>6. SumOf(Costs, InFlight) \in Nat /\ SumOf(Framings, InFlight) \in Nat
  BY <1>4, <1>5, SumType, Zenon
<1>7. /\ \A m \in Holders : ByteCost[m] \in Nat
      /\ \A m \in Reserved : ByteCost[m] \in Nat
  BY <1>1, CostsTyped, Zenon DEF Holders
<1>8. SumOf(ByteCost, Holders) \in Nat /\ SumOf(ByteCost, Reserved) \in Nat
  BY <1>2, <1>3, <1>7, SumType, Zenon
<1> QED
  BY <1>2, <1>3, <1>4, <1>5, <1>6, <1>8, Zenon

-----------------------------------------------------------------------------
(* The steps that change what the budget counts *)

\* Nothing is in flight when the producer starts.
LEMMA BudgetInit == Init => BudgetFlow
<1> SUFFICES ASSUME Init PROVE BudgetFlow
  OBVIOUS
<1>1. /\ Ordinals = {} /\ Range(appendCh) = {} /\ Range(acc.msgs) = {}
      /\ acc.bytes = 0 /\ bytesUsed = 0 /\ batchesUsed = 0
  BY DEF Init, Ordinals, EmptyAcc, Range
<1>2. InFlight = {} /\ Reserved = {}
  BY <1>1, Zenon DEF Init, InFlight, Reserved
<1>3. Holders = {}
  BY <1>1, <1>2, Zenon DEF Holders, MsgsOf
<1>4. IsFiniteSet({}) /\ Cardinality({}) = 0
  BY FS_EmptySet, Zenon
<1>5. SumOf(ByteCost, {}) = 0 /\ SumOf(Costs, {}) = 0 /\ SumOf(Framings, {}) = 0
  BY SumEmpty, Zenon
<1>6. /\ 0 = 0 + 0 /\ 0 = 0 + 0 + 0 /\ 0 <= MaxInFlightBatches /\ 0 <= MaxInFlightBytes
  BY ConfigAssumption
<1> QED
  BY <1>1, <1>2, <1>3, <1>4, <1>5, <1>6, Zenon DEF BudgetFlow, BudgetExact, InFlightBound

\* reserveBytes reserves the bytes of a message that held none.
LEMMA BudgetReserve ==
  ASSUME TypeOK, MessageFlow, BudgetFlow, NEW m \in Msgs, AppendReserve(m)
  PROVE  BudgetFlow'
<1>1. /\ AppendFrame /\ apc[m] \in {"reserve", "blocked"} /\ CanReserve(ByteCost[m])
      /\ bytesUsed' = bytesUsed + ByteCost[m] /\ appendCh' = appendCh
      /\ AppendGoesTo(m, "send")
  BY Zenon DEF AppendReserve
<1>2. m \notin Holders /\ m \notin Reserved /\ Holders \in SUBSET Msgs
  BY <1>1, HoldersApart, Zenon DEF Holders
<1>3. Reserved' = Reserved \cup {m}
  BY <1>1, CallsReserved, Zenon DEF Reserved
<1>4. Holders' = Holders \cup {m}
  BY <1>1, <1>3, AppendHolders, Zenon DEF Holders
<1>5. /\ IsFiniteSet(Holders) /\ IsFiniteSet(Reserved)
      /\ SumOf(ByteCost, Holders) \in Nat /\ SumOf(ByteCost, Reserved) \in Nat
      /\ SumOf(Costs, InFlight) \in Nat /\ SumOf(Framings, InFlight) \in Nat
  BY HoldersFinite, Zenon
<1>6. /\ \A x \in Holders \cup {m} : ByteCost[x] \in Nat
      /\ \A x \in Reserved \cup {m} : ByteCost[x] \in Nat
  BY <1>2, CostsTyped, Zenon DEF Holders
<1>7. /\ IsFiniteSet(Holders') /\ SumOf(ByteCost, Holders') = SumOf(ByteCost, Holders) + ByteCost[m]
      /\ SumOf(ByteCost, Reserved') = SumOf(ByteCost, Reserved) + ByteCost[m]
  BY <1>2, <1>3, <1>4, <1>5, <1>6, SumAdd, Zenon
<1>8. /\ bytesUsed = SumOf(ByteCost, Holders) + SumOf(Framings, InFlight)
      /\ bytesUsed = SumOf(ByteCost, Reserved) + acc.bytes + SumOf(Costs, InFlight)
      /\ acc.bytes \in Nat /\ bytesUsed \in Nat /\ ByteCost[m] \in Nat /\ MaxInFlightBytes \in Nat
  BY <1>6, CostsTyped, Zenon DEF BudgetFlow, BudgetExact, TypeOK, RotatorTypes, ResolverTypes
<1>9. /\ bytesUsed' = SumOf(ByteCost, Holders') + SumOf(Framings, InFlight)
      /\ bytesUsed' = SumOf(ByteCost, Reserved') + acc.bytes + SumOf(Costs, InFlight)
  BY <1>1, <1>5, <1>7, <1>8
<1>10. \/ SumOf(ByteCost, Holders) = 0
       \/ SumOf(ByteCost, Holders) + ByteCost[m] <= MaxInFlightBytes
  BY <1>1, <1>5, <1>8 DEF CanReserve
<1>11. Bounded(Holders')
  BY <1>2, <1>4, <1>5, <1>10, BoundGrows, Zenon
<1> QED
  BY <1>1, <1>7, <1>9, <1>11, AppendHolders, Zenon
  DEF BudgetFlow, BudgetExact, InFlightBound, Bounded

\* A call that gives up releases what it had reserved.
LEMMA BudgetSendFails ==
  ASSUME TypeOK, MessageFlow, BudgetFlow, NEW m \in Msgs, AppendSendFails(m)
  PROVE  BudgetFlow'
<1>1. /\ AppendFrame /\ apc[m] = "send" /\ appendCh' = appendCh
      /\ bytesUsed' = Released(bytesUsed, ByteCost[m])
      /\ \E pc \in {"ctx", "ErrShutdown"} : AppendGoesTo(m, pc)
  BY Zenon DEF AppendSendFails
<1>2. /\ m \in Reserved /\ m \notin Range(appendCh)
      /\ m \notin Range(acc.msgs) /\ m \notin MsgsOf(InFlight)
      /\ Holders \in SUBSET Msgs
  <2>1. m \in Reserved /\ m \notin Range(appendCh)
    BY <1>1, Zenon DEF Reserved, MessageFlow, WatchersFlow, Waiting
  <2> QED
    BY <2>1, HoldersApart, Zenon
<1>3. Reserved' = Reserved \ {m}
  <2>1. {n \in Msgs : apc'[n] \in {"send", "panicked"}}
          = {n \in Msgs : n # m /\ apc[n] \in {"send", "panicked"}}
    BY <1>1, CallsReserved, Zenon
  <2> QED
    BY <1>1, <1>2, <2>1, Zenon DEF Reserved
<1>4. Holders' = Holders \ {m} /\ {m} \subseteq Holders /\ {m} \subseteq Reserved
  BY <1>1, <1>2, <1>3, AppendHolders, Zenon DEF Holders
<1>5. /\ IsFiniteSet(Holders) /\ IsFiniteSet(Reserved)
      /\ SumOf(Costs, InFlight) \in Nat /\ SumOf(Framings, InFlight) \in Nat
  BY HoldersFinite, Zenon
<1>6. /\ \A x \in Holders : ByteCost[x] \in Nat
      /\ \A x \in Reserved : ByteCost[x] \in Nat
      /\ \A x \in Holders' : ByteCost[x] \in Nat
      /\ \A x \in Reserved' : ByteCost[x] \in Nat
      /\ ByteCost[m] \in Nat
  BY <1>2, <1>3, <1>4, CostsTyped, Zenon DEF Holders
<1>7. /\ IsFiniteSet(Holders') /\ IsFiniteSet(Reserved')
      /\ SumOf(ByteCost, Holders) = SumOf(ByteCost, Holders') + SumOf(ByteCost, {m})
      /\ SumOf(ByteCost, Reserved) = SumOf(ByteCost, Reserved') + SumOf(ByteCost, {m})
  BY <1>3, <1>4, <1>5, <1>6, SumRemove, Zenon
<1>8. /\ SumOf(ByteCost, Holders') \in Nat /\ SumOf(ByteCost, Reserved') \in Nat
      /\ SumOf(ByteCost, {m}) = ByteCost[m]
  BY <1>6, <1>7, SumType, SumSingle, Zenon
<1>9. /\ bytesUsed = SumOf(ByteCost, Holders) + SumOf(Framings, InFlight)
      /\ bytesUsed = SumOf(ByteCost, Reserved) + acc.bytes + SumOf(Costs, InFlight)
      /\ acc.bytes \in Nat /\ bytesUsed \in Nat
  BY Zenon DEF BudgetFlow, BudgetExact, TypeOK, RotatorTypes, ResolverTypes
<1>10. /\ bytesUsed' = SumOf(ByteCost, Holders') + SumOf(Framings, InFlight)
       /\ bytesUsed' = SumOf(ByteCost, Reserved') + acc.bytes + SumOf(Costs, InFlight)
  BY <1>1, <1>5, <1>6, <1>7, <1>8, <1>9 DEF Released
<1>11. Bounded(Holders')
  <2>1. Bounded(Holders) /\ Holders' \in SUBSET Holders
    BY <1>4, Zenon DEF BudgetFlow, InFlightBound, Bounded
  <2> QED
    BY <1>2, <1>5, <2>1, BoundShrinks, Zenon
<1> QED
  BY <1>1, <1>7, <1>10, <1>11, AppendHolders, Zenon
  DEF BudgetFlow, BudgetExact, InFlightBound, Bounded

\* The other steps of AppendContext move a reservation, or have none.
LEMMA BudgetAppend ==
  ASSUME TypeOK, MessageFlow, BudgetFlow, NEW m \in Msgs, AppendStart(m) \/ AppendStep(m)
  PROVE  BudgetFlow'
<1>1. ASSUME AppendFrame, bytesUsed' = bytesUsed, Reserved' = Reserved PROVE BudgetFlow'
  <2>1. InFlight' = InFlight /\ UNCHANGED <<acc, nextOrdinal, batches, batchesUsed>>
    BY <1>1, AppendHolders, Zenon
  <2> QED
    BY <1>1, <2>1, BudgetKept, Zenon
<1>2. CASE AppendStart(m) \/ AppendBlocks(m) \/ AppendReserveFails(m)
  <2>1. /\ AppendFrame /\ bytesUsed' = bytesUsed /\ appendCh' = appendCh
        /\ apc[m] \in {"idle", "reserve", "blocked"}
        /\ \E pc \in {"reserve", "ErrProducerHalted", "blocked", "ctx", "ErrShutdown"} :
             AppendGoesTo(m, pc)
    BY <1>2, Zenon DEF AppendStart, AppendBlocks, AppendReserveFails
  <2>2. {n \in Msgs : apc'[n] \in {"send", "panicked"}} = {n \in Msgs : apc[n] \in {"send", "panicked"}}
    BY <2>1, CallsReserved, Zenon
  <2> QED
    BY <1>1, <2>1, <2>2, Zenon DEF Reserved
<1>3. CASE AppendSend(m)
  <2>1. /\ AppendFrame /\ bytesUsed' = bytesUsed /\ appendCh' = Append(appendCh, m)
        /\ apc[m] = "send" /\ AppendGoesTo(m, "accepted")
    BY <1>3, Zenon DEF AppendSend
  <2>2. Range(appendCh') = Range(appendCh) \cup {m}
    <3>1. appendCh \in Seq(Msgs)
      BY MessagesTyped, Zenon
    <3> QED
      BY <2>1, <3>1, RangeOfAppend
  <2>3. {n \in Msgs : apc'[n] \in {"send", "panicked"}}
          = {n \in Msgs : n # m /\ apc[n] \in {"send", "panicked"}}
    <3>1. \A n \in Msgs : apc'[n] = IF n = m THEN "accepted" ELSE apc[n]
      BY <2>1, Zenon DEF AppendGoesTo, TypeOK, AppendTypes
    <3> QED
      BY <3>1, Zenon
  <2>4. Reserved' = Reserved
    BY <2>1, <2>2, <2>3, Zenon DEF Reserved
  <2> QED
    BY <1>1, <2>1, <2>4, Zenon
<1>4. CASE AppendSendOnClosed(m)
  <2>1. /\ AppendFrame /\ bytesUsed' = bytesUsed /\ appendCh' = appendCh
        /\ apc[m] = "send" /\ AppendGoesTo(m, "panicked")
    BY <1>4, Zenon DEF AppendSendOnClosed
  <2>2. {n \in Msgs : apc'[n] \in {"send", "panicked"}} = {n \in Msgs : apc[n] \in {"send", "panicked"}}
    BY <2>1, CallsReserved, Zenon
  <2> QED
    BY <1>1, <2>1, <2>2, Zenon DEF Reserved
<1> QED
  BY <1>2, <1>3, <1>4, BudgetReserve, BudgetSendFails, Zenon DEF AppendStep

\* The rotator receives a message: its bytes are those of the accumulator now.
LEMMA BudgetReceive ==
  ASSUME TypeOK, MessageFlow, BudgetFlow, SelectFrame, ReceiveAppend
  PROVE  BudgetFlow'
<1> DEFINE m == Head(appendCh)
<1>1. /\ UNCHANGED <<apc, batches, stage, nextOrdinal, bytesUsed, batchesUsed>>
      /\ Ordinals' = Ordinals
  BY Zenon DEF SelectFrame, Ordinals
<1>2. InFlight' = InFlight
  BY <1>1, InFlightKept, Zenon
<1>3. MsgsOf(InFlight)' = MsgsOf(InFlight) /\ Costs' = Costs /\ Framings' = Framings
  BY <1>1, <1>2, Zenon DEF MsgsOf, Costs, Framings
<1>4. /\ appendCh \in Seq(Msgs) /\ acc.msgs \in Seq(Msgs) /\ appendCh # <<>>
      /\ appendCh' = Tail(appendCh) /\ acc'.msgs = Append(acc.msgs, m)
      /\ acc'.bytes = acc.bytes + ByteCost[m]
  BY MessagesTyped, Zenon DEF ReceiveAppend, Add
<1>5. m \in Msgs
  BY <1>4
<1> HIDE DEF m
<1>6. Range(appendCh) = {m} \cup Range(appendCh') /\ Range(acc'.msgs) = Range(acc.msgs) \cup {m}
  <2>1. Range(appendCh) = {m} \cup Range(appendCh')
    BY <1>4, RangeOfTail, Zenon DEF m
  <2>2. Range(acc'.msgs) = Range(acc.msgs) \cup {m}
    BY <1>4, <1>5, RangeOfAppend
  <2> QED
    BY <2>1, <2>2, Zenon
<1>7. m \notin Range(appendCh')
  <2>1. \A i, j \in DOMAIN appendCh : appendCh[i] = appendCh[j] => i = j
    BY Zenon DEF MessageFlow, OnePlace
  <2>2. \A i \in DOMAIN appendCh' : appendCh'[i] # m
    BY <1>4, <2>1, TailOfDistinct, Zenon DEF m
  <2> QED
    BY <2>2, Zenon DEF Range
<1>8. /\ m \in Reserved /\ m \notin Range(acc.msgs)
      /\ Range(acc.msgs) \subseteq Msgs /\ Reserved \subseteq Msgs
  BY <1>6, HoldersApart, Zenon DEF Reserved, Holders
<1>9. Reserved' = Reserved \ {m} /\ Holders' = Holders
  <2>1. apc[m] = "accepted"
    BY <1>6, Zenon DEF MessageFlow, WatchersFlow, Waiting
  <2>2. Reserved' = Reserved \ {m}
    BY <1>1, <1>6, <1>7, <2>1, Zenon DEF Reserved
  <2> QED
    BY <1>3, <1>6, <1>8, <2>2, Zenon DEF Holders
<1>10. IsFiniteSet(Reserved) /\ IsFiniteSet(Range(acc.msgs)) /\ SumOf(Costs, InFlight) \in Nat
  BY HoldersFinite, Zenon
<1>11. /\ \A x \in Reserved : ByteCost[x] \in Nat
       /\ \A x \in Reserved' : ByteCost[x] \in Nat
       /\ \A x \in Range(acc.msgs) \cup {m} : ByteCost[x] \in Nat
       /\ \A x \in Range(acc.msgs) : ByteCost[x] \in Nat
       /\ ByteCost[m] \in Nat
  BY <1>5, <1>8, <1>9, CostsTyped, Zenon
<1>12. /\ IsFiniteSet(Reserved')
       /\ SumOf(ByteCost, Reserved) = SumOf(ByteCost, Reserved') + SumOf(ByteCost, {m})
  <2>1. {m} \subseteq Reserved
    BY <1>8, Zenon
  <2> QED
    BY <1>9, <1>10, <1>11, <2>1, SumRemove, Zenon
<1>13. SumOf(ByteCost, {m}) = ByteCost[m] /\ SumOf(ByteCost, Reserved') \in Nat
  BY <1>11, <1>12, SumSingle, SumType, Zenon
<1>14. SumOf(ByteCost, Range(acc'.msgs)) = SumOf(ByteCost, Range(acc.msgs)) + ByteCost[m]
  BY <1>6, <1>8, <1>10, <1>11, SumAdd, Zenon
<1>15. /\ acc.bytes = SumOf(ByteCost, Range(acc.msgs)) /\ acc.bytes \in Nat
       /\ bytesUsed = SumOf(ByteCost, Reserved) + acc.bytes + SumOf(Costs, InFlight)
  BY Zenon DEF BudgetFlow, BudgetExact, TypeOK, RotatorTypes
<1>16. acc'.bytes = SumOf(ByteCost, Range(acc'.msgs))
  BY <1>4, <1>14, <1>15, Zenon
<1>17. bytesUsed = SumOf(ByteCost, Reserved') + acc'.bytes + SumOf(Costs, InFlight)
  BY <1>4, <1>10, <1>11, <1>12, <1>13, <1>15
<1> QED
  BY <1>1, <1>2, <1>3, <1>9, <1>16, <1>17, Zenon DEF BudgetFlow, BudgetExact, InFlightBound

\* Framing is added to both sides of the two balances of the budget.
LEMMA BalanceKept ==
  ASSUME NEW used \in Nat, NEW h \in Nat, NEW f \in Nat, NEW r \in Nat, NEW a \in Nat,
         NEW c \in Nat, NEW x \in Nat, used = h + f, used = r + a + c
  PROVE  used + x = h + (f + x) /\ used + x = r + 0 + (c + (a + x))
OBVIOUS

\* The accumulator becomes a batch in flight, which costs the framing on top.
LEMMA BudgetAcquire ==
  ASSUME TypeOK, MessageFlow, BudgetFlow, RotatorAcquire
  PROVE  BudgetFlow'
<1> DEFINE n == nextOrdinal
           extra == FramingExtra(acc)
<1>1. /\ n \in Nat /\ Ordinals' = Ordinals \cup {n} /\ n \notin Ordinals
      /\ extra \in Nat /\ acc.bytes \in Nat /\ acc.bytes + extra \in Nat
  <2>1. /\ n \in Nat /\ nextOrdinal' = n + 1
        /\ acc.bytes \in Nat /\ acc.entries \in Nat
    BY Zenon DEF RotatorAcquire, TypeOK, RotatorTypes
  <2>2. extra \in Nat /\ acc.bytes + extra \in Nat
    BY <2>1 DEF FramingExtra, batchEntryLenSize, batchFooterSize
  <2> QED
    BY <2>1, <2>2 DEF Ordinals
<1>2. \A o \in Ordinals : stage'[o] = stage[o] /\ batches'[o] = batches[o]
  <2>1. \A o \in Ordinals : o \in 0 .. n /\ o # n
    BY <1>1 DEF Ordinals
  <2> QED
    BY <2>1, Zenon DEF RotatorAcquire, WithNext
<1>3. /\ stage'[n] = "pending" /\ batches'[n].msgs = acc.msgs
      /\ batches'[n].cost = acc.bytes + extra
  <2>1. n \in 0 .. n
    BY <1>1
  <2> QED
    BY <2>1, Zenon DEF RotatorAcquire, WithNext
<1>4. /\ UNCHANGED <<apc, appendCh>> /\ acc'.msgs = <<>> /\ acc'.bytes = 0
      /\ bytesUsed' = bytesUsed + extra /\ batchesUsed' = batchesUsed + 1 /\ SlotFree
  BY Zenon DEF RotatorAcquire, EmitFrame, EmptyAcc
<1> HIDE DEF n, extra
<1>5. InFlight \subseteq Ordinals /\ n \notin InFlight /\ InFlight' = InFlight \cup {n}
  BY <1>1, <1>2, <1>3, Zenon DEF InFlight, In
<1>6. /\ Reserved' = Reserved /\ Range(acc'.msgs) = {}
      /\ Range(batches'[n].msgs) = Range(acc.msgs)
      /\ \A o \in Ordinals : Range(batches'[o].msgs) = Range(batches[o].msgs)
  <2>1. Range(acc'.msgs) = {}
    BY <1>4 DEF Range
  <2> QED
    BY <1>2, <1>3, <1>4, <2>1, Zenon DEF Reserved
<1>7. Holders' = Holders
  <2>1. MsgsOf(InFlight)' = MsgsOf(InFlight) \cup Range(acc.msgs)
    BY <1>5, <1>6, Zenon DEF MsgsOf
  <2> QED
    BY <1>6, <2>1, Zenon DEF Holders
<1>8. /\ acc.bytes = SumOf(ByteCost, Range(acc.msgs))
      /\ bytesUsed = SumOf(ByteCost, Holders) + SumOf(Framings, InFlight)
      /\ bytesUsed = SumOf(ByteCost, Reserved) + acc.bytes + SumOf(Costs, InFlight)
      /\ batchesUsed = Cardinality(InFlight) /\ batchesUsed \in Nat /\ bytesUsed \in Nat
  BY Zenon DEF BudgetFlow, BudgetExact, TypeOK, ResolverTypes
<1>9. /\ IsFiniteSet(InFlight) /\ \A o \in InFlight : Costs[o] \in Nat /\ Framings[o] \in Nat
      /\ SumOf(ByteCost, Holders) \in Nat /\ SumOf(ByteCost, Reserved) \in Nat
      /\ SumOf(Costs, InFlight) \in Nat /\ SumOf(Framings, InFlight) \in Nat
  BY HoldersFinite, Zenon
<1>10. (acc.bytes + extra) - SumOf(ByteCost, Range(acc.msgs)) = extra
  BY <1>1, <1>8
<1>11. /\ Costs'[n] = acc.bytes + extra /\ Framings'[n] = extra
       /\ \A o \in InFlight : Costs'[o] = Costs[o] /\ Framings'[o] = Framings[o]
  <2>1. \A o \in InFlight : Costs'[o] = Costs[o] /\ Framings'[o] = Framings[o]
    BY <1>1, <1>2, <1>5, <1>6, Zenon DEF Costs, Framings
  <2>2. /\ Costs'[n] = batches'[n].cost
        /\ Framings'[n] = batches'[n].cost - SumOf(ByteCost, Range(batches'[n].msgs))
    BY <1>1, Zenon DEF Costs, Framings
  <2>3. Costs'[n] = acc.bytes + extra
    BY <1>3, <2>2, Zenon
  <2>4. Framings'[n] = (acc.bytes + extra) - SumOf(ByteCost, Range(acc.msgs))
    BY <1>3, <1>6, <2>2, Zenon
  <2>5. Framings'[n] = extra
    BY <1>10, <2>4, Zenon
  <2> QED
    BY <2>1, <2>3, <2>5, Zenon
<1>12. /\ \A o \in InFlight \cup {n} : Costs'[o] \in Nat
       /\ \A o \in InFlight \cup {n} : Framings'[o] \in Nat
  BY <1>1, <1>9, <1>11, Zenon
<1>13. SumOf(Costs', InFlight') = SumOf(Costs, InFlight) + (acc.bytes + extra)
  <2>1. SumOf(Costs', InFlight') = SumOf(Costs', InFlight) + Costs'[n]
    BY <1>5, <1>9, <1>12, SumAdd, Zenon
  <2>2. SumOf(Costs', InFlight) = SumOf(Costs, InFlight)
    BY <1>11, SumSame, Zenon
  <2> QED
    BY <1>11, <2>1, <2>2, Zenon
<1>14. SumOf(Framings', InFlight') = SumOf(Framings, InFlight) + extra
  <2>1. SumOf(Framings', InFlight') = SumOf(Framings', InFlight) + Framings'[n]
    BY <1>5, <1>9, <1>12, SumAdd, Zenon
  <2>2. SumOf(Framings', InFlight) = SumOf(Framings, InFlight)
    BY <1>11, SumSame, Zenon
  <2> QED
    BY <1>11, <2>1, <2>2, Zenon
<1>15. batchesUsed' = Cardinality(InFlight') /\ batchesUsed' <= MaxInFlightBatches
  <2>1. Cardinality(InFlight') = Cardinality(InFlight) + 1
    BY <1>5, <1>9, FS_AddElement, Zenon
  <2>2. MaxInFlightBatches \in Nat /\ batchesUsed < MaxInFlightBatches
    BY <1>4, ConfigAssumption DEF SlotFree
  <2>3. batchesUsed + 1 <= MaxInFlightBatches
    BY <1>8, <2>2
  <2> QED
    BY <1>4, <1>8, <2>1, <2>3, Zenon
<1>16. /\ bytesUsed' = SumOf(ByteCost, Holders) + (SumOf(Framings, InFlight) + extra)
       /\ bytesUsed' = SumOf(ByteCost, Reserved) + 0 + (SumOf(Costs, InFlight) + (acc.bytes + extra))
  <2>1. /\ bytesUsed + extra = SumOf(ByteCost, Holders) + (SumOf(Framings, InFlight) + extra)
        /\ bytesUsed + extra
             = SumOf(ByteCost, Reserved) + 0 + (SumOf(Costs, InFlight) + (acc.bytes + extra))
    BY <1>1, <1>8, <1>9, BalanceKept
  <2> QED
    BY <1>4, <2>1, Zenon
<1>17. \A o \in Ordinals' : batches'[o].cost >= SumOf(ByteCost, Range(batches'[o].msgs))
  <2>1. \A o \in Ordinals : batches'[o].cost >= SumOf(ByteCost, Range(batches'[o].msgs))
    BY <1>2, <1>6, Zenon DEF BudgetFlow
  <2>2. acc.bytes + extra >= SumOf(ByteCost, Range(acc.msgs))
    BY <1>1, <1>8
  <2>3. batches'[n].cost >= SumOf(ByteCost, Range(batches'[n].msgs))
    BY <1>3, <1>6, <2>2, Zenon
  <2> QED
    BY <1>1, <2>1, <2>3, Zenon
<1>18. acc'.bytes = SumOf(ByteCost, Range(acc'.msgs))
  BY <1>4, <1>6, SumEmpty, Zenon
<1>19. BudgetExact'
  BY <1>4, <1>6, <1>13, <1>15, <1>16, Zenon DEF BudgetExact
<1>20. InFlightBound'
  BY <1>7, <1>15, Zenon DEF BudgetFlow, InFlightBound
<1> QED
  BY <1>7, <1>14, <1>16, <1>17, <1>18, <1>19, <1>20, Zenon DEF BudgetFlow

\* emit drops the accumulator and releases its bytes.
LEMMA BudgetDrop ==
  ASSUME TypeOK, MessageFlow, BudgetFlow, RotatorDrop
  PROVE  BudgetFlow'
<1>1. /\ UNCHANGED <<apc, appendCh, batches, stage, nextOrdinal, batchesUsed>>
      /\ Ordinals' = Ordinals /\ acc'.msgs = <<>> /\ acc'.bytes = 0
      /\ bytesUsed' = Released(bytesUsed, acc.bytes)
  BY Zenon DEF RotatorDrop, EmitFrame, EmptyAcc, Ordinals
<1>2. InFlight' = InFlight /\ Range(acc'.msgs) = {}
  <2>1. Range(acc'.msgs) = {}
    BY <1>1 DEF Range
  <2> QED
    BY <1>1, <2>1, InFlightKept, Zenon
<1>3. /\ MsgsOf(InFlight)' = MsgsOf(InFlight) /\ Costs' = Costs /\ Framings' = Framings
      /\ Reserved' = Reserved
  BY <1>1, <1>2, Zenon DEF MsgsOf, Costs, Framings, Reserved
<1>4. /\ Holders' = Holders \ Range(acc.msgs) /\ Range(acc.msgs) \subseteq Holders
      /\ Holders \in SUBSET Msgs
  BY <1>2, <1>3, HoldersApart, Zenon DEF Holders
<1>5. /\ IsFiniteSet(Holders) /\ SumOf(ByteCost, Reserved) \in Nat
      /\ SumOf(Costs, InFlight) \in Nat /\ SumOf(Framings, InFlight) \in Nat
  BY HoldersFinite, Zenon
<1>6. /\ \A x \in Holders : ByteCost[x] \in Nat
      /\ \A x \in Holders' : ByteCost[x] \in Nat
  BY <1>4, CostsTyped, Zenon
<1>7. /\ IsFiniteSet(Holders')
      /\ SumOf(ByteCost, Holders) = SumOf(ByteCost, Holders') + SumOf(ByteCost, Range(acc.msgs))
  BY <1>4, <1>5, <1>6, SumRemove, Zenon
<1>8. SumOf(ByteCost, Holders') \in Nat
  BY <1>6, <1>7, SumType, Zenon
<1>9. /\ acc.bytes = SumOf(ByteCost, Range(acc.msgs)) /\ acc.bytes \in Nat /\ bytesUsed \in Nat
      /\ bytesUsed = SumOf(ByteCost, Holders) + SumOf(Framings, InFlight)
      /\ bytesUsed = SumOf(ByteCost, Reserved) + acc.bytes + SumOf(Costs, InFlight)
  BY Zenon DEF BudgetFlow, BudgetExact, TypeOK, RotatorTypes, ResolverTypes
<1>10. /\ bytesUsed' = SumOf(ByteCost, Holders') + SumOf(Framings, InFlight)
       /\ bytesUsed' = SumOf(ByteCost, Reserved) + 0 + SumOf(Costs, InFlight)
  <2>1. bytesUsed = SumOf(ByteCost, Holders') + acc.bytes + SumOf(Framings, InFlight)
    BY <1>7, <1>9, Zenon
  <2>2. Released(bytesUsed, acc.bytes) = SumOf(ByteCost, Holders') + SumOf(Framings, InFlight)
    BY <1>5, <1>8, <1>9, <2>1 DEF Released
  <2>3. Released(bytesUsed, acc.bytes) = SumOf(ByteCost, Reserved) + 0 + SumOf(Costs, InFlight)
    BY <1>5, <1>9 DEF Released
  <2> QED
    BY <1>1, <2>2, <2>3, Zenon
<1>11. Bounded(Holders')
  <2>1. Bounded(Holders) /\ Holders' \in SUBSET Holders
    BY <1>4, Zenon DEF BudgetFlow, InFlightBound, Bounded
  <2> QED
    BY <1>4, <1>5, <2>1, BoundShrinks, Zenon
<1>12. acc'.bytes = SumOf(ByteCost, Range(acc'.msgs))
  BY <1>1, <1>2, SumEmpty, Zenon
<1> QED
  BY <1>1, <1>2, <1>3, <1>7, <1>10, <1>11, <1>12, Zenon
  DEF BudgetFlow, BudgetExact, InFlightBound, Bounded

\* The resolver releases the bytes and the slot of a batch that is in flight.
LEMMA BudgetRelease ==
  ASSUME TypeOK, Durability, MessageFlow, BudgetFlow, ResolverRelease
  PROVE  BudgetFlow'
<1> DEFINE ms == Range(batches[cur].msgs)
           cost == batches[cur].cost
           framing == Framings[cur]
<1>1. /\ UNCHANGED <<apc, appendCh, acc, batches, nextOrdinal>> /\ Ordinals' = Ordinals
      /\ vpc = "release" /\ bytesUsed' = Released(bytesUsed, cost)
      /\ batchesUsed' = Released(batchesUsed, 1) /\ stage' = [stage EXCEPT ![cur] = "done"]
  BY Zenon DEF ResolverRelease, ResolverFrame, Ordinals
<1>2. cur \in Ordinals /\ stage[cur] = "resolving" /\ stage \in [Ordinals -> Stages]
  BY <1>1, Zenon DEF Durability, HandoffSound, TypeOK, BatchTypes
<1>3. cur \in InFlight /\ InFlight' = InFlight \ {cur} /\ InFlight \subseteq Ordinals
  <2>1. stage'[cur] = "done" /\ \A o \in Ordinals \ {cur} : stage'[o] = stage[o]
    BY <1>1, <1>2, Zenon
  <2> QED
    BY <1>1, <1>2, <2>1, Zenon DEF InFlight, In
<1>4. Costs' = Costs /\ Framings' = Framings /\ Reserved' = Reserved
  BY <1>1, Zenon DEF Costs, Framings, Reserved
<1>5. Holders' = Holders \ ms /\ ms \subseteq Holders /\ Holders \in SUBSET Msgs
  <2>1. ms \subseteq MsgsOf(InFlight)
    BY <1>3, MsgsOfBatches, Zenon
  <2>2. ms \cap Reserved = {} /\ ms \cap Range(acc.msgs) = {} /\ Holders \subseteq Msgs
    BY <2>1, HoldersApart, Zenon
  <2>3. MsgsOf(InFlight)' = MsgsOf(InFlight) \ ms
    <3>1. \A o \in InFlight \ {cur} : Range(batches[o].msgs) \cap ms = {}
      BY <1>3, Zenon DEF MessageFlow, OnePlace
    <3>2. \A m : m \in MsgsOf(InFlight)' <=> \E o \in InFlight \ {cur} : m \in Range(batches[o].msgs)
      BY <1>1, <1>3, Zenon DEF MsgsOf
    <3> QED
      BY <3>1, <3>2, MsgsOfBatches, Zenon
  <2> QED
    BY <1>1, <1>4, <2>1, <2>2, <2>3, Zenon DEF Holders
<1>6. /\ IsFiniteSet(InFlight) /\ IsFiniteSet(Holders) /\ IsFiniteSet(ms)
      /\ \A o \in InFlight : Costs[o] \in Nat
      /\ \A o \in InFlight : Framings[o] \in Nat
      /\ SumOf(ByteCost, Reserved) \in Nat
  BY <1>3, HoldersFinite, Zenon
<1>7. /\ \A o \in InFlight' : Costs[o] \in Nat
      /\ \A o \in InFlight' : Framings[o] \in Nat
      /\ \A m \in Holders : ByteCost[m] \in Nat
      /\ \A m \in Holders' : ByteCost[m] \in Nat
      /\ \A m \in ms : ByteCost[m] \in Nat
  BY <1>3, <1>5, <1>6, CostsTyped, Zenon
<1>8. /\ Costs[cur] = cost /\ cost \in Nat /\ framing \in Nat
      /\ framing = cost - SumOf(ByteCost, ms)
  <2>1. Costs[cur] = cost /\ framing = cost - SumOf(ByteCost, ms)
    BY <1>2, Zenon DEF Costs, Framings
  <2>2. Costs[cur] \in Nat /\ framing \in Nat
    BY <1>3, <1>6, Zenon
  <2> QED
    BY <2>1, <2>2, Zenon
<1> HIDE DEF ms, cost, framing
<1>9. /\ IsFiniteSet(InFlight')
      /\ SumOf(Costs, InFlight) = SumOf(Costs, InFlight') + cost
      /\ SumOf(Framings, InFlight) = SumOf(Framings, InFlight') + framing
  <2>1. {cur} \subseteq InFlight
    BY <1>3, Zenon
  <2>2. /\ IsFiniteSet(InFlight')
        /\ SumOf(Costs, InFlight) = SumOf(Costs, InFlight') + SumOf(Costs, {cur})
        /\ SumOf(Framings, InFlight) = SumOf(Framings, InFlight') + SumOf(Framings, {cur})
    BY <1>3, <1>6, <2>1, SumRemove, Zenon
  <2>3. SumOf(Costs, {cur}) = cost /\ SumOf(Framings, {cur}) = framing
    BY <1>3, <1>6, <1>8, SumSingle, Zenon DEF framing
  <2> QED
    BY <2>2, <2>3, Zenon
<1>10. /\ IsFiniteSet(Holders')
       /\ SumOf(ByteCost, Holders) = SumOf(ByteCost, Holders') + SumOf(ByteCost, ms)
  BY <1>5, <1>6, <1>7, SumRemove, Zenon
<1>11. /\ SumOf(ByteCost, Holders') \in Nat /\ SumOf(ByteCost, ms) \in Nat
       /\ SumOf(Costs, InFlight') \in Nat /\ SumOf(Framings, InFlight') \in Nat
  BY <1>6, <1>7, <1>9, <1>10, SumType, Zenon
<1>12. /\ bytesUsed = SumOf(ByteCost, Holders) + SumOf(Framings, InFlight)
       /\ bytesUsed = SumOf(ByteCost, Reserved) + acc.bytes + SumOf(Costs, InFlight)
       /\ acc.bytes \in Nat /\ bytesUsed \in Nat
  BY Zenon DEF BudgetFlow, BudgetExact, TypeOK, RotatorTypes, ResolverTypes
<1>13. Released(bytesUsed, cost) = SumOf(ByteCost, Holders') + SumOf(Framings, InFlight')
  <2>1. bytesUsed = SumOf(ByteCost, Holders') + SumOf(Framings, InFlight') + cost
    BY <1>8, <1>9, <1>10, <1>11, <1>12
  <2> QED
    BY <1>8, <1>11, <2>1 DEF Released
<1>14. Released(bytesUsed, cost)
         = SumOf(ByteCost, Reserved) + acc.bytes + SumOf(Costs, InFlight')
  <2>1. bytesUsed = SumOf(ByteCost, Reserved) + acc.bytes + SumOf(Costs, InFlight') + cost
    BY <1>6, <1>8, <1>9, <1>11, <1>12
  <2> QED
    BY <1>6, <1>8, <1>11, <1>12, <2>1 DEF Released
<1>15. batchesUsed' = Cardinality(InFlight') /\ batchesUsed' <= MaxInFlightBatches
  <2>1. Cardinality(InFlight') = Cardinality(InFlight) - 1 /\ Cardinality(InFlight') \in Nat
    BY <1>3, <1>6, <1>9, FS_RemoveElement, FS_CardinalityType, Zenon
  <2>2. /\ batchesUsed = Cardinality(InFlight) /\ batchesUsed \in Nat
        /\ batchesUsed <= MaxInFlightBatches
    BY Zenon DEF BudgetFlow, BudgetExact, InFlightBound, TypeOK, ResolverTypes
  <2>3. MaxInFlightBatches \in Nat
    BY ConfigAssumption
  <2> QED
    BY <1>1, <2>1, <2>2, <2>3 DEF Released
<1>16. Bounded(Holders')
  <2>1. Bounded(Holders) /\ Holders' \in SUBSET Holders
    BY <1>5, Zenon DEF BudgetFlow, InFlightBound, Bounded
  <2> QED
    BY <1>5, <1>6, <2>1, BoundShrinks, Zenon
<1>17. BudgetExact'
  BY <1>1, <1>4, <1>14, <1>15, Zenon DEF BudgetExact, cost
<1>18. InFlightBound'
  BY <1>15, <1>16, Zenon DEF InFlightBound, Bounded
<1>19. bytesUsed' = SumOf(ByteCost, Holders') + SumOf(Framings', InFlight')
  BY <1>1, <1>4, <1>13, Zenon DEF cost
<1>20. \A o \in Ordinals' : batches'[o].cost >= SumOf(ByteCost, Range(batches'[o].msgs))
  BY <1>1, Zenon DEF BudgetFlow
<1> QED
  BY <1>1, <1>10, <1>17, <1>18, <1>19, <1>20, Zenon DEF BudgetFlow

\* The balance of the budget is preserved by every step.
LEMMA BudgetStep ==
  ASSUME TypeOK, Durability, MessageFlow, BudgetFlow, [Next]_vars
  PROVE  BudgetFlow'
<1>1. CASE Rotator
  <2>1. ASSUME \/ RotatorReceive \/ RotatorClosed \/ RotatorTimer
               \/ \E f \in FlushCalls : RotatorFlush(f)
               \/ RotatorDrain \/ RotatorDrained \/ RotatorBlocks
        PROVE  SelectFrame /\ (ReceiveAppend \/ UNCHANGED <<acc, appendCh>>)
    BY <2>1, Zenon DEF RotatorReceive, RotatorClosed, RotatorTimer, RotatorFlush, RotatorDrain,
                       RotatorDrained, RotatorBlocks
  <2>2. CASE SelectFrame /\ UNCHANGED <<acc, appendCh>>
    BY <2>2, BudgetFrame, Zenon DEF SelectFrame
  <2> QED
    BY <1>1, <2>1, <2>2, BudgetReceive, BudgetAcquire, BudgetDrop, Zenon DEF Rotator
<1>2. CASE Resolver
  <2>1. CASE ResolverObserve \/ ResolverWatchers \/ ResolverAck \/ ResolverExit
    <3>1. ResolverFrame /\ UNCHANGED <<stage, bytesUsed, batchesUsed>>
      BY <2>1, Zenon DEF ResolverObserve, ResolverWatchers, ResolverAck, ResolverExit
    <3> QED
      BY <3>1, BudgetFrame, Zenon DEF ResolverFrame
  <2> QED
    BY <1>2, <2>1, BudgetRelease, Zenon DEF Resolver
<1>3. ASSUME NEW f \in FlushCalls, FlushStart(f) \/ FlushStep(f) PROVE BudgetFlow'
  <2>1. FlushFrame
    BY <1>3, Zenon DEF FlushStart, FlushStep, FlushAck, FlushDrained, FlushBlocks, FlushShutdown,
                       FlushCtx
  <2> QED
    BY <2>1, BudgetFrame, Zenon DEF FlushFrame
<1>4. CASE CloseStart
  BY <1>4, BudgetFrame, Zenon DEF CloseStart, FlushFrame
<1>5. CASE CloseCtxFires \/ Close
  <2>1. CloseFrame
    BY <1>5, Zenon DEF CloseCtxFires, Close, CloseAppendCh, CloseDone, CloseCancel, CloseForced
  <2> QED
    BY <2>1, BudgetFrame, Zenon DEF CloseFrame
<1>6. CASE OtherWrite \/ UNCHANGED vars
  BY <1>6, BudgetFrame, Zenon DEF OtherWrite, vars
<1> QED
  BY <1>1, <1>2, <1>3, <1>4, <1>5, <1>6, BudgetAppend, BudgetWork, BudgetDrain, BudgetCas, Zenon
  DEF Next, Terminated

-----------------------------------------------------------------------------
(* The theorems *)

\* For every configuration: the accumulator and the batches know the cost of
\* their messages, and all of the budget but framing is the cost of messages
\* that still have to be released.
THEOREM BudgetInvariant == Spec => []BudgetFlow
<1>1. Init => BudgetFlow
  BY BudgetInit, Zenon
<1>2. TypeOK /\ Durability /\ MessageFlow /\ BudgetFlow /\ [Next]_vars => BudgetFlow'
  BY BudgetStep, Zenon
<1> QED
  BY <1>1, <1>2, TypeCorrect, DurabilityInvariant, MessageInvariant, PTL DEF Spec

\* For every configuration: the budget is exactly what the calls, appendCh,
\* the accumulator and the batches in flight hold.
THEOREM BudgetIsExact == Spec => []BudgetExact
<1>1. BudgetFlow => BudgetExact
  BY Zenon DEF BudgetFlow
<1> QED
  BY <1>1, BudgetInvariant, PTL

\* For every configuration: there are at most MaxInFlightBatches batches in
\* flight, and at most MaxInFlightBytes of messages, or a single message that
\* costs anything.
THEOREM InFlightIsBounded == Spec => []InFlightBound
<1>1. BudgetFlow => InFlightBound
  BY Zenon DEF BudgetFlow
<1> QED
  BY <1>1, BudgetInvariant, PTL

\* No slot in use means no batch in flight, and the other way round.
LEMMA SlotsCount ==
  ASSUME TypeOK, MessageFlow, BudgetFlow
  PROVE  batchesUsed = 0 <=> InFlight = {}
<1>1. IsFiniteSet(InFlight)
  BY HoldersFinite, Zenon
<1>2. batchesUsed = Cardinality(InFlight)
  BY Zenon DEF BudgetFlow, BudgetExact
<1> QED
  BY <1>1, <1>2, FS_EmptySet, Zenon

\* For every configuration: the buffer of uploadCompletionCh has room while an
\* encoder or an uploader holds a batch, since a batch in the buffer keeps its
\* slot and there are as many slots as places in the buffer.
THEOREM CompletionsNeverBlock == Spec => []CompletionNeverBlocks
<1>1. TypeOK /\ MessageFlow /\ BudgetFlow => CompletionNeverBlocks
  <2> SUFFICES ASSUME TypeOK, MessageFlow, BudgetFlow, NEW o \in In({"encoding", "uploading"})
               PROVE  CompletionRoom
    BY Zenon DEF CompletionNeverBlocks
  <2> DEFINE C == In({"completed"})
  <2>1. IsFiniteSet(InFlight)
    BY HoldersFinite, Zenon
  <2>2. C \cup {o} \in SUBSET InFlight /\ C \in SUBSET InFlight /\ o \notin C
    BY Zenon DEF In, InFlight
  <2>3. IsFiniteSet(C) /\ Cardinality(C) \in Nat
    BY <2>1, <2>2, FS_Subset, FS_CardinalityType, Zenon
  <2>4. Cardinality(C \cup {o}) = Cardinality(C) + 1
    BY <2>2, <2>3, FS_AddElement, Zenon
  <2>5. Cardinality(C \cup {o}) <= Cardinality(InFlight)
    BY <2>1, <2>2, FS_Subset, Zenon
  <2>6. /\ batchesUsed = Cardinality(InFlight) /\ batchesUsed <= MaxInFlightBatches
        /\ batchesUsed \in Nat
    BY Zenon DEF BudgetFlow, BudgetExact, InFlightBound, TypeOK, ResolverTypes
  <2>7. MaxInFlightBatches \in Nat
    BY ConfigAssumption
  <2>8. Cardinality(C) < MaxInFlightBatches
    BY <2>3, <2>4, <2>5, <2>6, <2>7
  <2> QED
    BY <2>8, Zenon DEF CompletionRoom
<1> QED
  BY <1>1, TypeCorrect, MessageInvariant, BudgetInvariant, PTL

\* For every configuration: the pipeline ends empty, with every accepted
\* message resolved and every slot given back.
THEOREM ExitsLeaveNothing == Spec => []ExitLeavesNothing
<1>1. TypeOK /\ PipelineFlow /\ MessageFlow /\ BudgetFlow => ExitLeavesNothing
  BY NothingLeft, SlotsCount, Zenon DEF ExitLeavesNothing
<1> QED
  BY <1>1, TypeCorrect, PipelineInvariant, MessageInvariant, BudgetInvariant, PTL

\* For every configuration: before a Flush is answered, everything that was
\* accepted before its call is in batches.
THEOREM FlushInvariant == Spec => []FlushFlow
<1>1. Init => FlushFlow
  BY FlushInit, Zenon
<1>2. TypeOK /\ Durability /\ PipelineFlow /\ MessageFlow /\ BudgetFlow /\ FlushFlow /\ [Next]_vars
        => FlushFlow'
  BY FlushFlowStep, SlotsCount, Zenon
<1> QED
  BY <1>1, <1>2, TypeCorrect, DurabilityInvariant, PipelineInvariant, MessageInvariant,
     BudgetInvariant, PTL
  DEF Spec

\* For every configuration: a Flush that returns the outcome of its batch has
\* waited for everything that was accepted before it was called.
THEOREM FlushesCover == Spec => []FlushCovers
<1>1. FlushFlow => FlushCovers
  BY Zenon DEF FlushFlow
<1> QED
  BY <1>1, FlushInvariant, PTL

-----------------------------------------------------------------------------
(* The entries of other producers *)

\* A write of the manifest, or an entry of another producer, leaves the entries
\* of the others where they are.
LEMMA OthersStep ==
  ASSUME TypeOK, Durability, OthersKept, [Next]_vars
  PROVE  OthersKept'
<1> DEFINE Others(s) == {i \in DOMAIN s : s[i] = Other}
<1>1. /\ manifest \in Seq(Nat \cup {Other}) /\ group \in Seq(Nat) /\ otherWrites \in Nat
      /\ Len(manifest) \in Nat /\ DOMAIN manifest = 1 .. Len(manifest)
  BY DEF TypeOK, StoreTypes, CommitterTypes
<1>2. IsFiniteSet(Others(manifest)) /\ Cardinality(Others(manifest)) = otherWrites
  <2>1. IsFiniteSet(1 .. Len(manifest))
    BY <1>1, FS_Interval
  <2>2. Others(manifest) \subseteq 1 .. Len(manifest)
    BY <1>1, Zenon
  <2> QED
    BY <2>1, <2>2, FS_Subset, Zenon DEF OthersKept
<1>3. CASE UNCHANGED <<manifest, otherWrites>>
  BY <1>3, Zenon DEF OthersKept
<1>4. CASE WriteManifest /\ UNCHANGED otherWrites
  <2>1. manifest' = manifest \o group
    BY <1>4, Zenon DEF Durability, SnapshotSound, WriteManifest
  <2>2. \A i \in DOMAIN group : group[i] # Other
    BY <1>1, EnvironmentAssumption
  <2>3. Others(manifest') = Others(manifest)
    <3>1. \A i \in DOMAIN manifest : i \in DOMAIN manifest' /\ manifest'[i] = manifest[i]
      BY <1>1, <2>1
    <3>2. \A i \in DOMAIN manifest' : i \in DOMAIN manifest \/
            (i - Len(manifest) \in DOMAIN group /\ manifest'[i] = group[i - Len(manifest)])
      BY <1>1, <2>1
    <3> QED
      BY <2>2, <3>1, <3>2, Zenon
  <2> QED
    BY <1>2, <1>4, <2>3, Zenon DEF OthersKept
<1>5. CASE OtherWrite
  <2>1. manifest' = Append(manifest, Other) /\ otherWrites' = otherWrites + 1
    BY <1>5, Zenon DEF OtherWrite
  <2> DEFINE n == Len(manifest) + 1
  <2>2. /\ DOMAIN manifest' = DOMAIN manifest \cup {n} /\ n \notin DOMAIN manifest
        /\ manifest'[n] = Other /\ \A i \in DOMAIN manifest : manifest'[i] = manifest[i]
    BY <1>1, <2>1
  <2>3. Others(manifest') = Others(manifest) \cup {n} /\ n \notin Others(manifest)
    <3> HIDE DEF n
    <3> QED
      BY <2>2, Zenon
  <2>4. Cardinality(Others(manifest')) = Cardinality(Others(manifest)) + 1
    <3> HIDE DEF n, Others
    <3> QED
      BY <1>2, <2>3, FS_AddElement, Zenon
  <2> QED
    BY <1>2, <2>1, <2>4, Zenon DEF OthersKept
<1>6. CASE CommitterStore
  <2>1. CasFrame
    BY <1>6, Zenon DEF CommitterStore, CommitterRead, CommitterReadFails, CommitterPut,
                       CommitterConflict, CommitterPutFails
  <2>2. UNCHANGED otherWrites
    BY <2>1, Zenon DEF CasFrame
  <2>3. UNCHANGED manifest \/ WriteManifest
    BY <1>6, Zenon DEF CommitterStore, CommitterRead, CommitterReadFails, CommitterPut,
                       CommitterConflict, CommitterPutFails
  <2> QED
    BY <1>3, <1>4, <2>2, <2>3, Zenon
<1> QED
  BY <1>3, <1>5, <1>6, ManifestUntouched, Zenon

\* For every configuration: the CAS of this producer never loses an entry that
\* another producer has written since the manifest was read.
THEOREM OthersAreKept == Spec => []OthersKept
<1>1. Init => OthersKept
  <2> SUFFICES ASSUME Init PROVE OthersKept
    OBVIOUS
  <2>1. manifest = <<>> /\ otherWrites = 0
    BY Zenon DEF Init
  <2>2. {i \in DOMAIN manifest : manifest[i] = Other} = {}
    BY <2>1
  <2> QED
    BY <2>1, <2>2, FS_EmptySet, Zenon DEF OthersKept
<1>2. TypeOK /\ Durability /\ OthersKept /\ [Next]_vars => OthersKept'
  BY OthersStep, Zenon
<1> QED
  BY <1>1, <1>2, TypeCorrect, DurabilityInvariant, PTL DEF Spec
=============================================================================
