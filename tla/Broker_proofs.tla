----------------------------- MODULE Broker_proofs -----------------------------
(***************************************************************************)
(* Orders, positions and cash agree after any number of ticks, for every   *)
(* set of symbols, prices, quantities and quotes.                          *)
(*                                                                         *)
(* A tick is a loop over the orders that wait, so that there are two       *)
(* inductions: LoopInv, on the orders the loop has been through, says what *)
(* they have done to what there was before the tick, and BrokerInv, on     *)
(* steps, is put together from it.  Sums are recursive functions; what     *)
(* their values are is found by a least counterexample (Induct).           *)
(***************************************************************************)
EXTENDS Broker, FiniteSetTheorems, SequenceTheorems, WellFoundedInduction, TLAPS

-----------------------------------------------------------------------------
(* Sums.                                                                   *)

LEMMA Induct ==
    ASSUME NEW n \in Nat, NEW S, 0 \in S,
           \A i \in 0..n : i < n /\ i \in S => i + 1 \in S
    PROVE  \A i \in 0..n : i \in S
<1> DEFINE T == {i \in 0..n : i \notin S}
<1>1. SUFFICES ASSUME T # {}
               PROVE  FALSE
  OBVIOUS
<1>2. T \in SUBSET Nat
  OBVIOUS
<1>3. PICK k \in T : \A i \in T : ~ (<<i, k>> \in OpToRel(<, Nat))
  <2> HIDE DEF T
  <2> QED  BY <1>1, <1>2, NatLessThanWellFounded, WFMin
<1>4. k \in 0..n /\ k \notin S /\ k # 0
  OBVIOUS
<1>5. k - 1 \in 0..n /\ k - 1 < n /\ k - 1 \in Nat /\ k \in Nat /\ k - 1 + 1 = k
  BY <1>4
<1>6. k - 1 \notin S
  BY <1>4, <1>5
<1>7. k - 1 \in T
  BY <1>5, <1>6
<1>8. <<k - 1, k>> \in OpToRel(<, Nat)
  <2>1. k - 1 < k
    BY <1>5
  <2> QED  BY <1>5, <2>1 DEF OpToRel
<1> QED  BY <1>3, <1>7, <1>8

LEMMA SumsExist ==
    ASSUME NEW a \in Seq(Int)
    PROVE  \E f : f = [i \in 0..Len(a) |-> IF i = 0 THEN 0 ELSE f[i - 1] + a[i]]
<1> DEFINE P(n, f) == f = [i \in 0..n |-> IF i = 0 THEN 0 ELSE f[i - 1] + a[i]]
           S == {n \in 0..Len(a) : \E f : P(n, f)}
<1>1. Len(a) \in Nat
  BY LenProperties
<1>2. 0 \in S
  <2> DEFINE g == [i \in 0..0 |-> 0]
  <2>1. P(0, g)
    OBVIOUS
  <2> HIDE DEF g, P
  <2> QED  BY <1>1, <2>1
<1>3. ASSUME NEW n \in 0..Len(a), n < Len(a), n \in S
      PROVE  n + 1 \in S
  <2>1. PICK f : P(n, f)
    BY <1>3
  <2> DEFINE g == [i \in 0..n + 1 |-> IF i = n + 1 THEN f[n] + a[n + 1] ELSE f[i]]
  <2>2. P(n + 1, g)
    <3>1. ASSUME NEW i \in 0..n + 1
          PROVE  g[i] = IF i = 0 THEN 0 ELSE g[i - 1] + a[i]
      <4>1. CASE i = n + 1
        BY <1>1, <1>3, <4>1
      <4>2. CASE i \in 0..n
        <5>1. g[i] = f[i] /\ (i # 0 => g[i - 1] = f[i - 1])
          BY <1>1, <1>3, <4>2
        <5>2. f[i] = IF i = 0 THEN 0 ELSE f[i - 1] + a[i]
          BY <2>1, <4>2
        <5> QED  BY <5>1, <5>2
      <4> QED  BY <1>1, <1>3, <4>1, <4>2
    <3> QED  BY <3>1
  <2>3. n + 1 \in 0..Len(a)
    BY <1>1, <1>3
  <2> HIDE DEF g, P
  <2> QED  BY <2>2, <2>3
<1>4. \A n \in 0..Len(a) : n \in S
  <2> HIDE DEF S
  <2> QED  BY <1>1, <1>2, <1>3, Induct
<1>5. Len(a) \in 0..Len(a)
  BY <1>1
<1> QED  BY <1>4, <1>5

LEMMA SumsStep ==
    ASSUME NEW a \in Seq(Int)
    PROVE  /\ Sums(a)[0] = 0
           /\ \A i \in 1..Len(a) : Sums(a)[i] = Sums(a)[i - 1] + a[i]
<1> DEFINE P(f) == f = [i \in 0..Len(a) |-> IF i = 0 THEN 0 ELSE f[i - 1] + a[i]]
<1>1. Sums(a) = CHOOSE f : P(f)
  BY DEF Sums
<1>2. P(CHOOSE f : P(f))
  <2>1. \E f : P(f)
    BY SumsExist
  <2> HIDE DEF P
  <2> QED  BY <2>1
<1>3. P(Sums(a))
  <2> HIDE DEF P
  <2> QED  BY <1>1, <1>2
<1>4. Len(a) \in Nat
  BY LenProperties
<1>5. \A i \in 0..Len(a) : Sums(a)[i] = IF i = 0 THEN 0 ELSE Sums(a)[i - 1] + a[i]
  BY <1>3
<1> QED  BY <1>4, <1>5

LEMMA SumsType ==
    ASSUME NEW a \in Seq(Int)
    PROVE  \A i \in 0..Len(a) : Sums(a)[i] \in Int
<1> DEFINE S == {i \in 0..Len(a) : Sums(a)[i] \in Int}
<1>1. Len(a) \in Nat /\ \A i \in 1..Len(a) : a[i] \in Int
  BY LenProperties
<1>2. 0 \in S
  BY <1>1, SumsStep
<1>3. ASSUME NEW i \in 0..Len(a), i < Len(a), i \in S
      PROVE  i + 1 \in S
  <2>1. i + 1 \in 1..Len(a) /\ i + 1 - 1 = i
    BY <1>1, <1>3
  <2>2. Sums(a)[i + 1] = Sums(a)[i] + a[i + 1]
    BY <2>1, SumsStep
  <2> QED  BY <1>1, <1>3, <2>1, <2>2
<1>4. \A i \in 0..Len(a) : i \in S
  <2> HIDE DEF S
  <2> QED  BY <1>1, <1>2, <1>3, Induct
<1> QED  BY <1>4

\* From k of a and j of b, where their sums differ by c, the amounts are the
\* same n times.
Alike(a, b, c, k, j, n) ==
    /\ a \in Seq(Int) /\ b \in Seq(Int) /\ c \in Int
    /\ k \in Nat /\ j \in Nat /\ n \in Nat
    /\ k + n <= Len(a) /\ j + n <= Len(b)
    /\ Sums(b)[j] = Sums(a)[k] + c
    /\ \A i \in 1..n : b[j + i] = a[k + i]

\* Then their sums differ by c from there on.
LEMMA SumsAlike ==
    ASSUME NEW a, NEW b, NEW c, NEW k, NEW j, NEW n, Alike(a, b, c, k, j, n)
    PROVE  Sums(b)[j + n] = Sums(a)[k + n] + c
<1> USE DEF Alike
<1> DEFINE S == {i \in 0..n : Sums(b)[j + i] = Sums(a)[k + i] + c}
<1>1. /\ Len(a) \in Nat /\ \A i \in 1..Len(a) : a[i] \in Int
      /\ Len(b) \in Nat /\ \A i \in 1..Len(b) : b[i] \in Int
  BY LenProperties
<1>2. 0 \in S
  OBVIOUS
<1>3. ASSUME NEW i \in 0..n, i < n, i \in S
      PROVE  i + 1 \in S
  <2>1. /\ k + (i + 1) \in 1..Len(a) /\ k + (i + 1) - 1 = k + i
        /\ j + (i + 1) \in 1..Len(b) /\ j + (i + 1) - 1 = j + i
        /\ i + 1 \in 1..n /\ k + i \in 0..Len(a) /\ j + i \in 0..Len(b)
    BY <1>1, <1>3
  <2>2. /\ Sums(a)[k + (i + 1)] = Sums(a)[k + i] + a[k + (i + 1)]
        /\ Sums(b)[j + (i + 1)] = Sums(b)[j + i] + b[j + (i + 1)]
    BY <2>1, SumsStep
  <2>3. Sums(a)[k + i] \in Int /\ a[k + (i + 1)] \in Int
        /\ b[j + (i + 1)] = a[k + (i + 1)]
    BY <1>1, <2>1, SumsType
  <2>4. Sums(b)[j + i] = Sums(a)[k + i] + c
    BY <1>3
  <2>5. Sums(b)[j + (i + 1)] = Sums(a)[k + (i + 1)] + c
    BY <2>2, <2>3, <2>4
  <2> QED  BY <1>3, <2>1, <2>5
<1>4. \A i \in 0..n : i \in S
  <2> HIDE DEF S
  <2> QED  BY <1>2, <1>3, Induct
<1>5. n \in 0..n
  OBVIOUS
<1> QED  BY <1>4, <1>5

LEMMA TotalType ==
    ASSUME NEW a \in Seq(Int)
    PROVE  Total(a) \in Int
<1>1. Len(a) \in 0..Len(a)
  BY LenProperties
<1> QED  BY <1>1, SumsType DEF Total

LEMMA TotalEmpty ==
    ASSUME NEW a \in Seq(Int), Len(a) = 0
    PROVE  Total(a) = 0
BY SumsStep DEF Total

\* one more amount
LEMMA TotalMore ==
    ASSUME NEW a \in Seq(Int), NEW b \in Seq(Int), Len(b) = Len(a) + 1,
           \A i \in 1..Len(a) : b[i] = a[i]
    PROVE  Total(b) = Total(a) + b[Len(b)]
<1>1. Len(a) \in Nat /\ Len(b) \in 1..Len(b) /\ Len(b) - 1 = Len(a)
  BY LenProperties
<1>2. Sums(b)[0] = Sums(a)[0] + 0
  BY SumsStep
<1>3. Alike(a, b, 0, 0, 0, Len(a))
  BY <1>1, <1>2 DEF Alike
<1>4. Sums(b)[Len(a)] = Sums(a)[Len(a)]
  <2>1. Sums(b)[0 + Len(a)] = Sums(a)[0 + Len(a)] + 0
    BY <1>3, SumsAlike
  <2>2. Sums(a)[Len(a)] \in Int /\ 0 + Len(a) = Len(a)
    BY <1>1, SumsType
  <2> QED  BY <2>1, <2>2
<1>5. Sums(b)[Len(b)] = Sums(b)[Len(b) - 1] + b[Len(b)]
  BY <1>1, SumsStep
<1> QED  BY <1>1, <1>4, <1>5 DEF Total

\* the amounts of one sequence and then those of another
LEMMA TotalJoined ==
    ASSUME NEW a \in Seq(Int), NEW b \in Seq(Int), NEW c \in Seq(Int),
           Len(c) = Len(a) + Len(b),
           \A i \in 1..Len(a) : c[i] = a[i],
           \A i \in 1..Len(b) : c[Len(a) + i] = b[i]
    PROVE  Total(c) = Total(a) + Total(b)
<1>1. Len(a) \in Nat /\ Len(b) \in Nat /\ Len(c) \in Nat
  BY LenProperties
<1>2. Sums(a)[0] = 0 /\ Sums(b)[0] = 0 /\ Sums(c)[0] = 0
      /\ Total(a) \in Int /\ Total(b) \in Int
  BY SumsStep, TotalType
<1>3. Sums(c)[Len(a)] = Total(a)
  <2>1. Alike(a, c, 0, 0, 0, Len(a))
    BY <1>1, <1>2 DEF Alike
  <2>2. Sums(c)[0 + Len(a)] = Sums(a)[0 + Len(a)] + 0
    BY <2>1, SumsAlike
  <2> QED  BY <1>1, <1>2, <2>2 DEF Total
<1>4. Alike(b, c, Total(a), 0, Len(a), Len(b))
  BY <1>1, <1>2, <1>3 DEF Alike
<1>5. Sums(c)[Len(a) + Len(b)] = Sums(b)[0 + Len(b)] + Total(a)
  BY <1>4, SumsAlike
<1>6. 0 + Len(b) = Len(b)
  BY <1>1
<1> QED  BY <1>2, <1>5, <1>6 DEF Total

\* one amount is another
LEMMA TotalChanged ==
    ASSUME NEW a \in Seq(Int), NEW b \in Seq(Int), Len(b) = Len(a),
           NEW k \in 1..Len(a), \A i \in 1..Len(a) : i # k => b[i] = a[i]
    PROVE  Total(b) = Total(a) + (b[k] - a[k])
<1>1. Len(a) \in Nat /\ k \in Nat /\ a[k] \in Int /\ b[k] \in Int
      /\ k - 1 \in 0..Len(a) /\ k - 1 \in Nat /\ k \in 1..Len(b)
  BY LenProperties
<1>2. Sums(a)[0] = 0 /\ Sums(b)[0] = 0
      /\ Sums(a)[k] = Sums(a)[k - 1] + a[k] /\ Sums(b)[k] = Sums(b)[k - 1] + b[k]
      /\ Sums(a)[k - 1] \in Int
  BY <1>1, SumsStep, SumsType
<1>3. Sums(b)[k - 1] = Sums(a)[k - 1]
  <2>1. Alike(a, b, 0, 0, 0, k - 1)
    BY <1>1, <1>2 DEF Alike
  <2>2. Sums(b)[0 + (k - 1)] = Sums(a)[0 + (k - 1)] + 0
    BY <2>1, SumsAlike
  <2> QED  BY <1>1, <1>2, <2>2
<1>4. Sums(b)[k] = Sums(a)[k] + (b[k] - a[k])
  BY <1>1, <1>2, <1>3
<1>5. Alike(a, b, b[k] - a[k], k, k, Len(a) - k)
  BY <1>1, <1>4 DEF Alike
<1>6. Sums(b)[k + (Len(a) - k)] = Sums(a)[k + (Len(a) - k)] + (b[k] - a[k])
  BY <1>5, SumsAlike
<1>7. k + (Len(a) - k) = Len(a)
  BY <1>1
<1> QED  BY <1>6, <1>7 DEF Total

\* nothing but zeroes
LEMMA TotalZero ==
    ASSUME NEW a \in Seq(Int), \A i \in 1..Len(a) : a[i] = 0
    PROVE  Total(a) = 0
<1> DEFINE S == {i \in 0..Len(a) : Sums(a)[i] = 0}
<1>1. Len(a) \in Nat
  BY LenProperties
<1>2. 0 \in S
  BY <1>1, SumsStep
<1>3. ASSUME NEW i \in 0..Len(a), i < Len(a), i \in S
      PROVE  i + 1 \in S
  <2>1. i + 1 \in 1..Len(a) /\ i + 1 - 1 = i
    BY <1>1, <1>3
  <2>2. Sums(a)[i + 1] = Sums(a)[i] + a[i + 1]
    BY <2>1, SumsStep
  <2> QED  BY <1>1, <1>3, <2>1, <2>2
<1>4. \A i \in 0..Len(a) : i \in S
  <2> HIDE DEF S
  <2> QED  BY <1>1, <1>2, <1>3, Induct
<1>5. Len(a) \in S
  BY <1>1, <1>4
<1> QED  BY <1>5 DEF Total


-----------------------------------------------------------------------------
(* Orders.                                                                 *)

Actions == {"DEPOSIT", "WITHDRAW", "DIVIDEND", "BUY", "SELL"}
Statuses == {"PENDING_NEW", "FILLED", "REJECTED"}

OrderRec ==
    {o \in [id : Nat, root : Nat, symbol : Symbol \union {None}, action : Actions,
            quantity : Nat, price : Nat, cost : Int, status : Statuses,
            fill : Nat, at : Nat, rest : Nat] :
        o.cost >= NaN}

\* an order that waits in the queue of s
Waiting(s) ==
    {o \in OrderRec :
        /\ o.symbol = s /\ o.action \in {"BUY", "SELL"}
        /\ o.status = "PENDING_NEW" /\ o.quantity > 0 /\ o.fill = 0 /\ o.rest = 0}

\* an order that is done with
Done ==
    {o \in OrderRec :
        /\ o.status \in {"FILLED", "REJECTED"}
        /\ o.action \in {"BUY", "SELL"} => o.symbol \in Symbol}

LEMMA OrderFields ==
    ASSUME NEW o \in OrderRec
    PROVE  /\ o.id \in Nat /\ o.root \in Nat /\ o.quantity \in Nat /\ o.price \in Nat
           /\ o.cost \in Int /\ o.cost >= NaN
           /\ o.fill \in Nat /\ o.at \in Nat /\ o.rest \in Nat
           /\ o.symbol \in Symbol \union {None}
           /\ o.action \in Actions /\ o.status \in Statuses
BY DEF OrderRec

LEMMA Amounts ==
    ASSUME NEW o \in OrderRec
    PROVE  /\ \A r : Share(o, r) \in Int
           /\ \A s : Traded(o, s) \in Int
           /\ PaidIn(o) \in Int
<1>1. o.fill \in Int /\ -o.fill \in Int /\ o.quantity \in Int
      /\ o.price \in Int /\ -o.price \in Int /\ 0 \in Int
  BY OrderFields
<1> QED  BY <1>1 DEF Share, Traded, PaidIn

LEMMA AmountSeqs ==
    ASSUME NEW a \in Seq(OrderRec)
    PROVE  /\ \A r : Shares(a, r) \in Seq(Int) /\ Len(Shares(a, r)) = Len(a)
           /\ \A s : Trades(a, s) \in Seq(Int) /\ Len(Trades(a, s)) = Len(a)
           /\ Payments(a) \in Seq(Int) /\ Len(Payments(a)) = Len(a)
<1>1. Len(a) \in Nat /\ \A i \in 1..Len(a) : a[i] \in OrderRec
  BY LenProperties
<1>2. ASSUME NEW r PROVE Shares(a, r) \in Seq(Int) /\ Len(Shares(a, r)) = Len(a)
  <2>1. \A i \in 1..Len(a) : Share(a[i], r) \in Int
    BY <1>1, Amounts
  <2>2. Shares(a, r) \in [1..Len(a) -> Int]
    BY <2>1 DEF Shares
  <2> QED  BY <1>1, <2>2
<1>3. ASSUME NEW s PROVE Trades(a, s) \in Seq(Int) /\ Len(Trades(a, s)) = Len(a)
  <2>1. \A i \in 1..Len(a) : Traded(a[i], s) \in Int
    BY <1>1, Amounts
  <2>2. Trades(a, s) \in [1..Len(a) -> Int]
    BY <2>1 DEF Trades
  <2> QED  BY <1>1, <2>2
<1>4. Payments(a) \in Seq(Int) /\ Len(Payments(a)) = Len(a)
  <2>1. \A i \in 1..Len(a) : PaidIn(a[i]) \in Int
    BY <1>1, Amounts
  <2>2. Payments(a) \in [1..Len(a) -> Int]
    BY <2>1 DEF Payments
  <2> QED  BY <1>1, <2>2
<1> QED  BY <1>2, <1>3, <1>4

LEMMA TotalsType ==
    ASSUME NEW a \in Seq(OrderRec)
    PROVE  /\ \A r : Total(Shares(a, r)) \in Int
           /\ \A s : Total(Trades(a, s)) \in Int
           /\ Total(Payments(a)) \in Int
BY AmountSeqs, TotalType

\* one more order
LEMMA TotalsMore ==
    ASSUME NEW a \in Seq(OrderRec), NEW o \in OrderRec
    PROVE  /\ \A r : Total(Shares(Append(a, o), r)) = Total(Shares(a, r)) + Share(o, r)
           /\ \A s : Total(Trades(Append(a, o), s)) = Total(Trades(a, s)) + Traded(o, s)
           /\ Total(Payments(Append(a, o))) = Total(Payments(a)) + PaidIn(o)
<1> DEFINE b == Append(a, o)
<1>1. /\ Len(a) \in Nat /\ b \in Seq(OrderRec) /\ Len(b) = Len(a) + 1
      /\ b[Len(b)] = o /\ \A i \in 1..Len(a) : b[i] = a[i]
  BY LenProperties, AppendProperties
<1>2. Len(b) \in 1..Len(b) /\ \A i \in 1..Len(a) : i \in 1..Len(b)
  BY <1>1
<1> HIDE DEF b
<1>3. ASSUME NEW r PROVE Total(Shares(b, r)) = Total(Shares(a, r)) + Share(o, r)
  <2>1. \A i \in 1..Len(a) : Shares(b, r)[i] = Shares(a, r)[i]
    BY <1>1, <1>2 DEF Shares
  <2>2. Shares(b, r)[Len(b)] = Share(o, r)
    BY <1>1, <1>2 DEF Shares
  <2>3. /\ Shares(a, r) \in Seq(Int) /\ Len(Shares(a, r)) = Len(a)
        /\ Shares(b, r) \in Seq(Int) /\ Len(Shares(b, r)) = Len(b)
    BY <1>1, AmountSeqs
  <2> QED  BY <1>1, <2>1, <2>2, <2>3, TotalMore
<1>4. ASSUME NEW s PROVE Total(Trades(b, s)) = Total(Trades(a, s)) + Traded(o, s)
  <2>1. \A i \in 1..Len(a) : Trades(b, s)[i] = Trades(a, s)[i]
    BY <1>1, <1>2 DEF Trades
  <2>2. Trades(b, s)[Len(b)] = Traded(o, s)
    BY <1>1, <1>2 DEF Trades
  <2>3. /\ Trades(a, s) \in Seq(Int) /\ Len(Trades(a, s)) = Len(a)
        /\ Trades(b, s) \in Seq(Int) /\ Len(Trades(b, s)) = Len(b)
    BY <1>1, AmountSeqs
  <2> QED  BY <1>1, <2>1, <2>2, <2>3, TotalMore
<1>5. Total(Payments(b)) = Total(Payments(a)) + PaidIn(o)
  <2>1. \A i \in 1..Len(a) : Payments(b)[i] = Payments(a)[i]
    BY <1>1, <1>2 DEF Payments
  <2>2. Payments(b)[Len(b)] = PaidIn(o)
    BY <1>1, <1>2 DEF Payments
  <2> QED  BY <1>1, <2>1, <2>2, AmountSeqs, TotalMore
<1> QED  BY <1>3, <1>4, <1>5 DEF b

LEMMA SharesJoined ==
    ASSUME NEW a \in Seq(OrderRec), NEW b \in Seq(OrderRec), NEW r
    PROVE  Total(Shares(a \o b, r)) = Total(Shares(a, r)) + Total(Shares(b, r))
<1>1. /\ a \o b \in Seq(OrderRec) /\ Len(a \o b) = Len(a) + Len(b)
      /\ Len(a) \in Nat /\ Len(b) \in Nat
      /\ \A i \in 1..Len(a) : (a \o b)[i] = a[i]
      /\ \A i \in 1..Len(b) : (a \o b)[Len(a) + i] = b[i]
  BY LenProperties, ConcatProperties
<1>2. \A i \in 1..Len(a) : Shares(a \o b, r)[i] = Shares(a, r)[i]
  BY <1>1 DEF Shares
<1>3. \A i \in 1..Len(b) : Shares(a \o b, r)[Len(a) + i] = Shares(b, r)[i]
  BY <1>1 DEF Shares
<1>4. /\ Shares(a, r) \in Seq(Int) /\ Shares(b, r) \in Seq(Int)
      /\ Shares(a \o b, r) \in Seq(Int)
      /\ Len(Shares(a \o b, r)) = Len(a) + Len(b)
      /\ Len(Shares(a, r)) = Len(a) /\ Len(Shares(b, r)) = Len(b)
  BY <1>1, AmountSeqs
<1>5. /\ Len(Shares(a \o b, r)) = Len(Shares(a, r)) + Len(Shares(b, r))
      /\ \A i \in 1..Len(Shares(a, r)) : Shares(a \o b, r)[i] = Shares(a, r)[i]
      /\ \A i \in 1..Len(Shares(b, r)) :
            Shares(a \o b, r)[Len(Shares(a, r)) + i] = Shares(b, r)[i]
  BY <1>2, <1>3, <1>4
<1> QED  BY <1>4, <1>5, TotalJoined, Zenon

\* an order no other is a part of, and that is not there
LEMMA NoShare ==
    ASSUME NEW a \in Seq(OrderRec), NEW r, \A i \in 1..Len(a) : a[i].root # r
    PROVE  Total(Shares(a, r)) = 0
<1>1. \A i \in 1..Len(a) : Shares(a, r)[i] = 0
  BY DEF Shares, Share
<1> QED  BY <1>1, AmountSeqs, TotalZero

LEMMA NoOrders ==
    ASSUME NEW r
    PROVE  /\ Total(Shares(<< >>, r)) = 0
           /\ Total(Trades(<< >>, r)) = 0
           /\ Total(Payments(<< >>)) = 0
<1>1. << >> \in Seq(OrderRec) /\ Len(<< >>) = 0
  BY EmptySeq
<1> QED  BY <1>1, AmountSeqs, TotalEmpty

LEMMA ToSetAppend ==
    ASSUME NEW S, NEW a \in Seq(S), NEW x \in S
    PROVE  ToSet(Append(a, x)) = ToSet(a) \union {x}
<1>1. /\ Len(a) \in Nat /\ DOMAIN a = 1..Len(a)
      /\ DOMAIN Append(a, x) = 1..Len(a) + 1
      /\ Append(a, x)[Len(a) + 1] = x
      /\ \A i \in 1..Len(a) : Append(a, x)[i] = a[i]
  BY LenProperties, AppendProperties
<1>2. 1..Len(a) + 1 = 1..Len(a) \union {Len(a) + 1}
  BY <1>1
<1> QED  BY <1>1, <1>2 DEF ToSet

LEMMA ToSetJoined ==
    ASSUME NEW S, NEW a \in Seq(S), NEW b \in Seq(S)
    PROVE  ToSet(a \o b) \subseteq ToSet(a) \union ToSet(b)
<1>1. /\ Len(a) \in Nat /\ DOMAIN a = 1..Len(a)
      /\ Len(b) \in Nat /\ DOMAIN b = 1..Len(b)
      /\ a \o b \in Seq(S) /\ Len(a \o b) = Len(a) + Len(b)
      /\ \A i \in 1..Len(a) + Len(b) :
            (a \o b)[i] = IF i <= Len(a) THEN a[i] ELSE b[i - Len(a)]
  BY LenProperties, ConcatProperties
<1>2. DOMAIN (a \o b) = 1..Len(a) + Len(b)
  BY <1>1, LenProperties
<1>3. ASSUME NEW i \in 1..Len(a) + Len(b)
      PROVE  (a \o b)[i] \in ToSet(a) \union ToSet(b)
  <2>1. CASE i <= Len(a)
    <3>1. i \in DOMAIN a /\ (a \o b)[i] = a[i]
      BY <1>1, <2>1
    <3> QED  BY <3>1 DEF ToSet
  <2>2. CASE ~(i <= Len(a))
    <3>1. i - Len(a) \in DOMAIN b /\ (a \o b)[i] = b[i - Len(a)]
      BY <1>1, <2>2
    <3> QED  BY <3>1 DEF ToSet
  <2> QED  BY <2>1, <2>2
<1> QED  BY <1>2, <1>3 DEF ToSet

LEMMA ToSetElements ==
    ASSUME NEW S, NEW a \in Seq(S)
    PROVE  /\ ToSet(a) \subseteq S
           /\ \A i \in 1..Len(a) : a[i] \in ToSet(a)
           /\ \A x \in ToSet(a) : \E i \in 1..Len(a) : a[i] = x
<1>1. DOMAIN a = 1..Len(a) /\ \A i \in 1..Len(a) : a[i] \in S
  BY LenProperties
<1> QED  BY <1>1 DEF ToSet


-----------------------------------------------------------------------------
(* One order and one quote.                                                *)

Same(o, m) ==
    /\ m \in OrderRec
    /\ m.id = o.id /\ m.root = o.root /\ m.symbol = o.symbol
    /\ m.action = o.action /\ m.quantity = o.quantity /\ m.price = o.price

\* o has become m by the position p
Outcome(o, m, p) ==
    \/ m = o
    \/ /\ Same(o, m)
       /\ m.status = "REJECTED" /\ m.fill = 0 /\ m.rest = 0
    \/ /\ Same(o, m)
       /\ m.status = "FILLED" /\ m.fill + m.rest = m.quantity
       /\ m.action = "SELL" => m.quantity <= p.closable

LEMMA Division ==
    ASSUME NEW a \in Nat, NEW b \in Nat, NEW c \in Nat, c > 0
    PROVE  (a * b) \div c \in Nat
<1> DEFINE x == a * b
<1>1. x \in Nat
  OBVIOUS
<1>2. x \div c \in Nat
  <2> HIDE DEF x
  <2> QED  BY <1>1
<1> QED  BY <1>2

LEMMA CommissionType ==
    ASSUME NEW a \in Nat, NEW b \in Nat
    PROVE  Commission(a * b) \in Nat
<1>1. FeePer \in Nat /\ FeePer > 0
  BY BrokerAssumption
<1> QED  BY <1>1, Division DEF Commission

LEMMA QuoteFields ==
    ASSUME NEW t \in Quote
    PROVE  t.last \in Nat /\ t.bid \in Nat /\ t.asks \in Nat /\ t.bids \in Nat
<1>1. Price \subseteq Nat
  BY BrokerAssumption
<1>2. t \in [last : Price, bid : Price, asks : Nat, bids : Nat,
             up : {0} \union Price, down : {0} \union Price]
  BY BrokerAssumption
<1> QED  BY <1>1, <1>2

LEMMA FillOrder ==
    ASSUME NEW s, NEW o \in Waiting(s), NEW price \in Nat, NEW volume \in Nat
    PROVE  /\ Same(o, Fill(o, price, volume))
           /\ Fill(o, price, volume).status = "FILLED"
           /\ Fill(o, price, volume).fill + Fill(o, price, volume).rest = o.quantity
<1> DEFINE n == Smaller(volume, o.quantity)
           whole == IF o.cost = 0 THEN Commission(price * n) ELSE o.cost
           cost == IF whole = NaN \/ n = o.quantity THEN whole
                   ELSE (whole * n) \div o.quantity
           rest == o.quantity - n
           m == [o EXCEPT !.status = "FILLED", !.fill = n, !.at = price,
                          !.rest = rest, !.cost = cost]
<1>1. o \in OrderRec /\ o.quantity \in Nat /\ o.quantity > 0
      /\ o.cost \in Int /\ o.cost >= NaN
  BY OrderFields DEF Waiting
<1>2. n \in Nat /\ rest \in Nat /\ n + rest = o.quantity
  BY <1>1 DEF Smaller
<1>3. whole \in Int /\ whole >= NaN
  <2> HIDE DEF n
  <2>1. Commission(price * n) \in Nat
    BY <1>2, CommissionType
  <2> HIDE DEF n
  <2> QED  BY <1>1, <2>1 DEF NaN
<1>4. cost \in Int /\ cost >= NaN
  <2> HIDE DEF n, whole
  <2>1. CASE whole = NaN \/ n = o.quantity
    BY <1>3, <2>1
  <2>2. CASE ~(whole = NaN \/ n = o.quantity)
    <3>1. whole \in Nat
      BY <1>3, <2>2 DEF NaN
    <3>2. (whole * n) \div o.quantity \in Nat
      BY <1>1, <1>2, <3>1, Division
    <3> QED  BY <2>2, <3>2 DEF NaN
  <2> QED  BY <2>1, <2>2
<1>5. Fill(o, price, volume) = m
  BY DEF Fill
<1>6. m \in OrderRec /\ m.id = o.id /\ m.root = o.root /\ m.symbol = o.symbol
      /\ m.action = o.action /\ m.quantity = o.quantity /\ m.price = o.price
      /\ m.status = "FILLED" /\ m.fill = n /\ m.rest = rest
  <2> HIDE DEF n, cost, rest
  <2> QED  BY <1>1, <1>2, <1>4 DEF OrderRec, Statuses
<1> QED
  <2> HIDE DEF m, n, rest
  <2> QED  BY <1>2, <1>5, <1>6 DEF Same

LEMMA RejectedOrder ==
    ASSUME NEW s, NEW o \in Waiting(s)
    PROVE  /\ Same(o, Rejected(o))
           /\ Rejected(o).status = "REJECTED"
           /\ Rejected(o).fill = 0 /\ Rejected(o).rest = 0
BY DEF Rejected, Same, Waiting, OrderRec, Statuses

LEMMA MatchBuyOrder ==
    ASSUME NEW s, NEW o \in Waiting(s), NEW t \in Quote, NEW a, NEW p,
           o.action = "BUY"
    PROVE  Outcome(o, MatchBuy(o, t, a), p)
<1>1. Outcome(o, Rejected(o), p)
  BY RejectedOrder DEF Outcome
<1>2. Outcome(o, Fill(o, t.last, t.asks), p)
  <2>1. Same(o, Fill(o, t.last, t.asks))
        /\ Fill(o, t.last, t.asks).status = "FILLED"
        /\ Fill(o, t.last, t.asks).fill + Fill(o, t.last, t.asks).rest = o.quantity
    BY QuoteFields, FillOrder
  <2> QED  BY <2>1 DEF Outcome, Same
<1>3. Outcome(o, o, p)
  BY DEF Outcome
<1> QED  BY <1>1, <1>2, <1>3 DEF MatchBuy

LEMMA MatchSellOrder ==
    ASSUME NEW s, NEW o \in Waiting(s), NEW t \in Quote, NEW p,
           p.closable \in Nat
    PROVE  Outcome(o, MatchSell(o, t, p), p)
<1>1. Outcome(o, Rejected(o), p)
  BY RejectedOrder DEF Outcome
<1>2. ASSUME NEW price \in Nat, o.quantity <= p.closable
      PROVE  Outcome(o, Fill(o, price, t.bids), p)
  <2>1. Same(o, Fill(o, price, t.bids))
        /\ Fill(o, price, t.bids).status = "FILLED"
        /\ Fill(o, price, t.bids).fill + Fill(o, price, t.bids).rest = o.quantity
    BY QuoteFields, FillOrder
  <2> QED  BY <1>2, <2>1 DEF Outcome, Same
<1>3. Outcome(o, o, p)
  BY DEF Outcome
<1>4. (IF Market(o) THEN t.last ELSE t.bid) \in Nat
  BY QuoteFields
<1>5. CASE IsOverLimitDown(o, t) \/ o.quantity > p.closable
  BY <1>1, <1>5 DEF MatchSell
<1>6. CASE ~(IsOverLimitDown(o, t) \/ o.quantity > p.closable)
  <2>1. o.quantity <= p.closable
    BY <1>6, OrderFields DEF Waiting
  <2> QED  BY <1>2, <1>3, <1>4, <1>6, <2>1 DEF MatchSell
<1> QED  BY <1>5, <1>6

-----------------------------------------------------------------------------
(* What is paid and held for it.                                           *)

Account == [cash : Int, fees : Nat, nan : BOOLEAN]
Tracker == [quantity : Nat, closable : Nat, book : Int, settled : Nat, sold : Nat]

\* no more may be sold than is held, and than was held when it was settled
PositionOk(p) ==
    /\ p \in Tracker
    /\ p.closable <= p.quantity
    /\ p.sold <= p.settled /\ p.closable = p.settled - p.sold

LEMMA BoughtOk ==
    ASSUME NEW p, PositionOk(p), NEW n \in Nat, NEW price \in Nat
    PROVE  /\ PositionOk(Bought(p, n, price))
           /\ Bought(p, n, price).quantity = p.quantity + n
           /\ Bought(p, n, price).book = p.book + n * price
<1> DEFINE v == n * price
           quantity == p.quantity + n
           book == p.book + v
<1>1. /\ v \in Nat /\ p \in Tracker
      /\ p.quantity \in Nat /\ p.closable \in Nat /\ p.book \in Int
  BY DEF PositionOk, Tracker
<1>2. Bought(p, n, price) = [p EXCEPT !.quantity = quantity, !.book = book]
  BY <1>1 DEF Bought, Tracker
<1>3. quantity \in Nat /\ book \in Int /\ p.closable <= quantity
  <2> HIDE DEF v
  <2> QED  BY <1>1 DEF PositionOk
<1> HIDE DEF quantity, book
<1>4. /\ Bought(p, n, price) \in Tracker
      /\ Bought(p, n, price).quantity = quantity
      /\ Bought(p, n, price).book = book
      /\ Bought(p, n, price).closable = p.closable
      /\ Bought(p, n, price).sold = p.sold /\ Bought(p, n, price).settled = p.settled
  BY <1>1, <1>2, <1>3 DEF Tracker
<1> QED  BY <1>3, <1>4 DEF PositionOk, quantity, book

LEMMA SoldOk ==
    ASSUME NEW p, PositionOk(p), NEW n \in Nat, NEW price \in Nat, n <= p.closable
    PROVE  /\ PositionOk(Sold(p, n, price))
           /\ Sold(p, n, price).quantity = p.quantity - n
           /\ Sold(p, n, price).book = IF p.quantity = n THEN 0 ELSE p.book - n * price
<1> DEFINE v == n * price
           book == IF p.quantity = n THEN 0 ELSE p.book - v
           quantity == p.quantity - n
           closable == p.closable - n
           sold == p.sold + n
<1>1. /\ v \in Nat /\ p \in Tracker
      /\ p.quantity \in Nat /\ p.closable \in Nat /\ p.book \in Int
      /\ p.settled \in Nat /\ p.sold \in Nat
  BY DEF PositionOk, Tracker
<1>2. Sold(p, n, price) = [p EXCEPT !.quantity = quantity, !.closable = closable,
                                    !.sold = sold, !.book = book]
  BY <1>1 DEF Sold, Tracker
<1>3. /\ quantity \in Nat /\ closable \in Nat /\ sold \in Nat /\ book \in Int
      /\ closable <= quantity /\ sold <= p.settled /\ closable = p.settled - sold
  <2> HIDE DEF v
  <2> QED  BY <1>1 DEF PositionOk
<1> HIDE DEF quantity, closable, sold, book
<1>4. /\ Sold(p, n, price) \in Tracker
      /\ Sold(p, n, price).quantity = quantity
      /\ Sold(p, n, price).closable = closable
      /\ Sold(p, n, price).sold = sold /\ Sold(p, n, price).settled = p.settled
      /\ Sold(p, n, price).book = book
  BY <1>1, <1>2, <1>3 DEF Tracker
<1> QED  BY <1>3, <1>4 DEF PositionOk, quantity, book


LEMMA MinusZero == \A n \in Int : n = 0 => -n = 0
<1>1. \A n \in Int : -n = 0 - n
  OBVIOUS
<1>2. \A n \in Int : n = 0 => 0 - n = 0
  OBVIOUS
<1> QED  BY <1>1, <1>2, Zenon

LEMMA SettledOk ==
    ASSUME NEW p \in Tracker, NEW q,
           q = [p EXCEPT !.closable = p.quantity, !.settled = p.quantity, !.sold = 0]
    PROVE  q \in Tracker /\ PositionOk(q) /\ q.quantity = p.quantity /\ q.book = p.book
<1>1. p.quantity \in Nat
  BY DEF Tracker
<1>2. /\ q.quantity = p.quantity /\ q.closable = p.quantity /\ q.book = p.book
      /\ q.settled = p.quantity /\ q.sold = 0
  BY DEF Tracker
<1>3. q \in Tracker
  BY <1>1 DEF Tracker
<1>4. p.quantity <= p.quantity /\ 0 <= p.quantity /\ p.quantity = p.quantity - 0
  BY <1>1
<1> QED  BY <1>2, <1>3, <1>4 DEF PositionOk

\* the worth of an account and a position
Worth(a, p) == a.cash + a.fees + p.book

LEMMA PaidAndHeld ==
    ASSUME NEW s, NEW o \in Waiting(s), NEW a \in Account, NEW p, PositionOk(p),
           NEW m, Outcome(o, m, p)
    PROVE  /\ Paid(a, m) \in Account
           /\ PositionOk(Held(p, m))
           /\ Closed(p, m) \in Int
           /\ Held(p, m).quantity = p.quantity + Traded(m, s)
           /\ \A u : u # s => Traded(m, u) = 0
           /\ PaidIn(m) = 0
           /\ ~Paid(a, m).nan =>
                ~a.nan /\ Worth(Paid(a, m), Held(p, m)) = Worth(a, p) + Closed(p, m)
<1>1. /\ a.cash \in Int /\ a.fees \in Nat /\ a.nan \in BOOLEAN
      /\ p.quantity \in Nat /\ p.closable \in Nat /\ p.book \in Int
      /\ p.closable <= p.quantity
  BY DEF Account, PositionOk, Tracker
<1>2. /\ m \in OrderRec /\ m.symbol = s /\ m.action \in {"BUY", "SELL"}
      /\ m.fill \in Nat /\ m.rest \in Nat /\ m.at \in Nat /\ m.cost \in Int /\ m.cost >= NaN
  <2>1. m \in OrderRec /\ m.symbol = s /\ m.action \in {"BUY", "SELL"}
    BY DEF Outcome, Same, Waiting
  <2> QED  BY <2>1, OrderFields
<1>3. \A u : u # s => Traded(m, u) = 0
  BY <1>2 DEF Traded
<1>4. PaidIn(m) = 0
  BY <1>2 DEF PaidIn
<1>5. CASE m.status # "FILLED"
  <2>1. Paid(a, m) = a /\ Held(p, m) = p /\ Closed(p, m) = 0 /\ Traded(m, s) = 0
    BY <1>5 DEF Paid, Held, Closed, Traded
  <2> QED  BY <1>1, <1>3, <1>4, <2>1 DEF Worth
<1>6. CASE m.status = "FILLED"
  <2>1. m.action = "SELL" => m.fill <= p.closable
    <3>1. m.fill + m.rest = m.quantity /\ (m.action = "SELL" => m.quantity <= p.closable)
      BY <1>6 DEF Outcome, Waiting
    <3>2. m.quantity \in Nat
      BY <1>2, OrderFields
    <3> QED  BY <1>1, <1>2, <3>1, <3>2
  <2> DEFINE v == m.fill * m.at
  <2>2. v \in Nat /\ m.at * m.fill = v /\ (m.fill = 0 => v = 0)
    <3>1. m.fill * m.at \in Nat /\ m.at * m.fill = m.fill * m.at
      BY <1>2
    <3>2. m.fill = 0 => m.fill * m.at = 0
      BY <1>2
    <3> QED  BY <3>1, <3>2
  <2> HIDE DEF v
  <2>3. /\ PositionOk(Held(p, m))
        /\ Held(p, m).quantity = p.quantity + Traded(m, s)
        /\ Closed(p, m) \in Int
        /\ Held(p, m).book - Closed(p, m)
           = p.book + (IF m.action = "BUY" THEN v ELSE -v)
    <3>1. CASE m.fill = 0
      <4>1. Held(p, m) = p /\ Closed(p, m) = 0 /\ Traded(m, s) = 0 /\ v = 0
        <5>1. v = 0 /\ Held(p, m) = p /\ Closed(p, m) = 0
          BY <2>2, <3>1 DEF Held, Closed
        <5>2. Traded(m, s) = 0
          <6>1. m.action = "BUY" => Traded(m, s) = 0
            BY <1>2, <3>1 DEF Traded
          <6>2. m.action = "SELL" => Traded(m, s) = 0
            <7>1. m.fill \in Int
              BY <1>2
            <7>2. -m.fill = 0
              BY <3>1, <7>1, MinusZero, Zenon
            <7> QED  BY <1>2, <7>2 DEF Traded
          <6> QED  BY <1>2, <6>1, <6>2
        <5> QED  BY <5>1, <5>2
      <4> QED  BY <1>1, <4>1
    <3>2. CASE m.fill # 0 /\ m.action = "BUY"
      <4>1. Held(p, m) = Bought(p, m.fill, m.at) /\ Closed(p, m) = 0
            /\ Traded(m, s) = m.fill
        BY <1>2, <1>6, <3>2 DEF Held, Closed, Traded
      <4>2. /\ PositionOk(Bought(p, m.fill, m.at))
            /\ Bought(p, m.fill, m.at).quantity = p.quantity + m.fill
            /\ Bought(p, m.fill, m.at).book = p.book + v
        <5>1. m.fill \in Nat /\ m.at \in Nat
          BY <1>2
        <5>2. /\ PositionOk(Bought(p, m.fill, m.at))
              /\ Bought(p, m.fill, m.at).quantity = p.quantity + m.fill
              /\ Bought(p, m.fill, m.at).book = p.book + m.fill * m.at
          <6> DEFINE n == m.fill
                     price == m.at
          <6> HIDE DEF n, price
          <6>1. n \in Nat /\ price \in Nat
            BY <5>1 DEF n, price
          <6>2. /\ PositionOk(Bought(p, n, price))
                /\ Bought(p, n, price).quantity = p.quantity + n
                /\ Bought(p, n, price).book = p.book + n * price
            BY <6>1, BoughtOk
          <6> QED  BY <6>2 DEF n, price
        <5> QED  BY <5>2 DEF v
      <4> QED  BY <1>1, <2>2, <3>2, <4>1, <4>2
    <3>3. CASE m.fill # 0 /\ m.action = "SELL"
      <4>1. Held(p, m) = Sold(p, m.fill, m.at) /\ Traded(m, s) = -m.fill
        BY <1>2, <1>6, <3>3 DEF Held, Traded
      <4>2. Closed(p, m) = IF p.quantity = m.fill THEN v - p.book ELSE 0
        BY <1>2, <1>6, <3>3 DEF Closed, v
      <4>3. /\ PositionOk(Sold(p, m.fill, m.at))
            /\ Sold(p, m.fill, m.at).quantity = p.quantity - m.fill
            /\ Sold(p, m.fill, m.at).book = IF p.quantity = m.fill THEN 0 ELSE p.book - v
        <5>1. m.fill \in Nat /\ m.at \in Nat /\ m.fill <= p.closable
          BY <1>2, <2>1, <3>3
        <5> DEFINE n == m.fill
                   price == m.at
        <5> HIDE DEF n, price
        <5>2. n \in Nat /\ price \in Nat /\ n <= p.closable
          BY <5>1 DEF n, price
        <5>3. /\ PositionOk(Sold(p, n, price))
              /\ Sold(p, n, price).quantity = p.quantity - n
              /\ Sold(p, n, price).book = IF p.quantity = n THEN 0 ELSE p.book - n * price
          BY <5>2, SoldOk
        <5> QED  BY <5>3 DEF n, price, v
      <4> QED  BY <1>1, <1>2, <2>2, <3>3, <4>1, <4>2, <4>3
    <3> QED  BY <1>2, <3>1, <3>2, <3>3
  <2>4. CASE m.cost = NaN
    <3>1. Paid(a, m) = [a EXCEPT !.nan = TRUE]
      BY <1>6, <2>4 DEF Paid
    <3>2. Paid(a, m) \in Account /\ Paid(a, m).nan
      BY <3>1 DEF Account
    <3> QED  BY <1>3, <1>4, <2>3, <3>2
  <2>5. CASE m.cost # NaN
    <3> DEFINE cash == a.cash - m.cost + (IF m.action = "BUY" THEN -v ELSE v)
               fees == a.fees + m.cost
    <3>1. cash \in Int /\ fees \in Nat
      <4>1. m.cost \in Nat /\ a.cash - m.cost \in Int
        BY <1>1, <1>2, <2>5 DEF NaN
      <4>2. (IF m.action = "BUY" THEN -v ELSE v) \in Int
        BY <2>2
      <4> DEFINE d == IF m.action = "BUY" THEN -v ELSE v
      <4> HIDE DEF d
      <4>3. a.cash - m.cost + d \in Int /\ a.fees + m.cost \in Nat
        BY <1>1, <4>1, <4>2 DEF d
      <4> QED  BY <4>3 DEF d
    <3>2. Paid(a, m) = [a EXCEPT !.cash = cash, !.fees = fees]
      BY <1>6, <2>2, <2>5 DEF Paid, Account
    <3>3. cash + fees = a.cash + a.fees + (IF m.action = "BUY" THEN -v ELSE v)
      BY <1>1, <1>2, <2>2
    <3> HIDE DEF cash, fees
    <3>4. Paid(a, m) \in Account /\ Paid(a, m).nan = a.nan
          /\ Paid(a, m).cash = cash /\ Paid(a, m).fees = fees
      BY <3>1, <3>2 DEF Account
    <3>5. Held(p, m).book \in Int
      BY <2>3 DEF PositionOk, Tracker
    <3>6. Worth(Paid(a, m), Held(p, m)) = Worth(a, p) + Closed(p, m)
      <4> DEFINE d == IF m.action = "BUY" THEN v ELSE -v
                 e == IF m.action = "BUY" THEN -v ELSE v
      <4>1. d \in Int /\ e = -d
        BY <2>2
      <4>2. cash + fees = a.cash + a.fees + e
        BY <3>3
      <4>3. Held(p, m).book - Closed(p, m) = p.book + d
        BY <2>3
      <4>4. cash + fees + Held(p, m).book = a.cash + a.fees + p.book + Closed(p, m)
        <5> HIDE DEF d, e
        <5> QED  BY <1>1, <2>3, <3>1, <3>5, <4>1, <4>2, <4>3
      <4> QED  BY <3>4, <4>4 DEF Worth
    <3> QED  BY <1>3, <1>4, <2>3, <3>4, <3>6
  <2> QED  BY <2>4, <2>5
<1> QED  BY <1>5, <1>6

\* the rest of an order is an order of its own
LEMMA SuborderWaits ==
    ASSUME NEW s, NEW o \in Waiting(s), NEW p, NEW m, Outcome(o, m, p),
           m.rest > 0, NEW id \in Nat
    PROVE  /\ Suborder(m, id) \in Waiting(s)
           /\ Suborder(m, id).id = id /\ Suborder(m, id).root = o.root
           /\ Suborder(m, id).action = o.action
           /\ Suborder(m, id).quantity = m.rest
<1>1. m \in OrderRec /\ m.root = o.root /\ m.symbol = s /\ m.action = o.action
      /\ o.action \in {"BUY", "SELL"}
  BY DEF Outcome, Same, Waiting
<1> DEFINE cost == IF m.fill = 0 \/ m.cost = NaN THEN NaN ELSE (m.cost * m.rest) \div m.fill
<1>2. cost \in Int /\ cost >= NaN
  <2>1. CASE m.fill = 0 \/ m.cost = NaN
    BY <2>1 DEF NaN
  <2>2. CASE ~(m.fill = 0 \/ m.cost = NaN)
    <3>1. m.cost \in Nat /\ m.rest \in Nat /\ m.fill \in Nat /\ m.fill > 0
      BY <1>1, <2>2, OrderFields DEF NaN
    <3>2. (m.cost * m.rest) \div m.fill \in Nat
      BY <3>1, Division
    <3> QED  BY <2>2, <3>2 DEF NaN
  <2> QED  BY <2>1, <2>2
<1>3. Suborder(m, id) = [id |-> id, root |-> m.root, symbol |-> m.symbol,
        action |-> m.action, quantity |-> m.rest, price |-> m.price, cost |-> cost,
        status |-> "PENDING_NEW", fill |-> 0, at |-> 0, rest |-> 0]
  BY DEF Suborder, Order
<1>4. m.root \in Nat /\ m.price \in Nat /\ m.rest \in Nat
      /\ m.symbol \in Symbol \union {None} /\ m.action \in Actions
  BY <1>1, OrderFields
<1>5. Suborder(m, id) \in OrderRec
  <2> HIDE DEF cost
  <2> QED  BY <1>2, <1>3, <1>4 DEF OrderRec, Statuses
<1> QED  BY <1>1, <1>3, <1>5 DEF Waiting


-----------------------------------------------------------------------------
(* A tick: the loop over the orders that wait.                             *)

LEMMA MatchingStep ==
    ASSUME NEW before, NEW orders, Len(orders) \in Nat, NEW t
    PROVE  /\ Matching(before, orders, t)[0] = before
           /\ \A i \in 1..Len(orders) : Matching(before, orders, t)[i]
                = Step(Matching(before, orders, t)[i - 1], orders[i], t)
<1> DEFINE P(f) == f = [i \in 0..Len(orders) |->
                        IF i = 0 THEN before ELSE Step(f[i - 1], orders[i], t)]
<1>1. Matching(before, orders, t) = CHOOSE f : P(f)
  BY DEF Matching
<1>2. \E f : P(f)
  <2> DEFINE Q(n, f) == f = [i \in 0..n |->
                              IF i = 0 THEN before ELSE Step(f[i - 1], orders[i], t)]
             S == {n \in 0..Len(orders) : \E f : Q(n, f)}
  <2>1. 0 \in S
    <3> DEFINE g == [i \in 0..0 |-> before]
    <3>1. Q(0, g)
      OBVIOUS
    <3> HIDE DEF g, Q
    <3> QED  BY <3>1
  <2>2. ASSUME NEW n \in 0..Len(orders), n < Len(orders), n \in S
        PROVE  n + 1 \in S
    <3>1. PICK f : Q(n, f)
      BY <2>2
    <3> DEFINE g == [i \in 0..n + 1 |->
                      IF i = n + 1 THEN Step(f[n], orders[n + 1], t) ELSE f[i]]
    <3>2. Q(n + 1, g)
      <4>1. ASSUME NEW i \in 0..n + 1
            PROVE  g[i] = IF i = 0 THEN before ELSE Step(g[i - 1], orders[i], t)
        <5>1. CASE i = n + 1
          <6>1. g[i] = Step(f[n], orders[n + 1], t) /\ g[i - 1] = f[n] /\ i # 0
            BY <2>2, <5>1
          <6> QED  BY <5>1, <6>1
        <5>2. CASE i \in 0..n
          <6>1. g[i] = f[i] /\ (i # 0 => g[i - 1] = f[i - 1])
            BY <2>2, <5>2
          <6>2. f[i] = IF i = 0 THEN before ELSE Step(f[i - 1], orders[i], t)
            BY <3>1, <5>2
          <6> QED  BY <6>1, <6>2
        <5> QED  BY <2>2, <5>1, <5>2
      <4> QED  BY <4>1
    <3>3. n + 1 \in 0..Len(orders)
      BY <2>2
    <3> HIDE DEF g, Q
    <3> QED  BY <3>2, <3>3
  <2>3. \A n \in 0..Len(orders) : n \in S
    <3> HIDE DEF S
    <3> QED  BY <2>1, <2>2, Induct
  <2>4. Len(orders) \in 0..Len(orders)
    OBVIOUS
  <2> QED  BY <2>3, <2>4
<1>3. P(CHOOSE f : P(f))
  <2> HIDE DEF P
  <2> QED  BY <1>2
<1>4. P(Matching(before, orders, t))
  <2> HIDE DEF P
  <2> QED  BY <1>1, <1>3
<1> DEFINE f == Matching(before, orders, t)
<1>5. \A i \in 0..Len(orders) :
        f[i] = IF i = 0 THEN before ELSE Step(f[i - 1], orders[i], t)
  <2> HIDE DEF f
  <2> QED  BY <1>4 DEF f
<1> HIDE DEF f
<1>6. f[0] = before /\ \A i \in 1..Len(orders) : f[i] = Step(f[i - 1], orders[i], t)
  BY <1>5
<1> QED  BY <1>6 DEF f

LoopTypes(st, s) ==
    /\ st.account \in Account /\ PositionOk(st.position) /\ st.realised \in Int
    /\ st.filled \in Seq(Done)
    /\ st.kept \in Seq(Waiting(s)) /\ st.parts \in Seq(Waiting(s))
    /\ st.id \in Nat

LoopStart(before, s) ==
    LoopTypes(before, s) /\ before.kept = << >> /\ before.parts = << >>

AllShares(st, r) ==
    Total(Shares(st.filled, r)) + Total(Shares(st.kept, r)) + Total(Shares(st.parts, r))

\* of the first i orders everything is in what is filled, kept and left over;
\* what is not among the orders is as it was
LoopShares(st, before, orders, i) ==
    \A r \in Nat :
        /\ AllShares(st, r) = AllShares(before, r) + Sums(Shares(orders, r))[i]
        /\ (\A j \in 1..Len(orders) : orders[j].root # r) =>
                Total(Shares(st.filled, r)) = Total(Shares(before.filled, r))

LoopTrades(st, before, s) ==
    /\ st.position.quantity - Total(Trades(st.filled, s))
       = before.position.quantity - Total(Trades(before.filled, s))
    /\ \A u \in Symbol : u # s =>
            Total(Trades(st.filled, u)) = Total(Trades(before.filled, u))

LoopBooks(st, before) ==
    ~st.account.nan =>
        /\ ~before.account.nan
        /\ Worth(st.account, st.position) - st.realised - Total(Payments(st.filled))
           = Worth(before.account, before.position) - before.realised
             - Total(Payments(before.filled))

\* m is o, or a part of it with an id given since first
From(m, o, first, last) ==
    /\ m.root = o.root /\ m.symbol = o.symbol /\ m.action = o.action
    /\ \/ m.id = o.id /\ m.quantity = o.quantity
       \/ first < m.id /\ m.id <= last

LoopOrders(st, before, orders) ==
    /\ before.id <= st.id
    /\ \A m \in ToSet(st.filled) \union ToSet(st.kept) \union ToSet(st.parts) :
        \/ m \in ToSet(before.filled)
        \/ \E o \in ToSet(orders) : From(m, o, before.id, st.id)

LoopInv(st, before, orders, s, i) ==
    /\ LoopTypes(st, s)
    /\ LoopShares(st, before, orders, i)
    /\ LoopTrades(st, before, s)
    /\ LoopBooks(st, before)
    /\ LoopOrders(st, before, orders)

\* what becomes of an order has its shares
LEMMA OutcomeShares ==
    ASSUME NEW s \in Symbol, NEW o \in Waiting(s), NEW p, NEW m, Outcome(o, m, p),
           NEW id \in Nat, NEW r
    PROVE  /\ m.status = "PENDING_NEW" => m = o
           /\ m.status # "PENDING_NEW" => m \in Done
           /\ m.rest > 0 => m.status = "FILLED"
           /\ Share(o, r) =
                Share(m, r) + (IF m.rest > 0 THEN Share(Suborder(m, id), r) ELSE 0)
           /\ o.root # r => Share(m, r) = 0
<1>1. o \in OrderRec /\ o.status = "PENDING_NEW" /\ o.rest = 0 /\ o.symbol = s
  BY DEF Waiting
<1>2. m \in OrderRec /\ m.root = o.root /\ m.symbol = s
  BY <1>1 DEF Outcome, Same
<1>3. /\ o.quantity \in Nat /\ m.quantity \in Nat /\ m.fill \in Nat /\ m.rest \in Nat
      /\ m.status \in Statuses /\ m.symbol \in Symbol \union {None}
  BY <1>1, <1>2, OrderFields
<1>4. CASE m = o
  <2>1. m.rest = 0 /\ m.status = "PENDING_NEW" /\ Share(m, r) = Share(o, r)
        /\ Share(m, r) \in Int /\ ~(m.rest > 0)
    BY <1>1, <1>4, Amounts
  <2> QED  BY <1>2, <1>4, <2>1 DEF Share
<1>5. CASE Same(o, m) /\ m.status = "REJECTED" /\ m.fill = 0 /\ m.rest = 0
  <2>1. m \in Done
    BY <1>2, <1>5 DEF Done
  <2>2. Share(m, r) = Share(o, r) /\ Share(m, r) \in Int /\ ~(m.rest > 0)
    BY <1>1, <1>2, <1>5, Amounts DEF Share, Same
  <2> QED  BY <1>2, <1>5, <2>1, <2>2 DEF Share
<1>6. CASE Same(o, m) /\ m.status = "FILLED" /\ m.fill + m.rest = m.quantity
  <2>1. m \in Done
    BY <1>2, <1>6 DEF Done
  <2>2. Share(m, r) = IF o.root # r THEN 0 ELSE m.fill
    BY <1>2, <1>6 DEF Share
  <2>3. Share(o, r) = IF o.root # r THEN 0 ELSE o.quantity
    BY <1>1 DEF Share
  <2>4. o.quantity = m.fill + m.rest
    BY <1>6 DEF Same
  <2>5. CASE m.rest > 0
    <3>1. Suborder(m, id) \in Waiting(s) /\ Suborder(m, id).root = o.root
          /\ Suborder(m, id).quantity = m.rest
      BY <2>5, SuborderWaits
    <3>2. Share(Suborder(m, id), r) = IF o.root # r THEN 0 ELSE m.rest
      BY <3>1 DEF Share, Waiting
    <3> QED  BY <1>3, <1>6, <2>1, <2>2, <2>3, <2>4, <2>5, <3>2
  <2>6. CASE ~(m.rest > 0)
    BY <1>3, <1>6, <2>1, <2>2, <2>3, <2>4, <2>6
  <2> QED  BY <2>5, <2>6
<1> QED  BY <1>4, <1>5, <1>6 DEF Outcome


LEMMA OrderSeqs ==
    ASSUME NEW a, NEW s
    PROVE  /\ a \in Seq(Done) => a \in Seq(OrderRec)
           /\ a \in Seq(Waiting(s)) => a \in Seq(OrderRec)
<1>1. Done \subseteq OrderRec /\ Waiting(s) \subseteq OrderRec
  BY DEF Done, Waiting
<1> QED  BY <1>1, SeqMonotonic

LEMMA SharesAtStart ==
    ASSUME NEW s, NEW before, LoopStart(before, s), NEW r
    PROVE  /\ AllShares(before, r) = Total(Shares(before.filled, r))
           /\ AllShares(before, r) \in Int
<1>1. before.filled \in Seq(OrderRec)
  BY OrderSeqs DEF LoopStart, LoopTypes
<1>2. Total(Shares(before.filled, r)) \in Int
  BY <1>1, TotalsType
<1>3. AllShares(before, r) = Total(Shares(before.filled, r)) + 0 + 0
  BY NoOrders DEF AllShares, LoopStart
<1> QED  BY <1>2, <1>3

LEMMA LoopStep ==
    ASSUME NEW s \in Symbol, NEW t \in Quote, NEW orders \in Seq(Waiting(s)),
           NEW before, LoopStart(before, s), NEW i \in 1..Len(orders), NEW st,
           LoopInv(st, before, orders, s, i - 1),
           NEW next, next = Step(st, orders[i], t)
    PROVE  LoopInv(next, before, orders, s, i)
<1> DEFINE o == orders[i]
           m == IF o.action = "BUY" THEN MatchBuy(o, t, st.account)
                ELSE MatchSell(o, t, st.position)
           sub == Suborder(m, st.id + 1)
<1>1. /\ o \in Waiting(s) /\ o \in OrderRec /\ o \in ToSet(orders)
      /\ Len(orders) \in Nat /\ orders \in Seq(OrderRec)
      /\ o.action \in {"BUY", "SELL"}
  BY LenProperties, ElementOfSeq, ToSetElements, OrderSeqs DEF Waiting
<1>2. /\ st.filled \in Seq(Done) /\ st.kept \in Seq(Waiting(s))
      /\ st.parts \in Seq(Waiting(s))
  BY DEF LoopInv, LoopTypes
<1>a. st.account \in Account /\ PositionOk(st.position)
  BY DEF LoopInv, LoopTypes
<1>b. st.id \in Nat /\ st.realised \in Int
  BY DEF LoopInv, LoopTypes
<1>3. st.position.closable \in Nat /\ st.position.quantity \in Int
      /\ st.position.book \in Int
  BY <1>a DEF PositionOk, Tracker
<1>4. /\ st.filled \in Seq(OrderRec) /\ st.kept \in Seq(OrderRec)
      /\ st.parts \in Seq(OrderRec)
  BY <1>2, OrderSeqs
<1>5. Outcome(o, m, st.position)
  <2>1. CASE o.action = "BUY"
    BY <1>1, <2>1, MatchBuyOrder
  <2>2. CASE o.action # "BUY"
    BY <1>1, <1>3, <2>2, MatchSellOrder
  <2> QED  BY <2>1, <2>2
<1> DEFINE done == m.status # "PENDING_NEW"
           split == m.rest > 0
<1>6. next.account = Paid(st.account, m) /\ next.position = Held(st.position, m)
      /\ next.realised = st.realised + Closed(st.position, m)
  BY DEF Step
<1>7. next.filled = IF done THEN Append(st.filled, m) ELSE st.filled
  BY DEF Step
<1>8. next.kept = IF done THEN st.kept ELSE Append(st.kept, m)
  BY DEF Step
<1>9. next.parts = IF split THEN Append(st.parts, sub) ELSE st.parts
  BY DEF Step
<1>10. next.id = IF split THEN st.id + 1 ELSE st.id
  BY DEF Step
<1> HIDE DEF o, m
<1>11. /\ m \in OrderRec /\ m.root = o.root /\ m.symbol = o.symbol /\ m.action = o.action
       /\ m.id = o.id /\ m.quantity = o.quantity
  BY <1>1, <1>5 DEF Outcome, Same
<1>12. st.id + 1 \in Nat
  BY <1>b
<1>13. /\ ~done => m = o
       /\ done => m \in Done
       /\ \A r : Share(o, r) = Share(m, r) + (IF split THEN Share(sub, r) ELSE 0)
       /\ \A r : o.root # r => Share(m, r) = 0
  BY <1>1, <1>5, <1>12, OutcomeShares
<1>14. split => /\ sub \in Waiting(s) /\ sub.id = st.id + 1 /\ sub.root = o.root
                /\ sub.action = o.action
  BY <1>1, <1>5, <1>12, SuborderWaits
<1>15. split => sub \in OrderRec /\ sub.symbol = o.symbol
  BY <1>1, <1>14 DEF Waiting
<1> HIDE DEF sub, split
<1>16. /\ Paid(st.account, m) \in Account
       /\ PositionOk(Held(st.position, m))
       /\ Closed(st.position, m) \in Int
       /\ Held(st.position, m).quantity = st.position.quantity + Traded(m, s)
       /\ \A u : u # s => Traded(m, u) = 0
       /\ PaidIn(m) = 0
       /\ ~Paid(st.account, m).nan =>
            /\ ~st.account.nan
            /\ Worth(Paid(st.account, m), Held(st.position, m))
               = Worth(st.account, st.position) + Closed(st.position, m)
  BY <1>1, <1>a, <1>5, PaidAndHeld
<1>17. ~done => \A u : Traded(m, u) = 0
  BY DEF Traded
<1> HIDE DEF done
<1>18. LoopTypes(next, s)
  <2>1. next.filled \in Seq(Done)
    BY <1>2, <1>7, <1>13, AppendProperties
  <2>2. next.kept \in Seq(Waiting(s))
    BY <1>1, <1>2, <1>8, <1>13, AppendProperties
  <2>3. next.parts \in Seq(Waiting(s))
    BY <1>2, <1>9, <1>14, AppendProperties
  <2>4. next.realised \in Int /\ next.id \in Nat
    BY <1>b, <1>6, <1>10, <1>12, <1>16
  <2> QED  BY <1>6, <1>16, <2>1, <2>2, <2>3, <2>4 DEF LoopTypes
<1>19. LoopShares(next, before, orders, i)
  <2> SUFFICES ASSUME NEW r \in Nat
               PROVE  /\ AllShares(next, r)
                         = AllShares(before, r) + Sums(Shares(orders, r))[i]
                      /\ (\A j \in 1..Len(orders) : orders[j].root # r) =>
                            Total(Shares(next.filled, r)) = Total(Shares(before.filled, r))
    BY DEF LoopShares
  <2> DEFINE F == Total(Shares(st.filled, r))
             K == Total(Shares(st.kept, r))
             P == Total(Shares(st.parts, r))
  <2>1. F \in Int /\ K \in Int /\ P \in Int
    BY <1>4, TotalsType
  <2>2. /\ F + K + P = AllShares(before, r) + Sums(Shares(orders, r))[i - 1]
        /\ (\A j \in 1..Len(orders) : orders[j].root # r) =>
                F = Total(Shares(before.filled, r))
    BY DEF LoopInv, LoopShares, AllShares
  <2>3. /\ Sums(Shares(orders, r))[i] = Sums(Shares(orders, r))[i - 1] + Share(o, r)
        /\ Sums(Shares(orders, r))[i - 1] \in Int
    <3>1. Shares(orders, r) \in Seq(Int) /\ Len(Shares(orders, r)) = Len(orders)
          /\ i - 1 \in 0..Len(orders)
      BY <1>1, AmountSeqs
    <3>2. Shares(orders, r)[i] = Share(o, r)
      BY DEF Shares, o
    <3> QED  BY <3>1, <3>2, SumsStep, SumsType
  <2> DEFINE new == Share(m, r)
             rest == IF split THEN Share(sub, r) ELSE 0
  <2>4. Share(o, r) = new + rest /\ new \in Int /\ rest \in Int
    <3>1. new \in Int
      BY <1>11, Amounts
    <3>2. rest \in Int
      BY <1>15, Amounts
    <3> QED  BY <1>13, <3>1, <3>2
  <2>5. Total(Shares(next.filled, r)) = IF done THEN F + new ELSE F
    BY <1>4, <1>7, <1>11, TotalsMore
  <2>6. Total(Shares(next.kept, r)) = IF done THEN K ELSE K + new
    BY <1>4, <1>8, <1>11, TotalsMore
  <2>7. Total(Shares(next.parts, r)) = P + rest
    <3>1. CASE split
      BY <1>4, <1>9, <1>15, <3>1, TotalsMore
    <3>2. CASE ~split
      BY <1>9, <2>1, <3>2
    <3> QED  BY <3>1, <3>2
  <2>8. AllShares(before, r) \in Int
    BY SharesAtStart
  <2>9. AllShares(next, r) = Total(Shares(next.filled, r))
                             + Total(Shares(next.kept, r)) + Total(Shares(next.parts, r))
    BY DEF AllShares
  <2>10. ASSUME \A j \in 1..Len(orders) : orders[j].root # r
         PROVE  Total(Shares(next.filled, r)) = Total(Shares(before.filled, r))
    <3>1. o.root # r
      BY <2>10 DEF o
    <3>2. new = 0
      BY <1>13, <3>1
    <3> HIDE DEF F, new
    <3> QED  BY <2>1, <2>2, <2>5, <2>10, <3>2
  <2> HIDE DEF F, K, P, new, rest
  <2>11. AllShares(next, r) = F + K + P + Share(o, r)
    <3>1. CASE done
      BY <2>1, <2>4, <2>5, <2>6, <2>7, <2>9, <3>1
    <3>2. CASE ~done
      BY <2>1, <2>4, <2>5, <2>6, <2>7, <2>9, <3>2
    <3> QED  BY <3>1, <3>2
  <2>12. AllShares(next, r) = AllShares(before, r) + Sums(Shares(orders, r))[i]
    <3> DEFINE A == AllShares(before, r)
               B == Sums(Shares(orders, r))[i - 1]
    <3>1. A \in Int /\ B \in Int /\ Share(o, r) \in Int
      BY <2>3, <2>4, <2>8
    <3>2. F + K + P = A + B
      BY <2>2
    <3>3. Sums(Shares(orders, r))[i] = B + Share(o, r)
      BY <2>3
    <3> HIDE DEF A, B
    <3>4. AllShares(next, r) = A + (B + Share(o, r))
      BY <2>1, <2>11, <3>1, <3>2
    <3> QED  BY <3>3, <3>4 DEF A
  <2> QED  BY <2>10, <2>12
<1>20. \A u : /\ Total(Trades(next.filled, u)) = Total(Trades(st.filled, u)) + Traded(m, u)
              /\ Total(Trades(st.filled, u)) \in Int /\ Traded(m, u) \in Int
  <2> SUFFICES ASSUME NEW u
               PROVE  /\ Total(Trades(next.filled, u))
                         = Total(Trades(st.filled, u)) + Traded(m, u)
                      /\ Total(Trades(st.filled, u)) \in Int /\ Traded(m, u) \in Int
    OBVIOUS
  <2>1. Total(Trades(st.filled, u)) \in Int /\ Traded(m, u) \in Int
    BY <1>4, <1>11, TotalsType, Amounts
  <2>2. CASE done
    BY <1>4, <1>7, <1>11, <2>1, <2>2, TotalsMore
  <2>3. CASE ~done
    <3>1. next.filled = st.filled /\ Traded(m, u) = 0
      BY <1>7, <1>17, <2>3
    <3> QED  BY <2>1, <3>1
  <2> QED  BY <2>2, <2>3
<1>21. LoopTrades(next, before, s)
  <2>1. LoopTrades(st, before, s)
    BY DEF LoopInv
  <2>2. next.position.quantity = st.position.quantity + Traded(m, s)
    BY <1>6, <1>16
  <2>3. next.position.quantity - Total(Trades(next.filled, s))
        = st.position.quantity - Total(Trades(st.filled, s))
    <3>1. /\ Total(Trades(next.filled, s)) = Total(Trades(st.filled, s)) + Traded(m, s)
          /\ Total(Trades(st.filled, s)) \in Int /\ Traded(m, s) \in Int
      BY <1>20
    <3> QED  BY <1>3, <2>2, <3>1
  <2>4. ASSUME NEW u \in Symbol, u # s
        PROVE  Total(Trades(next.filled, u)) = Total(Trades(before.filled, u))
    <3>1. Traded(m, u) = 0
      BY <1>16, <2>4
    <3>2. Total(Trades(next.filled, u)) = Total(Trades(st.filled, u))
      BY <1>20, <3>1
    <3> QED  BY <2>1, <2>4, <3>2 DEF LoopTrades
  <2> QED  BY <2>1, <2>3, <2>4 DEF LoopTrades
<1>22. LoopBooks(next, before)
  <2>1. Total(Payments(next.filled)) = Total(Payments(st.filled))
    <3>1. Total(Payments(st.filled)) \in Int
      BY <1>4, TotalsType
    <3>2. CASE done
      <4>1. Total(Payments(Append(st.filled, m))) = Total(Payments(st.filled)) + PaidIn(m)
        BY <1>4, <1>11, TotalsMore
      <4> QED  BY <1>7, <1>16, <3>1, <3>2, <4>1
    <3>3. CASE ~done
      BY <1>7, <3>3
    <3> QED  BY <3>2, <3>3
  <2>2. Worth(st.account, st.position) \in Int
    <3>1. st.account.cash \in Int /\ st.account.fees \in Int
      BY <1>a DEF Account
    <3> QED  BY <1>3, <3>1 DEF Worth
  <2>3. ASSUME ~next.account.nan
        PROVE  /\ ~st.account.nan
               /\ Worth(next.account, next.position) - next.realised
                  = Worth(st.account, st.position) - st.realised
    <3>1. /\ ~st.account.nan
          /\ Worth(next.account, next.position)
             = Worth(st.account, st.position) + Closed(st.position, m)
      BY <1>6, <1>16, <2>3
    <3>2. Closed(st.position, m) \in Int
      BY <1>16
    <3> QED  BY <1>b, <1>6, <2>2, <3>1, <3>2
  <2>4. LoopBooks(st, before)
    BY DEF LoopInv
  <2> QED  BY <2>1, <2>3, <2>4 DEF LoopBooks
<1>23. LoopOrders(next, before, orders)
  <2>1. /\ before.id <= st.id
        /\ \A x \in ToSet(st.filled) \union ToSet(st.kept) \union ToSet(st.parts) :
            \/ x \in ToSet(before.filled)
            \/ \E y \in ToSet(orders) : From(x, y, before.id, st.id)
    BY DEF LoopInv, LoopOrders
  <2>2. before.id <= next.id /\ st.id <= next.id /\ next.id \in Nat
    <3>1. before.id \in Nat /\ before.id <= st.id
      BY <2>1 DEF LoopStart, LoopTypes
    <3>2. CASE split
      BY <1>b, <1>10, <3>1, <3>2
    <3>3. CASE ~split
      BY <1>b, <1>10, <3>1, <3>3
    <3> QED  BY <3>2, <3>3
  <2>3. /\ ToSet(next.filled) \subseteq ToSet(st.filled) \union {m}
        /\ ToSet(next.kept) \subseteq ToSet(st.kept) \union {m}
        /\ split => ToSet(next.parts) = ToSet(st.parts) \union {sub}
        /\ ~split => ToSet(next.parts) = ToSet(st.parts)
    <3>1. ToSet(next.filled) \subseteq ToSet(st.filled) \union {m}
      BY <1>4, <1>7, <1>11, ToSetAppend
    <3>2. ToSet(next.kept) \subseteq ToSet(st.kept) \union {m}
      BY <1>4, <1>8, <1>11, ToSetAppend
    <3>3. split => ToSet(next.parts) = ToSet(st.parts) \union {sub}
      BY <1>4, <1>9, <1>15, ToSetAppend
    <3>4. ~split => ToSet(next.parts) = ToSet(st.parts)
      BY <1>9
    <3> QED  BY <3>1, <3>2, <3>3, <3>4
  <2>4. From(m, o, before.id, next.id)
    BY <1>11 DEF From
  <2>5. ASSUME split
        PROVE  From(sub, o, before.id, next.id)
    <3>1. before.id < st.id + 1 /\ next.id = st.id + 1 /\ st.id + 1 <= next.id
      <4>1. before.id \in Nat /\ before.id <= st.id
        BY <2>1 DEF LoopStart, LoopTypes
      <4> QED  BY <1>b, <1>10, <2>5, <4>1
    <3>2. sub.id = st.id + 1 /\ sub.root = o.root /\ sub.action = o.action
          /\ sub.symbol = o.symbol
      BY <1>14, <1>15, <2>5
    <3> QED  BY <3>1, <3>2 DEF From
  <2>6. ASSUME NEW x \in ToSet(next.filled) \union ToSet(next.kept) \union ToSet(next.parts)
        PROVE  \/ x \in ToSet(before.filled)
               \/ \E y \in ToSet(orders) : From(x, y, before.id, next.id)
    <3>1. CASE x = m
      BY <1>1, <2>4, <3>1
    <3>2. CASE split /\ x = sub
      BY <1>1, <2>5, <3>2
    <3>3. CASE x \in ToSet(st.filled) \union ToSet(st.kept) \union ToSet(st.parts)
      <4>1. CASE x \in ToSet(before.filled)
        BY <4>1
      <4>2. CASE \E y \in ToSet(orders) : From(x, y, before.id, st.id)
        <5>1. PICK y \in ToSet(orders) : From(x, y, before.id, st.id)
          BY <4>2
        <5>2. x.id \in Nat
          <6>1. x \in OrderRec
            BY <1>4, <3>3, ToSetElements
          <6> QED  BY <6>1, OrderFields
        <5>3. From(x, y, before.id, next.id)
          BY <1>b, <2>2, <5>1, <5>2 DEF From
        <5> QED  BY <5>3
      <4> QED  BY <2>1, <3>3, <4>1, <4>2
    <3> QED  BY <2>3, <2>6, <3>1, <3>2, <3>3
  <2> QED  BY <2>2, <2>6 DEF LoopOrders
<1> QED  BY <1>18, <1>19, <1>21, <1>22, <1>23 DEF LoopInv

LEMMA Loop ==
    ASSUME NEW s \in Symbol, NEW t \in Quote, NEW orders \in Seq(Waiting(s)),
           NEW before, LoopStart(before, s)
    PROVE  \A i \in 0..Len(orders) :
                LoopInv(Matching(before, orders, t)[i], before, orders, s, i)
<1> DEFINE st == Matching(before, orders, t)
           S == {i \in 0..Len(orders) : LoopInv(st[i], before, orders, s, i)}
<1>1. Len(orders) \in Nat /\ orders \in Seq(OrderRec)
  BY LenProperties, OrderSeqs
<1>2. LoopTypes(before, s) /\ before.kept = << >> /\ before.parts = << >>
      /\ before.id \in Nat
  BY DEF LoopStart, LoopTypes
<1>3. \A r : AllShares(before, r) \in Int
  BY SharesAtStart
<1>4. st[0] = before /\ \A i \in 1..Len(orders) : st[i] = Step(st[i - 1], orders[i], t)
  BY <1>1, MatchingStep
<1> HIDE DEF st
<1>5. LoopInv(before, before, orders, s, 0)
  <2>1. LoopShares(before, before, orders, 0)
    <3>1. \A r \in Nat : Sums(Shares(orders, r))[0] = 0
      BY <1>1, AmountSeqs, SumsStep
    <3> QED  BY <1>3, <3>1 DEF LoopShares
  <2>2. LoopOrders(before, before, orders)
    <3>1. ToSet(before.kept) = {} /\ ToSet(before.parts) = {}
      <4>1. DOMAIN << >> = {}
        OBVIOUS
      <4> QED  BY <1>2, <4>1 DEF ToSet
    <3> QED  BY <1>2, <3>1 DEF LoopOrders
  <2>3. LoopTrades(before, before, s) /\ LoopBooks(before, before)
    BY DEF LoopTrades, LoopBooks
  <2> QED  BY <1>2, <2>1, <2>2, <2>3 DEF LoopInv
<1>6. 0 \in S
  BY <1>1, <1>4, <1>5
<1>7. ASSUME NEW i \in 0..Len(orders), i < Len(orders), i \in S
      PROVE  i + 1 \in S
  <2>1. i + 1 \in 1..Len(orders) /\ i + 1 - 1 = i /\ i + 1 \in 0..Len(orders)
    BY <1>1, <1>7
  <2>2. st[i + 1] = Step(st[i], orders[i + 1], t)
    BY <1>4, <2>1
  <2>3. LoopInv(st[i], before, orders, s, i + 1 - 1)
    BY <1>7, <2>1
  <2>4. LoopInv(st[i + 1], before, orders, s, i + 1)
    BY <2>1, <2>2, <2>3, LoopStep
  <2> QED  BY <2>1, <2>4
<1>8. \A i \in 0..Len(orders) : i \in S
  <2> HIDE DEF S
  <2> QED  BY <1>1, <1>6, <1>7, Induct
<1> QED  BY <1>8 DEF st

-----------------------------------------------------------------------------
(* The positions' book values.                                             *)

LEMMA Listed ==
    /\ SetToSeq(Symbol) \in Seq(Symbol)
    /\ \A s \in Symbol : \E k \in 1..Len(SetToSeq(Symbol)) : SetToSeq(Symbol)[k] = s
    /\ \A i, k \in 1..Len(SetToSeq(Symbol)) :
            SetToSeq(Symbol)[i] = SetToSeq(Symbol)[k] => i = k
<1> DEFINE n == Cardinality(Symbol)
           f == SetToSeq(Symbol)
<1>1. IsFiniteSet(Symbol) /\ n \in Nat /\ ExistsBijection(1..n, Symbol)
  BY BrokerAssumption, FS_CardinalityType
<1>2. \E g \in [1..n -> Symbol] : IsInjective(g)
  <2>1. PICK g \in Bijection(1..n, Symbol) : TRUE
    BY <1>1 DEF ExistsBijection
  <2>2. g \in [1..n -> Symbol] /\ \A a, b \in 1..n : g[a] = g[b] => a = b
    BY <2>1 DEF Bijection, Injection, IsInjective
  <2> QED  BY <2>2 DEF IsInjective
<1>3. f \in [1..n -> Symbol] /\ IsInjective(f)
  BY <1>2 DEF SetToSeq
<1>4. IsFiniteSet(1..n) /\ Cardinality(1..n) = n
  BY <1>1, FS_Interval
<1> HIDE DEF f, n
<1>5. f \in Injection(1..n, Symbol)
  BY <1>3 DEF Injection, IsInjective
<1>6. f \in Surjection(1..n, Symbol)
  BY <1>1, <1>4, <1>5, FS_Injection DEF n
<1>7. f \in Seq(Symbol) /\ Len(f) = n
  BY <1>1, <1>3
<1>8. \A s \in Symbol : \E k \in 1..n : f[k] = s
  BY <1>6 DEF Surjection
<1>9. \A i, k \in 1..n : f[i] = f[k] => i = k
  BY <1>3 DEF IsInjective
<1> QED  BY <1>7, <1>8, <1>9 DEF f

BooksOf(p) == [i \in 1..Len(SetToSeq(Symbol)) |-> p[SetToSeq(Symbol)[i]].book]

LEMMA BooksOfType ==
    ASSUME NEW p \in [Symbol -> Tracker]
    PROVE  BooksOf(p) \in Seq(Int) /\ Len(BooksOf(p)) = Len(SetToSeq(Symbol))
           /\ Total(BooksOf(p)) \in Int
<1> DEFINE f == SetToSeq(Symbol)
<1>1. f \in Seq(Symbol)
  BY Listed
<1> HIDE DEF f
<1>2. Len(f) \in Nat /\ \A i \in 1..Len(f) : p[f[i]].book \in Int
  BY <1>1, LenProperties, ElementOfSeq DEF Tracker
<1>3. BooksOf(p) = [i \in 1..Len(f) |-> p[f[i]].book]
  BY DEF BooksOf, f
<1>4. BooksOf(p) \in Seq(Int) /\ Len(BooksOf(p)) = Len(f)
  BY <1>2, <1>3
<1> QED  BY <1>4, TotalType DEF f

LEMMA BooksSame ==
    ASSUME NEW p \in [Symbol -> Tracker], NEW q \in [Symbol -> Tracker],
           \A s \in Symbol : q[s].book = p[s].book
    PROVE  BooksOf(q) = BooksOf(p)
<1>1. \A i \in 1..Len(SetToSeq(Symbol)) : SetToSeq(Symbol)[i] \in Symbol
  BY Listed, ElementOfSeq
<1> QED  BY <1>1 DEF BooksOf

LEMMA BooksChanged ==
    ASSUME NEW p \in [Symbol -> Tracker], NEW s \in Symbol, NEW x \in Tracker
    PROVE  Total(BooksOf([p EXCEPT ![s] = x])) = Total(BooksOf(p)) + (x.book - p[s].book)
<1> DEFINE f == SetToSeq(Symbol)
           q == [p EXCEPT ![s] = x]
<1>1. PICK k \in 1..Len(f) : f[k] = s
  BY Listed
<1>2. f \in Seq(Symbol) /\ \A i, j \in 1..Len(f) : f[i] = f[j] => i = j
  BY Listed
<1>3. q \in [Symbol -> Tracker]
  OBVIOUS
<1>4. BooksOf(p) = [i \in 1..Len(f) |-> p[f[i]].book]
      /\ BooksOf(q) = [i \in 1..Len(f) |-> q[f[i]].book]
  BY DEF BooksOf
<1>5. /\ BooksOf(p) \in Seq(Int) /\ Len(BooksOf(p)) = Len(f)
      /\ BooksOf(q) \in Seq(Int) /\ Len(BooksOf(q)) = Len(f)
  BY <1>3, BooksOfType
<1> HIDE DEF f
<1>6. BooksOf(q)[k] = x.book /\ BooksOf(p)[k] = p[s].book
  BY <1>1, <1>4
<1>7. ASSUME NEW i \in 1..Len(f), i # k
      PROVE  BooksOf(q)[i] = BooksOf(p)[i]
  <2>1. f[i] \in Symbol /\ f[i] # s
    BY <1>1, <1>2, <1>7, ElementOfSeq
  <2> QED  BY <1>4, <2>1
<1> HIDE DEF q
<1>8. Total(BooksOf(q)) = Total(BooksOf(p)) + (BooksOf(q)[k] - BooksOf(p)[k])
  BY <1>1, <1>5, <1>7, TotalChanged
<1> QED  BY <1>6, <1>8 DEF q


-----------------------------------------------------------------------------
(* The invariant.                                                          *)

BrokerTypes ==
    /\ account \in Account
    /\ position \in [Symbol -> Tracker]
    /\ \A s \in Symbol : PositionOk(position[s])
    /\ unfilled \in [Symbol -> Seq(OrderRec)]
    /\ \A s \in Symbol : unfilled[s] \in Seq(Waiting(s))
    /\ filled \in Seq(Done)
    /\ lastId \in 0..MaxId /\ realised \in Int

\* what an order is a part of came before it
Ids == \A o \in Orders : o.root <= o.id /\ o.id <= lastId

RootsAgree == \A o, u \in Orders : o.root = u.root => o.symbol = u.symbol

BrokerInv ==
    /\ BrokerTypes
    /\ Ids
    /\ RootsAgree
    /\ OrderConserved
    /\ PositionIsTraded
    /\ BooksBalance

LEMMA InOrders ==
    ASSUME BrokerTypes
    PROVE  /\ \A o \in Orders : /\ o \in OrderRec
                                /\ o.id \in Nat /\ o.root \in Nat /\ o.quantity \in Nat
                                /\ o.action \in {"BUY", "SELL"} => o.symbol \in Symbol
           /\ ToSet(filled) \subseteq Orders
           /\ \A s \in Symbol : ToSet(unfilled[s]) \subseteq Orders
           /\ filled \in Seq(OrderRec) /\ \A s \in Symbol : unfilled[s] \in Seq(OrderRec)
<1>1. filled \in Seq(OrderRec) /\ \A s \in Symbol : unfilled[s] \in Seq(OrderRec)
  BY OrderSeqs DEF BrokerTypes
<1>2. \A o \in ToSet(filled) : o \in Done
  BY ToSetElements DEF BrokerTypes
<1>3. \A s \in Symbol : \A o \in ToSet(unfilled[s]) : o \in Waiting(s)
  BY ToSetElements DEF BrokerTypes
<1>4. \A o \in Orders : o \in OrderRec /\ (o.action \in {"BUY", "SELL"} => o.symbol \in Symbol)
  BY <1>2, <1>3 DEF Orders, Done, Waiting
<1>5. ToSet(filled) \subseteq Orders /\ \A s \in Symbol : ToSet(unfilled[s]) \subseteq Orders
  BY DEF Orders
<1> QED  BY <1>1, <1>4, <1>5, OrderFields

LEMMA BooksOfPosition ==
    Books = BooksOf(position)
BY DEF Books, BooksOf

LEMMA InitBroker ==
    ASSUME Init
    PROVE  BrokerInv
<1>1. Orders = {}
  <2>1. ToSet(<< >>) = {}
    <3>1. DOMAIN << >> = {}
      OBVIOUS
    <3> QED  BY <3>1 DEF ToSet
  <2>2. \A s \in Symbol : ToSet(unfilled[s]) = {}
    BY <2>1 DEF Init
  <2> QED  BY <2>1, <2>2 DEF Orders, Init
<1>2. BrokerTypes
  <2>1. account \in Account /\ position \in [Symbol -> Tracker]
        /\ \A s \in Symbol : PositionOk(position[s])
    BY DEF Init, Account, Tracker, PositionOk
  <2>2. unfilled \in [Symbol -> Seq(OrderRec)]
        /\ \A s \in Symbol : unfilled[s] \in Seq(Waiting(s))
    <3>1. << >> \in Seq(OrderRec) /\ \A s : << >> \in Seq(Waiting(s))
      BY EmptySeq
    <3> QED  BY <3>1 DEF Init
  <2>3. filled \in Seq(Done)
    BY EmptySeq DEF Init
  <2>4. lastId \in 0..MaxId /\ realised \in Int
    BY BrokerAssumption DEF Init
  <2> QED  BY <2>1, <2>2, <2>3, <2>4 DEF BrokerTypes
<1>3. Ids /\ RootsAgree /\ OrderConserved
  BY <1>1 DEF Ids, RootsAgree, OrderConserved
<1>4. PositionIsTraded
  BY NoOrders DEF Init, PositionIsTraded
<1>5. BooksBalance
  <2>1. Total(Books) = 0
    <3>1. position \in [Symbol -> Tracker]
      BY <1>2 DEF BrokerTypes
    <3>2. BooksOf(position) \in Seq(Int)
          /\ Len(BooksOf(position)) = Len(SetToSeq(Symbol))
      BY <3>1, BooksOfType
    <3>3. \A i \in 1..Len(SetToSeq(Symbol)) : BooksOf(position)[i] = 0
      <4>1. \A i \in 1..Len(SetToSeq(Symbol)) : SetToSeq(Symbol)[i] \in Symbol
        BY Listed, ElementOfSeq
      <4> QED  BY <4>1 DEF BooksOf, Init
    <3> QED  BY <3>2, <3>3, TotalZero, BooksOfPosition
  <2>2. account.cash = 0 /\ account.fees = 0 /\ realised = 0 /\ filled = << >>
    BY DEF Init
  <2> QED  BY <2>1, <2>2, NoOrders DEF BooksBalance
<1> QED  BY <1>2, <1>3, <1>4, <1>5 DEF BrokerInv

-----------------------------------------------------------------------------
(* Steps.                                                                  *)

\* An order with a new id leaves the others' shares alone.
LEMMA NewRoot ==
    ASSUME BrokerInv, NEW x \in OrderRec, x.id = lastId + 1, x.root = lastId + 1
    PROVE  /\ \A o \in Orders : Share(x, o.id) = 0 /\ o.root # x.root /\ o.id # x.id
           /\ \A o \in Orders : o.id <= lastId + 1
           /\ lastId \in Nat
<1>1. lastId \in Nat
  BY BrokerAssumption DEF BrokerInv, BrokerTypes
<1>2. \A o \in Orders : o.root <= o.id /\ o.id <= lastId /\ o.id \in Nat /\ o.root \in Nat
  BY InOrders DEF BrokerInv, Ids
<1>3. \A o \in Orders : o.root # x.root /\ o.id # x.id /\ o.id # x.root /\ o.id <= lastId + 1
  BY <1>1, <1>2
<1> QED  BY <1>1, <1>3 DEF Share

\* an order that is carried out as it is committed
LEMMA SpecialStep ==
    ASSUME BrokerInv, NewId, NEW x \in Done, x.id = lastId + 1, x.root = lastId + 1,
           x.action \notin {"BUY", "SELL"},
           filled' = Append(filled, x), unfilled' = unfilled
    PROVE  /\ unfilled' \in [Symbol -> Seq(OrderRec)]
           /\ \A s \in Symbol : unfilled'[s] \in Seq(Waiting(s))
           /\ filled' \in Seq(Done) /\ lastId' \in 0..MaxId
           /\ Ids' /\ RootsAgree' /\ OrderConserved'
           /\ \A s \in Symbol :
                Total(Trades(filled, s))' = Total(Trades(filled, s)) + Traded(x, s)
           /\ Total(Payments(filled))' = Total(Payments(filled)) + PaidIn(x)
<1>1. BrokerTypes /\ filled \in Seq(OrderRec) /\ x \in OrderRec
  BY InOrders DEF BrokerInv, Done
<1>2. lastId \in Nat /\ lastId' = lastId + 1 /\ lastId' \in 0..MaxId
  BY <1>1, BrokerAssumption DEF NewId, BrokerTypes
<1>3. filled' \in Seq(Done)
  BY AppendProperties DEF BrokerInv, BrokerTypes
<1>4. Orders' = Orders \union {x}
  <2>1. ToSet(filled') = ToSet(filled) \union {x}
    BY <1>1, ToSetAppend
  <2> QED  BY <2>1 DEF Orders
<1>5. \A o \in Orders : Share(x, o.id) = 0 /\ o.root # x.root /\ o.id # x.id /\ o.id <= lastId'
  BY <1>1, <1>2, NewRoot
<1>6. Ids'
  BY <1>2, <1>4, <1>5 DEF BrokerInv, Ids
<1>7. RootsAgree'
  BY <1>4, <1>5 DEF BrokerInv, RootsAgree
<1>8. OrderConserved'
  <2> SUFFICES ASSUME NEW r \in Orders', r.id = r.root, r.action \in {"BUY", "SELL"}
               PROVE  Total(Shares(filled', r.id)) + Total(Shares(unfilled'[r.symbol], r.id))
                      = r.quantity
    BY DEF OrderConserved
  <2>1. r \in Orders
    BY <1>4
  <2>2. Total(Shares(filled, r.id)) + Total(Shares(unfilled[r.symbol], r.id)) = r.quantity
    BY <2>1 DEF BrokerInv, OrderConserved
  <2>3. Total(Shares(filled', r.id)) = Total(Shares(filled, r.id)) + Share(x, r.id)
    BY <1>1, TotalsMore
  <2>4. Share(x, r.id) = 0 /\ Total(Shares(filled, r.id)) \in Int
    BY <1>1, <1>5, <2>1, TotalsType
  <2> QED  BY <2>2, <2>3, <2>4
<1>9. /\ \A s \in Symbol : Total(Trades(filled', s)) = Total(Trades(filled, s)) + Traded(x, s)
      /\ Total(Payments(filled')) = Total(Payments(filled)) + PaidIn(x)
  BY <1>1, TotalsMore
<1> QED  BY <1>1, <1>2, <1>3, <1>6, <1>7, <1>8, <1>9 DEF BrokerTypes

\* the order Special appends
LEMMA SpecialOrder ==
    ASSUME BrokerTypes, NEW action \in {"DEPOSIT", "WITHDRAW", "DIVIDEND"},
           NEW symbol \in Symbol \union {None}, NEW quantity \in Nat, NEW price \in Nat,
           NEW status \in {"FILLED", "REJECTED"},
           Special(action, symbol, quantity, price, status)
    PROVE  \E x \in Done :
            /\ filled' = Append(filled, x)
            /\ x.id = lastId + 1 /\ x.root = lastId + 1 /\ x.action = action
            /\ x.symbol = symbol /\ x.quantity = quantity /\ x.price = price
            /\ x.status = status
<1> DEFINE x == [id |-> lastId + 1, root |-> lastId + 1, symbol |-> symbol,
                 action |-> action, quantity |-> quantity, price |-> price, cost |-> 0,
                 status |-> status, fill |-> 0, at |-> 0, rest |-> 0]
<1>1. lastId + 1 \in Nat
  BY BrokerAssumption DEF BrokerTypes
<1>2. filled' = Append(filled, x)
  <2>1. [Order(lastId + 1, lastId + 1, symbol, action, quantity, price, 0)
            EXCEPT !.status = status] = x
    BY DEF Order
  <2> QED  BY <2>1 DEF Special
<1>3. x \in OrderRec
  BY <1>1 DEF OrderRec, Actions, Statuses, NaN
<1>4. x \in Done
  BY <1>3 DEF Done
<1>5. /\ x.id = lastId + 1 /\ x.root = lastId + 1 /\ x.action = action
      /\ x.symbol = symbol /\ x.quantity = quantity /\ x.price = price
      /\ x.status = status
  OBVIOUS
<1> HIDE DEF x
<1> QED  BY <1>2, <1>4, <1>5


\* Cash and the positions: what changes is what the order says was paid in and
\* traded.
LEMMA SpecialBooks ==
    ASSUME BrokerInv, NEW x \in Done,
           account' \in Account, account'.nan = account.nan,
           account'.fees = account.fees, account'.cash = account.cash + PaidIn(x),
           position' \in [Symbol -> Tracker],
           \A s \in Symbol : position'[s].book = position[s].book,
           realised' = realised,
           Total(Payments(filled))' = Total(Payments(filled)) + PaidIn(x)
    PROVE  BooksBalance'
<1>1. account \in Account /\ position \in [Symbol -> Tracker] /\ realised \in Int
      /\ filled \in Seq(OrderRec) /\ x \in OrderRec
  BY InOrders DEF BrokerInv, BrokerTypes, Done
<1>2. Books' = Books
  <2>1. Books' = BooksOf(position')
    BY DEF Books, BooksOf
  <2> QED  BY <1>1, <2>1, BooksSame, BooksOfPosition
<1>3. Total(Books) \in Int
  BY <1>1, BooksOfType, BooksOfPosition
<1>4. Total(Payments(filled)) \in Int /\ PaidIn(x) \in Int
  BY <1>1, TotalsType, Amounts
<1>5. account.cash \in Int /\ account.fees \in Int
  BY <1>1 DEF Account
<1>6. BooksBalance
  BY DEF BrokerInv
<1>7. CASE account.nan
  BY <1>7 DEF BooksBalance
<1>8. CASE ~account.nan
  <2>1. account.cash + account.fees + Total(Books) = Total(Payments(filled)) + realised
    BY <1>6, <1>8 DEF BooksBalance
  <2>2. account'.cash + account'.fees + Total(Books')
        = Total(Payments(filled)) + PaidIn(x) + realised
    <3>1. account.cash + PaidIn(x) + account.fees + Total(Books)
          = Total(Payments(filled)) + PaidIn(x) + realised
      <4> DEFINE c == account.cash
                 f == account.fees
                 k == Total(Books)
                 d == Total(Payments(filled))
                 more == PaidIn(x)
      <4>1. /\ c \in Int /\ f \in Int /\ k \in Int /\ d \in Int /\ more \in Int
            /\ realised \in Int /\ c + f + k = d + realised
        BY <1>1, <1>3, <1>4, <1>5, <2>1
      <4> HIDE DEF c, f, k, d, more
      <4>2. c + more + f + k = (c + f + k) + more
        BY <4>1
      <4>3. d + more + realised = (d + realised) + more
        BY <4>1
      <4> QED  BY <4>1, <4>2, <4>3 DEF c, f, k, d, more
    <3> QED  BY <1>2, <3>1
  <2> QED  BY <2>2 DEF BooksBalance
<1> QED  BY <1>1, <1>7, <1>8 DEF Account

LEMMA CashStep ==
    ASSUME BrokerInv, NEW m \in Money, DepositCash(m) \/ WithdrawCash(m)
    PROVE  BrokerInv'
<1>1. BrokerTypes /\ account \in Account /\ account.cash \in Int
  BY DEF BrokerInv, BrokerTypes, Account
<1>2. m \in Nat
  BY BrokerAssumption
<1>3. NewId /\ position' = position /\ unfilled' = unfilled /\ realised' = realised
  BY DEF DepositCash, WithdrawCash
<1>4. \E x \in Done :
        /\ filled' = Append(filled, x)
        /\ x.id = lastId + 1 /\ x.root = lastId + 1 /\ x.action \in {"DEPOSIT", "WITHDRAW"}
        /\ account' = [account EXCEPT !.cash = @ + PaidIn(x)]
  <2>1. CASE DepositCash(m)
    <3>1. PICK x \in Done :
            /\ filled' = Append(filled, x)
            /\ x.id = lastId + 1 /\ x.root = lastId + 1 /\ x.action = "DEPOSIT"
            /\ x.price = m /\ x.status = "FILLED"
      <4>1. Special("DEPOSIT", None, 1, m, "FILLED")
        BY <2>1 DEF DepositCash
      <4>2. \E x \in Done :
                /\ filled' = Append(filled, x)
                /\ x.id = lastId + 1 /\ x.root = lastId + 1 /\ x.action = "DEPOSIT"
                /\ x.symbol = None /\ x.quantity = 1 /\ x.price = m /\ x.status = "FILLED"
        BY <1>1, <1>2, <4>1, SpecialOrder
      <4> QED  BY <4>2
    <3>2. PaidIn(x) = m
      BY <3>1 DEF PaidIn
    <3>3. account' = [account EXCEPT !.cash = @ + m]
      BY <2>1 DEF DepositCash
    <3> QED  BY <3>1, <3>2, <3>3
  <2>2. CASE WithdrawCash(m) /\ account.cash < m /\ ~account.nan
    <3>1. account' = account
          /\ Special("WITHDRAW", None, 1, m, "REJECTED")
      BY <2>2 DEF WithdrawCash
    <3>2. PICK x \in Done :
            /\ filled' = Append(filled, x)
            /\ x.id = lastId + 1 /\ x.root = lastId + 1 /\ x.action = "WITHDRAW"
            /\ x.price = m /\ x.status = "REJECTED"
      <4>1. \E x \in Done :
                /\ filled' = Append(filled, x)
                /\ x.id = lastId + 1 /\ x.root = lastId + 1 /\ x.action = "WITHDRAW"
                /\ x.symbol = None /\ x.quantity = 1 /\ x.price = m
                /\ x.status = "REJECTED"
        BY <1>1, <1>2, <3>1, SpecialOrder
      <4> QED  BY <4>1
    <3>3. PaidIn(x) = 0
      BY <3>2 DEF PaidIn
    <3>4. account' = [account EXCEPT !.cash = @ + 0]
      BY <1>1, <3>1 DEF Account
    <3> QED  BY <3>2, <3>3, <3>4
  <2>3. CASE WithdrawCash(m) /\ ~(account.cash < m /\ ~account.nan)
    <3>1. account' = [account EXCEPT !.cash = @ - m]
          /\ Special("WITHDRAW", None, 1, m, "FILLED")
      BY <2>3 DEF WithdrawCash
    <3>2. PICK x \in Done :
            /\ filled' = Append(filled, x)
            /\ x.id = lastId + 1 /\ x.root = lastId + 1 /\ x.action = "WITHDRAW"
            /\ x.price = m /\ x.status = "FILLED"
      <4>1. \E x \in Done :
                /\ filled' = Append(filled, x)
                /\ x.id = lastId + 1 /\ x.root = lastId + 1 /\ x.action = "WITHDRAW"
                /\ x.symbol = None /\ x.quantity = 1 /\ x.price = m /\ x.status = "FILLED"
        <5>1. Special("WITHDRAW", None, 1, m, "FILLED")
          BY <3>1
        <5> QED  BY <1>1, <1>2, <5>1, SpecialOrder
      <4> QED  BY <4>1
    <3>3. PaidIn(x) = -m
      BY <3>2 DEF PaidIn
    <3>4. account.cash - m = account.cash + (-m)
      BY <1>1, <1>2
    <3> QED  BY <3>1, <3>2, <3>3, <3>4
  <2> QED  BY <2>1, <2>2, <2>3
<1>5. PICK x \in Done :
        /\ filled' = Append(filled, x)
        /\ x.id = lastId + 1 /\ x.root = lastId + 1 /\ x.action \in {"DEPOSIT", "WITHDRAW"}
        /\ account' = [account EXCEPT !.cash = @ + PaidIn(x)]
  BY <1>4
<1>6. PaidIn(x) \in Int /\ \A s : Traded(x, s) = 0
  <2>1. x \in OrderRec
    BY DEF Done
  <2>2. \A s : Traded(x, s) = 0
    BY <1>5 DEF Traded
  <2> QED  BY <2>1, <2>2, Amounts
<1>7. account' \in Account /\ account'.nan = account.nan /\ account'.fees = account.fees
      /\ account'.cash = account.cash + PaidIn(x)
  BY <1>1, <1>5, <1>6 DEF Account
<1>8. /\ unfilled' \in [Symbol -> Seq(OrderRec)]
      /\ \A s \in Symbol : unfilled'[s] \in Seq(Waiting(s))
      /\ filled' \in Seq(Done) /\ lastId' \in 0..MaxId
      /\ Ids' /\ RootsAgree' /\ OrderConserved'
      /\ \A s \in Symbol : Total(Trades(filled, s))' = Total(Trades(filled, s)) + Traded(x, s)
      /\ Total(Payments(filled))' = Total(Payments(filled)) + PaidIn(x)
  <2>1. x.action \notin {"BUY", "SELL"}
    BY <1>5
  <2> QED  BY <1>3, <1>5, <2>1, SpecialStep
<1>9. BrokerTypes'
  BY <1>1, <1>3, <1>7, <1>8 DEF BrokerTypes
<1>10. PositionIsTraded'
  <2>1. \A s \in Symbol : Total(Trades(filled, s)) \in Int
    BY <1>1, InOrders, TotalsType
  <2>2. \A s \in Symbol : Total(Trades(filled', s)) = Total(Trades(filled, s))
    BY <1>6, <1>8, <2>1
  <2> QED  BY <1>3, <2>2 DEF BrokerInv, PositionIsTraded
<1>11. BooksBalance'
  BY <1>3, <1>7, <1>8, SpecialBooks DEF BrokerInv, BrokerTypes
<1> QED  BY <1>8, <1>9, <1>10, <1>11 DEF BrokerInv

LEMMA DividendStep ==
    ASSUME BrokerInv, NEW s \in Symbol, NEW n \in {0} \union Quantity, NEW m \in Money,
           DividendOrder(s, n, m)
    PROVE  BrokerInv'
<1>1. BrokerTypes /\ account \in Account /\ account.cash \in Int
      /\ PositionOk(position[s]) /\ position \in [Symbol -> Tracker]
  BY DEF BrokerInv, BrokerTypes, Account
<1>2. m \in Nat /\ n \in Nat
  BY BrokerAssumption
<1>3. /\ NewId /\ unfilled' = unfilled /\ realised' = realised
      /\ position' = [position EXCEPT ![s] = Bought(position[s], n, 0)]
      /\ account' = [account EXCEPT !.cash = IF n = 0 THEN @ ELSE @ + m]
      /\ Special("DIVIDEND", s, n, m, "FILLED")
  BY DEF DividendOrder
<1>4. PICK x \in Done :
        /\ filled' = Append(filled, x)
        /\ x.id = lastId + 1 /\ x.root = lastId + 1 /\ x.action = "DIVIDEND"
        /\ x.symbol = s /\ x.quantity = n /\ x.price = m /\ x.status = "FILLED"
  BY <1>1, <1>2, <1>3, SpecialOrder
<1>5. /\ PaidIn(x) = (IF n = 0 THEN 0 ELSE m)
      /\ Traded(x, s) = n /\ \A u \in Symbol : u # s => Traded(x, u) = 0
  <2>1. PaidIn(x) = (IF n > 0 THEN m ELSE 0)
    BY <1>4 DEF PaidIn
  <2> QED  BY <1>2, <1>4, <2>1 DEF Traded
<1>6. account' \in Account /\ account'.nan = account.nan /\ account'.fees = account.fees
      /\ account'.cash = account.cash + PaidIn(x)
  <2>1. account'.cash = account.cash + PaidIn(x) /\ account'.cash \in Int
    BY <1>1, <1>2, <1>3, <1>5 DEF Account
  <2> QED  BY <1>1, <1>3, <2>1 DEF Account
<1>7. /\ PositionOk(Bought(position[s], n, 0))
      /\ Bought(position[s], n, 0).quantity = position[s].quantity + n
      /\ Bought(position[s], n, 0).book = position[s].book
  <2>1. /\ PositionOk(Bought(position[s], n, 0))
        /\ Bought(position[s], n, 0).quantity = position[s].quantity + n
        /\ Bought(position[s], n, 0).book = position[s].book + n * 0
    <3>1. 0 \in Nat
      OBVIOUS
    <3> QED  BY <1>1, <1>2, <3>1, BoughtOk, Zenon
  <2>2. n * 0 = 0 /\ position[s].book \in Int
    BY <1>1, <1>2 DEF Tracker
  <2> QED  BY <2>1, <2>2
<1>8. /\ position' \in [Symbol -> Tracker]
      /\ \A u \in Symbol : PositionOk(position'[u]) /\ position'[u].book = position[u].book
      /\ \A u \in Symbol : position'[u].quantity = position[u].quantity + Traded(x, u)
  <2>1. Bought(position[s], n, 0) \in Tracker
    BY <1>7 DEF PositionOk
  <2>2. \A u \in Symbol : position[u].quantity \in Nat /\ PositionOk(position[u])
    BY <1>1 DEF Tracker, BrokerTypes
  <2> QED  BY <1>1, <1>3, <1>5, <1>7, <2>1, <2>2
<1>9. /\ unfilled' \in [Symbol -> Seq(OrderRec)]
      /\ \A u \in Symbol : unfilled'[u] \in Seq(Waiting(u))
      /\ filled' \in Seq(Done) /\ lastId' \in 0..MaxId
      /\ Ids' /\ RootsAgree' /\ OrderConserved'
      /\ \A u \in Symbol : Total(Trades(filled, u))' = Total(Trades(filled, u)) + Traded(x, u)
      /\ Total(Payments(filled))' = Total(Payments(filled)) + PaidIn(x)
  <2>1. x.action \notin {"BUY", "SELL"}
    BY <1>4
  <2> QED  BY <1>3, <1>4, <2>1, SpecialStep
<1>10. BrokerTypes'
  BY <1>1, <1>3, <1>6, <1>8, <1>9 DEF BrokerTypes
<1>11. PositionIsTraded'
  BY <1>8, <1>9 DEF BrokerInv, PositionIsTraded
<1>12. BooksBalance'
  BY <1>3, <1>6, <1>8, <1>9, SpecialBooks
<1> QED  BY <1>9, <1>10, <1>11, <1>12 DEF BrokerInv

LEMMA CommitStep ==
    ASSUME BrokerInv, NEW s \in Symbol, NEW action \in {"BUY", "SELL"},
           NEW n \in Quantity, NEW price \in {0} \union Price,
           CommitOrder(s, action, n, price)
    PROVE  BrokerInv'
<1>1. BrokerTypes /\ unfilled \in [Symbol -> Seq(OrderRec)] /\ filled \in Seq(OrderRec)
      /\ unfilled[s] \in Seq(Waiting(s)) /\ unfilled[s] \in Seq(OrderRec)
  BY InOrders DEF BrokerInv, BrokerTypes
<1>2. n \in Nat /\ n > 0 /\ price \in Nat /\ lastId \in Nat
  BY <1>1, BrokerAssumption DEF BrokerTypes
<1> DEFINE x == Order(lastId + 1, lastId + 1, s, action, n, price, 0)
<1>3. /\ NewId /\ account' = account /\ position' = position /\ filled' = filled
      /\ realised' = realised /\ unfilled' = [unfilled EXCEPT ![s] = Append(@, x)]
  BY DEF CommitOrder
<1>4. lastId' = lastId + 1 /\ lastId' \in 0..MaxId
  BY <1>1, <1>2, <1>3, BrokerAssumption DEF NewId, BrokerTypes
<1>5. /\ x \in Waiting(s) /\ x \in OrderRec /\ x.id = lastId + 1 /\ x.root = lastId + 1
      /\ x.symbol = s /\ x.quantity = n /\ x.status = "PENDING_NEW"
  <2>1. x \in OrderRec
    BY <1>2 DEF Order, OrderRec, Actions, Statuses, NaN
  <2> QED  BY <1>2, <2>1 DEF Order, Waiting
<1> HIDE DEF x
<1>6. /\ unfilled' \in [Symbol -> Seq(OrderRec)]
      /\ unfilled'[s] = Append(unfilled[s], x)
      /\ \A u \in Symbol : u # s => unfilled'[u] = unfilled[u]
      /\ \A u \in Symbol : unfilled'[u] \in Seq(Waiting(u))
  <2>1. Append(unfilled[s], x) \in Seq(Waiting(s)) /\ Append(unfilled[s], x) \in Seq(OrderRec)
    BY <1>1, <1>5, AppendProperties
  <2> QED  BY <1>1, <1>3, <2>1 DEF BrokerTypes
<1>7. BrokerTypes'
  BY <1>1, <1>3, <1>4, <1>6 DEF BrokerTypes
<1>8. Orders' \subseteq Orders \union {x}
  <2>1. ToSet(unfilled'[s]) = ToSet(unfilled[s]) \union {x}
    BY <1>1, <1>5, <1>6, ToSetAppend
  <2>2. \A u \in Symbol : ToSet(unfilled'[u]) \subseteq ToSet(unfilled[u]) \union {x}
    BY <1>6, <2>1
  <2> QED  BY <1>3, <2>2 DEF Orders
<1>9. \A o \in Orders : Share(x, o.id) = 0 /\ o.root # x.root /\ o.id # x.id /\ o.id <= lastId'
  BY <1>4, <1>5, NewRoot
<1>10. Ids'
  BY <1>2, <1>4, <1>5, <1>8, <1>9 DEF BrokerInv, Ids
<1>11. RootsAgree'
  BY <1>8, <1>9 DEF BrokerInv, RootsAgree
<1>12. OrderConserved'
  <2> SUFFICES ASSUME NEW r \in Orders', r.id = r.root, r.action \in {"BUY", "SELL"}
               PROVE  Total(Shares(filled, r.id)) + Total(Shares(unfilled'[r.symbol], r.id))
                      = r.quantity
    BY <1>3 DEF OrderConserved
  <2>1. Total(Shares(unfilled'[s], r.id))
        = Total(Shares(unfilled[s], r.id)) + Share(x, r.id)
    BY <1>1, <1>5, <1>6, TotalsMore
  <2>2. CASE r \in Orders
    <3>1. Total(Shares(filled, r.id)) + Total(Shares(unfilled[r.symbol], r.id)) = r.quantity
      BY <2>2 DEF BrokerInv, OrderConserved
    <3>2. r.symbol \in Symbol /\ Share(x, r.id) = 0
          /\ Total(Shares(unfilled[s], r.id)) \in Int
      BY <1>1, <1>9, <2>2, InOrders, TotalsType
    <3>3. Total(Shares(unfilled'[r.symbol], r.id)) = Total(Shares(unfilled[r.symbol], r.id))
      <4>1. CASE r.symbol = s
        <5>1. Total(Shares(unfilled'[s], r.id)) = Total(Shares(unfilled[s], r.id))
          BY <2>1, <3>2
        <5> QED  BY <4>1, <5>1
      <4>2. CASE r.symbol # s
        BY <1>6, <3>2, <4>2
      <4> QED  BY <4>1, <4>2
    <3> QED  BY <3>1, <3>3
  <2>3. CASE r = x
    <3>1. \A o \in Orders : o.root # x.id
      BY <1>5, <1>9
    <3>2. \A i \in 1..Len(filled) : filled[i].root # x.id
      BY <1>1, <3>1, InOrders, ToSetElements
    <3>3. \A i \in 1..Len(unfilled[s]) : unfilled[s][i].root # x.id
      BY <1>1, <3>1, InOrders, ToSetElements
    <3>4. Total(Shares(filled, x.id)) = 0 /\ Total(Shares(unfilled[s], x.id)) = 0
      BY <1>1, <3>2, <3>3, NoShare
    <3>5. Share(x, x.id) = n
      BY <1>5 DEF Share
    <3> QED  BY <1>2, <1>5, <2>1, <2>3, <3>4, <3>5
  <2> QED  BY <1>8, <2>2, <2>3
<1>13. PositionIsTraded'
  BY <1>3 DEF BrokerInv, PositionIsTraded
<1>14. BooksBalance'
  BY <1>3 DEF BrokerInv, BooksBalance, Books
<1> QED  BY <1>7, <1>10, <1>11, <1>12, <1>13, <1>14 DEF BrokerInv

LEMMA SettleStep ==
    ASSUME BrokerInv, Settle
    PROVE  BrokerInv'
<1>1. BrokerTypes /\ position \in [Symbol -> Tracker]
  BY DEF BrokerInv, BrokerTypes
<1>2. /\ account' = account /\ unfilled' = unfilled /\ filled' = filled
      /\ lastId' = lastId /\ realised' = realised
  BY DEF Settle
<1>3. /\ position' \in [Symbol -> Tracker]
      /\ \A s \in Symbol : /\ PositionOk(position'[s])
                           /\ position'[s].quantity = position[s].quantity
                           /\ position'[s].book = position[s].book
  <2> SUFFICES ASSUME NEW s \in Symbol
               PROVE  /\ position'[s] \in Tracker /\ PositionOk(position'[s])
                      /\ position'[s].quantity = position[s].quantity
                      /\ position'[s].book = position[s].book
    BY DEF Settle
  <2>1. position'[s] = [position[s] EXCEPT !.closable = position[s].quantity,
                                            !.settled = position[s].quantity, !.sold = 0]
    BY DEF Settle
  <2> QED  BY <1>1, <2>1, SettledOk
<1>4. BrokerTypes'
  BY <1>1, <1>2, <1>3 DEF BrokerTypes
<1>5. Orders' = Orders
  BY <1>2 DEF Orders
<1>6. Ids' /\ RootsAgree' /\ OrderConserved'
  BY <1>2, <1>5 DEF BrokerInv, Ids, RootsAgree, OrderConserved
<1>7. PositionIsTraded'
  BY <1>2, <1>3 DEF BrokerInv, PositionIsTraded
<1>8. BooksBalance'
  <2>1. Books' = BooksOf(position')
    BY DEF Books, BooksOf
  <2>2. Books' = Books
    BY <1>1, <1>3, <2>1, BooksSame, BooksOfPosition
  <2> QED  BY <1>2, <2>2 DEF BrokerInv, BooksBalance
<1> QED  BY <1>4, <1>6, <1>7, <1>8 DEF BrokerInv


LEMMA TickStep ==
    ASSUME BrokerInv, NEW s \in Symbol, NEW t \in Quote, OnTick(s, t)
    PROVE  BrokerInv'
<1> DEFINE before == [account |-> account, position |-> position[s],
                      realised |-> realised, filled |-> filled,
                      kept |-> << >>, parts |-> << >>, id |-> lastId]
           orders == unfilled[s]
           after == Matching(before, orders, t)[Len(orders)]
<1>1. /\ after.id <= MaxId
      /\ account' = after.account
      /\ position' = [position EXCEPT ![s] = after.position]
      /\ realised' = after.realised
      /\ filled' = after.filled
      /\ unfilled' = [unfilled EXCEPT ![s] = after.kept \o after.parts]
      /\ lastId' = after.id
  BY DEF OnTick
<1>2. /\ before.account = account /\ before.position = position[s]
      /\ before.realised = realised /\ before.filled = filled
      /\ before.kept = << >> /\ before.parts = << >> /\ before.id = lastId
  OBVIOUS
<1> HIDE DEF before
<1>3. /\ BrokerTypes /\ orders \in Seq(Waiting(s)) /\ orders \in Seq(OrderRec)
      /\ filled \in Seq(OrderRec) /\ lastId \in Nat /\ MaxId \in Nat
      /\ position \in [Symbol -> Tracker] /\ account \in Account /\ realised \in Int
      /\ Len(orders) \in Nat
  BY InOrders, LenProperties, BrokerAssumption DEF BrokerInv, BrokerTypes
<1>4. LoopStart(before, s)
  <2>1. << >> \in Seq(Waiting(s))
    BY EmptySeq
  <2> QED  BY <1>2, <1>3, <2>1 DEF LoopStart, LoopTypes, BrokerTypes
<1>5. LoopInv(after, before, orders, s, Len(orders))
  <2> HIDE DEF orders
  <2>1. Len(orders) \in 0..Len(orders)
    BY <1>3
  <2> QED  BY <1>3, <1>4, <2>1, Loop
<1> HIDE DEF after
<1>6. /\ account' \in Account /\ PositionOk(after.position) /\ after.position \in Tracker
      /\ realised' \in Int /\ filled' \in Seq(Done) /\ filled' \in Seq(OrderRec)
      /\ after.kept \in Seq(Waiting(s)) /\ after.parts \in Seq(Waiting(s))
      /\ after.kept \in Seq(OrderRec) /\ after.parts \in Seq(OrderRec)
      /\ lastId' \in Nat
  BY <1>1, <1>5, OrderSeqs DEF LoopInv, LoopTypes, PositionOk
<1>7. /\ position' \in [Symbol -> Tracker]
      /\ position'[s] = after.position
      /\ \A u \in Symbol : u # s => position'[u] = position[u]
      /\ unfilled'[s] = after.kept \o after.parts
      /\ \A u \in Symbol : u # s => unfilled'[u] = unfilled[u]
      /\ unfilled' \in [Symbol -> Seq(OrderRec)]
      /\ \A u \in Symbol : unfilled'[u] \in Seq(Waiting(u))
  <2>1. /\ after.kept \o after.parts \in Seq(Waiting(s))
        /\ after.kept \o after.parts \in Seq(OrderRec)
    BY <1>6, ConcatProperties
  <2> QED  BY <1>1, <1>3, <1>6, <2>1 DEF BrokerTypes
<1>8. BrokerTypes'
  <2>1. \A u \in Symbol : PositionOk(position'[u])
    BY <1>3, <1>6, <1>7 DEF BrokerTypes
  <2>2. lastId' \in 0..MaxId
    BY <1>1, <1>3, <1>6
  <2> QED  BY <1>6, <1>7, <2>1, <2>2 DEF BrokerTypes
<1>9. lastId <= lastId'
  BY <1>1, <1>2, <1>5 DEF LoopInv, LoopOrders
<1>10. \A m \in Orders' : m \in Orders \/ \E o \in Orders : From(m, o, lastId, lastId')
  <2>1. \A m \in ToSet(after.filled) \union ToSet(after.kept) \union ToSet(after.parts) :
            \/ m \in ToSet(filled)
            \/ \E o \in ToSet(orders) : From(m, o, lastId, lastId')
    BY <1>1, <1>2, <1>5 DEF LoopInv, LoopOrders
  <2>2. ToSet(filled) \subseteq Orders /\ ToSet(orders) \subseteq Orders
        /\ \A u \in Symbol : ToSet(unfilled[u]) \subseteq Orders
    BY <1>3, InOrders
  <2>3. ToSet(unfilled'[s]) \subseteq ToSet(after.kept) \union ToSet(after.parts)
    BY <1>6, <1>7, ToSetJoined
  <2>4. ASSUME NEW m \in Orders'
        PROVE  m \in Orders \/ \E o \in Orders : From(m, o, lastId, lastId')
    <3>1. m \in ToSet(filled') \/ \E u \in Symbol : m \in ToSet(unfilled'[u])
      BY <2>4 DEF Orders
    <3>2. CASE m \in ToSet(filled') \/ m \in ToSet(unfilled'[s])
      BY <1>1, <2>1, <2>2, <2>3, <3>2
    <3>3. CASE \E u \in Symbol : u # s /\ m \in ToSet(unfilled'[u])
      BY <1>7, <2>2, <3>3
    <3> QED  BY <3>1, <3>2, <3>3
  <2> QED  BY <2>4
<1>11. \A o \in Orders : /\ o.root <= o.id /\ o.id <= lastId
                         /\ o.id \in Nat /\ o.root \in Nat /\ o.quantity \in Nat
  BY <1>3, InOrders DEF BrokerInv, Ids
<1>12. \A m \in Orders' : m.id \in Nat
  <2>1. ASSUME NEW m \in Orders'
        PROVE  m \in OrderRec
    <3>1. m \in ToSet(filled') \/ \E u \in Symbol : m \in ToSet(unfilled'[u])
      BY <2>1 DEF Orders
    <3>2. filled' \in Seq(OrderRec) /\ \A u \in Symbol : unfilled'[u] \in Seq(OrderRec)
      BY <1>6, <1>7
    <3> QED  BY <3>1, <3>2, ToSetElements
  <2> QED  BY <2>1, OrderFields
<1>13. \A m \in Orders' : \E o \in Orders :
            /\ m.root = o.root /\ m.symbol = o.symbol /\ m.action = o.action
            /\ \/ m.id = o.id /\ m.quantity = o.quantity
               \/ lastId < m.id /\ m.id <= lastId'
  BY <1>10 DEF From
<1>14. Ids'
  <2>1. ASSUME NEW m \in Orders'
        PROVE  m.root <= m.id /\ m.id <= lastId'
    <3>1. PICK o \in Orders :
            /\ m.root = o.root
            /\ \/ m.id = o.id
               \/ lastId < m.id /\ m.id <= lastId'
      BY <1>13
    <3>2. o.root <= o.id /\ o.id <= lastId /\ o.id \in Nat /\ o.root \in Nat
      BY <1>11
    <3>3. m.id \in Nat
      BY <1>12
    <3> QED  BY <1>3, <1>6, <1>9, <3>1, <3>2, <3>3
  <2> QED  BY <2>1 DEF Ids
<1>15. RootsAgree'
  <2>1. \A o, u \in Orders : o.root = u.root => o.symbol = u.symbol
    BY DEF BrokerInv, RootsAgree
  <2>2. \A m \in Orders' : \E o \in Orders : m.root = o.root /\ m.symbol = o.symbol
    BY <1>13
  <2>3. \A m, w \in Orders' : m.root = w.root => m.symbol = w.symbol
    BY <2>1, <2>2
  <2> QED  BY <2>3 DEF RootsAgree
<1>16. OrderConserved'
  <2> SUFFICES ASSUME NEW r \in Orders', r.id = r.root, r.action \in {"BUY", "SELL"}
               PROVE  Total(Shares(filled', r.id)) + Total(Shares(unfilled'[r.symbol], r.id))
                      = r.quantity
    BY DEF OrderConserved
  <2>1. PICK q \in Orders : /\ q.id = r.id /\ q.root = r.id
                            /\ q.symbol = r.symbol /\ q.action = r.action
                            /\ q.quantity = r.quantity
    <3>1. PICK o \in Orders :
            /\ r.root = o.root /\ r.symbol = o.symbol /\ r.action = o.action
            /\ \/ r.id = o.id /\ r.quantity = o.quantity
               \/ lastId < r.id /\ r.id <= lastId'
      BY <1>13
    <3>2. o.root <= o.id /\ o.id <= lastId /\ o.id \in Nat /\ o.root \in Nat
      BY <1>11
    <3>3. ~(lastId < r.id)
      BY <1>3, <3>1, <3>2
    <3> QED  BY <3>1, <3>3
  <2>2. r.symbol \in Symbol /\ r.id \in Nat
    BY <1>3, <1>11, <2>1, InOrders
  <2>3. Total(Shares(filled, r.id)) + Total(Shares(unfilled[r.symbol], r.id)) = r.quantity
    BY <2>1 DEF BrokerInv, OrderConserved
  <2>4. CASE r.symbol = s
    <3>1. AllShares(after, r.id)
          = AllShares(before, r.id) + Sums(Shares(orders, r.id))[Len(orders)]
      BY <1>5, <2>2 DEF LoopInv, LoopShares
    <3>2. Sums(Shares(orders, r.id))[Len(orders)] = Total(Shares(orders, r.id))
      BY <1>3, AmountSeqs DEF Total
    <3>3. Total(Shares(orders, r.id)) \in Int /\ Total(Shares(filled, r.id)) \in Int
      BY <1>3, TotalsType
    <3>4. AllShares(before, r.id) = Total(Shares(filled, r.id))
      BY <1>2, <3>3, NoOrders DEF AllShares
    <3>5. Total(Shares(unfilled'[s], r.id))
          = Total(Shares(after.kept, r.id)) + Total(Shares(after.parts, r.id))
      BY <1>6, <1>7, SharesJoined
    <3>6. /\ Total(Shares(after.filled, r.id)) \in Int
          /\ Total(Shares(after.kept, r.id)) \in Int
          /\ Total(Shares(after.parts, r.id)) \in Int
      BY <1>1, <1>6, TotalsType
    <3>7. Total(Shares(filled', r.id)) + Total(Shares(unfilled'[s], r.id))
          = AllShares(after, r.id)
      BY <1>1, <3>5, <3>6 DEF AllShares
    <3> QED  BY <2>3, <2>4, <3>1, <3>2, <3>3, <3>4, <3>7
  <2>5. CASE r.symbol # s
    <3>1. ASSUME NEW j \in 1..Len(orders)
          PROVE  orders[j].root # r.id
      <4>1. orders[j] \in ToSet(orders) /\ orders[j] \in Waiting(s)
        BY <1>3, ToSetElements, ElementOfSeq
      <4>2. orders[j] \in Orders /\ orders[j].symbol = s
        BY <1>3, <4>1, InOrders DEF Waiting
      <4> QED  BY <2>1, <2>5, <4>2 DEF BrokerInv, RootsAgree
    <3>2. Total(Shares(after.filled, r.id)) = Total(Shares(filled, r.id))
      BY <1>2, <1>5, <2>2, <3>1 DEF LoopInv, LoopShares
    <3> QED  BY <1>1, <1>7, <2>2, <2>3, <2>5, <3>2
  <2> QED  BY <2>4, <2>5
<1>17. PositionIsTraded'
  <2>1. LoopTrades(after, before, s)
    BY <1>5 DEF LoopInv
  <2>2. \A u \in Symbol : position[u].quantity = Total(Trades(filled, u))
    BY DEF BrokerInv, PositionIsTraded
  <2>3. position'[s].quantity = Total(Trades(filled', s))
    <3>1. after.position.quantity - Total(Trades(filled', s))
          = position[s].quantity - Total(Trades(filled, s))
      BY <1>1, <1>2, <2>1 DEF LoopTrades
    <3>2. after.position.quantity \in Int /\ position[s].quantity \in Int
      <4>1. \A p \in Tracker : p.quantity \in Int
        BY DEF Tracker
      <4>2. after.position \in Tracker /\ position[s] \in Tracker
        BY <1>3, <1>6
      <4> QED  BY <4>1, <4>2
    <3>3. Total(Trades(filled', s)) \in Int
      BY <1>6, TotalsType
    <3> QED  BY <1>7, <2>2, <3>1, <3>2, <3>3
  <2>4. \A u \in Symbol : u # s => position'[u].quantity = Total(Trades(filled', u))
    BY <1>1, <1>2, <1>7, <2>1, <2>2 DEF LoopTrades
  <2> QED  BY <2>3, <2>4 DEF PositionIsTraded
<1>18. BooksBalance'
  <2> SUFFICES ASSUME ~account'.nan
               PROVE  account'.cash + account'.fees + Total(Books')
                      = Total(Payments(filled')) + realised'
    BY DEF BooksBalance
  <2>1. /\ ~account.nan
        /\ Worth(account', after.position) - realised' - Total(Payments(filled'))
           = Worth(account, position[s]) - realised - Total(Payments(filled))
    BY <1>1, <1>2, <1>5 DEF LoopInv, LoopBooks
  <2>2. account.cash + account.fees + Total(Books) = Total(Payments(filled)) + realised
    BY <2>1 DEF BrokerInv, BooksBalance
  <2>3. Total(Books') = Total(Books) + (after.position.book - position[s].book)
    <3>1. Books' = BooksOf(position')
      BY DEF Books, BooksOf
    <3> QED  BY <1>1, <1>3, <1>6, <3>1, BooksChanged, BooksOfPosition
  <2>4. Total(Books) \in Int
    BY <1>3, BooksOfType, BooksOfPosition
  <2>5. Total(Payments(filled)) \in Int /\ Total(Payments(filled')) \in Int
    BY <1>3, <1>6, TotalsType
  <2>6. /\ account.cash \in Int /\ account.fees \in Int /\ account'.cash \in Int
        /\ account'.fees \in Int /\ after.position.book \in Int
        /\ position[s].book \in Int
    <3>1. account.cash \in Int /\ account.fees \in Int
      BY <1>3 DEF Account
    <3>2. account'.cash \in Int /\ account'.fees \in Int
      BY <1>6 DEF Account
    <3>3. after.position.book \in Int /\ position[s].book \in Int
      BY <1>3, <1>6 DEF Tracker
    <3> QED  BY <3>1, <3>2, <3>3
  <2> DEFINE c == account.cash
             f == account.fees
             b == position[s].book
             d == Total(Payments(filled))
             k == Total(Books)
             c1 == account'.cash
             f1 == account'.fees
             b1 == after.position.book
             d1 == Total(Payments(filled'))
             k1 == Total(Books')
             e1 == realised'
  <2>7. c1 + f1 + b1 - e1 - d1 = c + f + b - realised - d
    <3>1. Worth(account', after.position) = c1 + f1 + b1
          /\ Worth(account, position[s]) = c + f + b
      BY DEF Worth
    <3> DEFINE w == Worth(account, position[s])
               w1 == Worth(account', after.position)
    <3>2. w1 - e1 - d1 = w - realised - d
      BY <2>1
    <3>3. /\ c \in Int /\ f \in Int /\ b \in Int /\ c1 \in Int /\ f1 \in Int /\ b1 \in Int
          /\ d \in Int /\ d1 \in Int /\ e1 \in Int /\ realised \in Int
      BY <1>3, <1>6, <2>5, <2>6
    <3>4. w1 = c1 + f1 + b1 /\ w = c + f + b
      BY <3>1
    <3> HIDE DEF c, f, b, d, c1, f1, b1, d1, e1, w, w1
    <3> QED  BY <3>2, <3>3, <3>4
  <2>8. c + f + k = d + realised /\ k1 = k + (b1 - b)
    BY <2>2, <2>3
  <2>9. /\ c \in Int /\ f \in Int /\ b \in Int /\ d \in Int /\ k \in Int
        /\ c1 \in Int /\ f1 \in Int /\ b1 \in Int /\ d1 \in Int
        /\ realised \in Int /\ e1 \in Int
    BY <1>3, <1>6, <2>4, <2>5, <2>6
  <2> HIDE DEF c, f, b, d, k, c1, f1, b1, d1, k1, e1
  <2>10. c1 + f1 + k1 = d1 + e1
    BY <2>7, <2>8, <2>9
  <2> QED  BY <2>10 DEF c1, f1, d1, k1, e1
<1> QED  BY <1>8, <1>14, <1>15, <1>16, <1>17, <1>18 DEF BrokerInv

LEMMA NextBroker ==
    ASSUME BrokerInv, [Next]_vars
    PROVE  BrokerInv'
<1>1. CASE \E m \in Money : DepositCash(m) \/ WithdrawCash(m)
  BY <1>1, CashStep
<1>2. CASE \E s \in Symbol : \E n \in {0} \union Quantity, m \in Money :
            DividendOrder(s, n, m)
  BY <1>2, DividendStep
<1>3. CASE \E s \in Symbol : \E action \in {"BUY", "SELL"}, n \in Quantity,
            p \in {0} \union Price : CommitOrder(s, action, n, p)
  BY <1>3, CommitStep
<1>4. CASE \E s \in Symbol : \E t \in Quote : OnTick(s, t)
  BY <1>4, TickStep
<1>5. CASE Settle
  BY <1>5, SettleStep
<1>6. CASE UNCHANGED vars
  <2>1. /\ account' = account /\ position' = position /\ unfilled' = unfilled
        /\ filled' = filled /\ lastId' = lastId /\ realised' = realised
    BY <1>6 DEF vars
  <2>2. Orders' = Orders /\ Books' = Books
    BY <2>1 DEF Orders, Books
  <2>3. BrokerTypes'
    BY <2>1 DEF BrokerInv, BrokerTypes
  <2>4. Ids' /\ RootsAgree' /\ OrderConserved'
    BY <2>1, <2>2 DEF BrokerInv, Ids, RootsAgree, OrderConserved
  <2>5. PositionIsTraded' /\ BooksBalance'
    BY <2>1, <2>2 DEF BrokerInv, PositionIsTraded, BooksBalance
  <2> QED  BY <2>3, <2>4, <2>5 DEF BrokerInv
<1> QED  BY <1>1, <1>2, <1>3, <1>4, <1>5, <1>6 DEF Next

\* What holds between calls: types, ids, one symbol for all parts of an order,
\* and the properties.
THEOREM BrokerInvariant == Spec => []BrokerInv
<1>1. Init => BrokerInv
  BY InitBroker
<1>2. BrokerInv /\ [Next]_vars => BrokerInv'
  BY NextBroker
<1> QED  BY <1>1, <1>2, PTL DEF Spec

-----------------------------------------------------------------------------
(* The properties.                                                         *)

\* Accounts, positions and orders are what the code takes them for, whatever
\* is ordered and quoted (cerebro_broker, cerebro_position).
THEOREM BrokerTypesHold == Spec => []TypeOK
<1>1. BrokerInv => TypeOK
  <2> SUFFICES ASSUME BrokerInv
               PROVE  TypeOK
    OBVIOUS
  <2>1. BrokerTypes
    BY DEF BrokerInv
  <2>2. \A s \in Symbol : \A o \in ToSet(unfilled[s]) :
            o.symbol = s /\ o.status = "PENDING_NEW" /\ o.quantity > 0
    <3>1. \A s \in Symbol : \A o \in ToSet(unfilled[s]) : o \in Waiting(s)
      BY <2>1, ToSetElements DEF BrokerTypes
    <3> QED  BY <3>1 DEF Waiting
  <2>3. \A o \in ToSet(filled) : o.status \in {"FILLED", "REJECTED"}
    <3>1. \A o \in ToSet(filled) : o \in Done
      BY <2>1, ToSetElements DEF BrokerTypes
    <3> QED  BY <3>1 DEF Done
  <2> QED  BY <2>1, <2>2, <2>3 DEF TypeOK, BrokerTypes, Account, Tracker
<1> QED  BY <1>1, BrokerInvariant, PTL

\* Nothing of an order is lost or filled twice, over any number of partial
\* fills (process_normal_order, the suborders of what was not filled).
THEOREM OrdersAreConserved == Spec => []OrderConserved
<1>1. BrokerInv => OrderConserved
  BY DEF BrokerInv
<1> QED  BY <1>1, BrokerInvariant, PTL

\* Positions are what the filled orders say (on_order_update).
THEOREM PositionsAreTraded == Spec => []PositionIsTraded
<1>1. BrokerInv => PositionIsTraded
  BY DEF BrokerInv
<1> QED  BY <1>1, BrokerInvariant, PTL

\* What is sold was held at the last settlement (closable_quantity, settle).
THEOREM SettledBeforeSold == Spec => []SoldWereSettled
<1>1. BrokerInv => SoldWereSettled
  BY DEF BrokerInv, BrokerTypes, PositionOk, SoldWereSettled
<1> QED  BY <1>1, BrokerInvariant, PTL

\* Money is neither made nor lost (transform_cash_to_market_value and back,
\* the trackers' average prices).
THEOREM BooksAlwaysBalance == Spec => []BooksBalance
<1>1. BrokerInv => BooksBalance
  BY DEF BrokerInv
<1> QED  BY <1>1, BrokerInvariant, PTL

-----------------------------------------------------------------------------
(* How far the account is overdrawn.                                       *)
(*                                                                         *)
(* Funds are checked without the commission, so that a buy costs at most   *)
(* its own commission more than there is.  What else could cost money is a *)
(* sale: a part of one has its share of a commission that was fixed at the *)
(* price of the first part, and may be filled at any later one.  If prices *)
(* lie within the factor that the commission is a fraction of, the share   *)
(* is never more than the part brings in, whatever it is filled at:        *)
(* Covered.                                                                *)

\* the commission on one price is not more than another price
PricesInReach == \A p, q \in Price : p <= FeePer * q

\* no more has been put on o as commission than it brings in at any price
Covered(o) == \A q \in Price : o.cost <= q * o.quantity

Overdrawn(a, orders) ==
    ~a.nan /\ a.cash < 0 =>
        \E o \in ToSet(orders) :
            o.action = "BUY" /\ o.status = "FILLED" /\ a.cash + o.cost >= 0

LEMMA TimesMonotonic ==
    ASSUME NEW a \in Nat, NEW b \in Nat, NEW c \in Nat, a <= b
    PROVE  a * c <= b * c
<1>1. PICK d \in Nat : b = a + d
  <2>1. b - a \in Nat /\ b = a + (b - a)
    OBVIOUS
  <2> QED  BY <2>1
<1>2. b * c = a * c + d * c
  BY <1>1
<1>3. a * c \in Nat /\ d * c \in Nat
  OBVIOUS
<1> QED  BY <1>2, <1>3

\* a share of what is at most x each is at most x each
LEMMA ShareBound ==
    ASSUME NEW k \in Nat, NEW n \in Nat, NEW q \in Nat, q > 0, NEW x \in Nat,
           k <= x * q
    PROVE  (k * n) \div q <= x * n
<1> DEFINE y == k * n
           z == x * n
           d == y \div q
<1>1. y \in Nat /\ z \in Nat
  OBVIOUS
<1>2. y <= z * q
  <2>1. k * n <= (x * q) * n
    <3> DEFINE w == x * q
    <3>1. w \in Nat /\ k <= w
      OBVIOUS
    <3> HIDE DEF w
    <3>2. k * n <= w * n
      BY <3>1, TimesMonotonic
    <3> QED  BY <3>2 DEF w
  <2>2. (x * q) * n = (x * n) * q
    OBVIOUS
  <2> QED  BY <2>1, <2>2
<1> HIDE DEF y, z
<1>3. d \in Nat /\ d * q <= y
  BY <1>1
<1> HIDE DEF d
<1>4. d <= z
  <2> SUFFICES ASSUME z + 1 <= d
               PROVE  FALSE
    BY <1>1, <1>3
  <2>1. (z + 1) * q <= d * q
    BY <1>1, <1>3, TimesMonotonic
  <2>2. (z + 1) * q = z * q + q /\ z * q \in Nat
    BY <1>1
  <2>3. d * q \in Nat
    BY <1>3
  <2> QED  BY <1>1, <1>2, <1>3, <2>1, <2>2, <2>3
<1> QED  BY <1>4 DEF d, y, z

\* A part of an order has no more commission than it brings in, and nor has
\* what is left of it.
LEMMA FillCovered ==
    ASSUME PricesInReach, NEW s, NEW o \in Waiting(s), Covered(o),
           NEW p \in Price, NEW volume \in Nat, NEW m, m = Fill(o, p, volume)
    PROVE  /\ \A q \in Price : m.cost <= q * m.fill
           /\ \A id : m.rest > 0 => Covered(Suborder(m, id))
           /\ m.at = p
<1> DEFINE n == Smaller(volume, o.quantity)
           whole == IF o.cost = 0 THEN Commission(p * n) ELSE o.cost
           cost == IF whole = NaN \/ n = o.quantity THEN whole
                   ELSE (whole * n) \div o.quantity
<1>1. o \in OrderRec /\ o.quantity \in Nat /\ o.quantity > 0
      /\ o.cost \in Int /\ o.cost >= NaN
  BY OrderFields DEF Waiting
<1>2. n \in Nat /\ n <= o.quantity
  BY <1>1 DEF Smaller
<1>3. m.cost = cost /\ m.fill = n /\ m.at = p /\ m.rest = o.quantity - n
  <2>1. m = [o EXCEPT !.status = "FILLED", !.fill = n, !.at = p,
                      !.rest = o.quantity - n, !.cost = cost]
    BY DEF Fill
  <2> HIDE DEF n, cost
  <2> QED  BY <1>1, <2>1 DEF OrderRec
<1>4. /\ p \in Nat /\ FeePer \in Nat /\ FeePer > 0
      /\ \A q \in Price : q \in Nat /\ p <= FeePer * q
  BY BrokerAssumption DEF PricesInReach
<1> HIDE DEF n
<1>5. whole \in Int /\ whole >= NaN
  <2>1. Commission(p * n) \in Nat
    BY <1>2, <1>4, CommissionType
  <2> QED  BY <1>1, <2>1 DEF NaN
<1>6. ASSUME NEW q \in Price
      PROVE  cost \in Int /\ cost >= NaN /\ cost <= q * n
  <2>1. q \in Nat /\ p <= q * FeePer /\ q * n \in Nat /\ q * n <= q * o.quantity
    <3>1. q \in Nat /\ p <= FeePer * q
      BY <1>4
    <3>2. FeePer * q = q * FeePer /\ q * n \in Nat
      BY <1>2, <1>4, <3>1
    <3>3. n * q <= o.quantity * q
      BY <1>1, <1>2, <3>1, TimesMonotonic
    <3>4. n * q = q * n /\ o.quantity * q = q * o.quantity
      BY <1>1, <1>2, <3>1
    <3> QED  BY <3>1, <3>2, <3>3, <3>4
  <2>2. CASE whole = NaN
    BY <2>1, <2>2 DEF NaN
  <2>3. CASE whole # NaN /\ o.cost = 0
    <3>1. whole = (p * n) \div FeePer
      BY <2>3 DEF Commission
    <3>2. (p * n) \div FeePer <= q * n
      BY <1>2, <1>4, <2>1, ShareBound
    <3>3. whole \in Nat /\ whole <= q * n
      BY <1>5, <2>3, <3>1, <3>2 DEF NaN
    <3> HIDE DEF whole
    <3>4. CASE n = o.quantity
      BY <3>3, <3>4 DEF NaN
    <3>5. CASE n # o.quantity
      <4>1. whole <= q * o.quantity
        <5> DEFINE u == q * n
                   v == q * o.quantity
        <5>1. u \in Int /\ v \in Int /\ whole <= u /\ u <= v
          BY <1>1, <2>1, <3>3
        <5> HIDE DEF u, v
        <5>2. whole <= v
          BY <3>3, <5>1
        <5> QED  BY <5>2 DEF v
      <4>2. (whole * n) \div o.quantity <= q * n
        BY <1>1, <1>2, <2>1, <3>3, <4>1, ShareBound
      <4>3. (whole * n) \div o.quantity \in Nat
        BY <1>1, <1>2, <3>3, Division
      <4>4. cost = (whole * n) \div o.quantity
        BY <2>3, <3>5
      <4> HIDE DEF cost
      <4> QED  BY <4>2, <4>3, <4>4 DEF NaN
    <3> QED  BY <3>4, <3>5
  <2>4. CASE whole # NaN /\ o.cost # 0
    <3>1. whole = o.cost /\ whole \in Nat /\ whole <= q * o.quantity
      BY <1>5, <2>4 DEF Covered, NaN
    <3> HIDE DEF whole
    <3>2. CASE n = o.quantity
      BY <3>1, <3>2 DEF NaN
    <3>3. CASE n # o.quantity
      <4>1. (whole * n) \div o.quantity <= q * n
        BY <1>1, <1>2, <2>1, <3>1, ShareBound
      <4>2. (whole * n) \div o.quantity \in Nat
        BY <1>1, <1>2, <3>1, Division
      <4>3. cost = (whole * n) \div o.quantity
        BY <2>4, <3>3
      <4> HIDE DEF cost
      <4> QED  BY <4>1, <4>2, <4>3 DEF NaN
    <3> QED  BY <3>2, <3>3
  <2> QED  BY <2>2, <2>3, <2>4
<1> HIDE DEF cost
<1>7. ASSUME NEW id, m.rest > 0
      PROVE  Covered(Suborder(m, id))
  <2>1. /\ Suborder(m, id).quantity = m.rest
        /\ Suborder(m, id).cost = IF m.fill = 0 \/ m.cost = NaN THEN NaN
                                  ELSE (m.cost * m.rest) \div m.fill
    BY DEF Suborder, Order
  <2> SUFFICES ASSUME NEW q \in Price
               PROVE  Suborder(m, id).cost <= q * m.rest
    BY <2>1 DEF Covered
  <2>2. q \in Nat /\ m.rest \in Nat /\ q * m.rest \in Nat
    BY <1>1, <1>2, <1>3, <1>4
  <2>3. CASE m.fill = 0 \/ m.cost = NaN
    BY <2>1, <2>2, <2>3 DEF NaN
  <2>4. CASE ~(m.fill = 0 \/ m.cost = NaN)
    <3>1. m.cost \in Nat /\ m.fill \in Nat /\ m.fill > 0 /\ m.cost <= q * m.fill
      BY <1>2, <1>3, <1>6, <2>4 DEF NaN
    <3>2. (m.cost * m.rest) \div m.fill <= q * m.rest
      <4> DEFINE a == m.cost
                 b == m.rest
                 c == m.fill
      <4>1. a \in Nat /\ b \in Nat /\ c \in Nat /\ c > 0 /\ a <= q * c
        BY <2>2, <3>1
      <4> HIDE DEF a, b, c
      <4>2. (a * b) \div c <= q * b
        BY <2>2, <4>1, ShareBound
      <4> QED  BY <4>2 DEF a, b, c
    <3> QED  BY <2>1, <2>4, <3>2
  <2> QED  BY <2>3, <2>4
<1> QED  BY <1>2, <1>3, <1>6, <1>7

Match(o, t, a, p) == IF o.action = "BUY" THEN MatchBuy(o, t, a) ELSE MatchSell(o, t, p)

\* a match is a part of an order at a price of the quote, and a buy that is
\* carried out has the funds
LEMMA MatchedAt ==
    ASSUME NEW s, NEW o \in Waiting(s), NEW t \in Quote, NEW a \in Account, NEW p, NEW m,
           m = Match(o, t, a, p)
    PROVE  \/ m = o
           \/ m = Rejected(o)
           \/ /\ \E price \in Price, volume \in Nat : m = Fill(o, price, volume)
              /\ o.action = "BUY" /\ ~a.nan => m.at * m.fill <= a.cash
<1>1. /\ t.last \in Price /\ t.bid \in Price /\ t.asks \in Nat /\ t.bids \in Nat
      /\ t.last \in Nat
  <2>1. t \in [last : Price, bid : Price, asks : Nat, bids : Nat,
               up : {0} \union Price, down : {0} \union Price]
    BY BrokerAssumption
  <2> QED  BY <2>1, QuoteFields
<1>2. o \in OrderRec /\ o.quantity \in Nat /\ o.price \in Nat /\ a.cash \in Int
  BY OrderFields DEF Waiting, Account
<1>3. CASE o.action # "BUY"
  <2>1. m = MatchSell(o, t, p)
    BY <1>3 DEF Match
  <2>2. (IF Market(o) THEN t.last ELSE t.bid) \in Price
    BY <1>1
  <2>3. m = o \/ m = Rejected(o)
        \/ m = Fill(o, IF Market(o) THEN t.last ELSE t.bid, t.bids)
    BY <2>1 DEF MatchSell
  <2> QED  BY <1>1, <1>3, <2>2, <2>3
<1>4. CASE o.action = "BUY"
  <2>1. m = MatchBuy(o, t, a)
    BY <1>4 DEF Match
  <2>2. CASE IsOverLimitUp(o, t) \/ (Needed(o, t) > a.cash /\ ~a.nan)
    BY <2>1, <2>2 DEF MatchBuy
  <2>3. CASE ~(IsOverLimitUp(o, t) \/ (Needed(o, t) > a.cash /\ ~a.nan))
    <3>1. CASE ~Market(o) /\ o.price < t.last
      BY <2>1, <2>3, <3>1 DEF MatchBuy
    <3>2. CASE ~(~Market(o) /\ o.price < t.last)
      <4>1. m = Fill(o, t.last, t.asks)
        BY <2>1, <2>3, <3>2 DEF MatchBuy
      <4>2. /\ m.at = t.last /\ m.fill \in Nat /\ m.fill <= o.quantity
        <5>1. m.at = t.last /\ m.fill = Smaller(t.asks, o.quantity)
          BY <1>2, <4>1 DEF Fill, OrderRec
        <5> QED  BY <1>1, <1>2, <5>1 DEF Smaller
      <4>3. t.last * m.fill <= Needed(o, t) /\ Needed(o, t) \in Nat
        <5> DEFINE price == IF Market(o) THEN t.last ELSE o.price
                   n == m.fill
        <5>1. price \in Nat /\ t.last <= price /\ n \in Nat /\ n <= o.quantity
          BY <1>1, <1>2, <3>2, <4>2
        <5>2. Needed(o, t) = price * o.quantity
          BY DEF Needed
        <5> HIDE DEF price, n
        <5>3. t.last * n <= price * n
          BY <1>1, <5>1, TimesMonotonic
        <5>4. n * price <= o.quantity * price
          BY <1>2, <5>1, TimesMonotonic
        <5>5. /\ n * price = price * n /\ o.quantity * price = price * o.quantity
              /\ t.last * n \in Nat /\ price * n \in Nat /\ price * o.quantity \in Nat
          BY <1>1, <1>2, <5>1
        <5> DEFINE u == t.last * n
                   v == price * n
                   w == price * o.quantity
        <5>6. u \in Nat /\ v \in Nat /\ w \in Nat /\ u <= v /\ v <= w
          BY <5>3, <5>4, <5>5
        <5> HIDE DEF u, v, w
        <5>7. u <= w
          BY <5>6
        <5> QED  BY <5>2, <5>6, <5>7 DEF u, w, n
      <4>4. ~a.nan => m.at * m.fill <= a.cash
        <5> SUFFICES ASSUME ~a.nan
                     PROVE  m.at * m.fill <= a.cash
          OBVIOUS
        <5> DEFINE u == t.last * m.fill
                   w == Needed(o, t)
        <5>1. u <= w /\ w \in Nat /\ u \in Nat
          BY <1>1, <4>2, <4>3
        <5>2. ~(w > a.cash)
          BY <2>3
        <5> HIDE DEF u, w
        <5>3. u <= a.cash
          BY <1>2, <5>1, <5>2
        <5> QED  BY <4>2, <5>3 DEF u
      <4> QED  BY <1>1, <4>1, <4>4
    <3> QED  BY <3>1, <3>2
  <2> QED  BY <2>2, <2>3
<1> QED  BY <1>3, <1>4

\* One order: what it leaves has its commission covered, and it overdraws the
\* account by its own commission at most.
LEMMA OverdrawnStep ==
    ASSUME PricesInReach, NEW s, NEW o \in Waiting(s), Covered(o), NEW t \in Quote,
           NEW a \in Account, NEW p, NEW m,
           m = Match(o, t, a, p),
           m \in OrderRec, NEW orders \in Seq(OrderRec), Overdrawn(a, orders), NEW more,
           ToSet(orders) \subseteq ToSet(more),
           m.status = "FILLED" => m \in ToSet(more)
    PROVE  /\ Overdrawn(Paid(a, m), more)
           /\ \A id : m.rest > 0 => Covered(Suborder(m, id))
           /\ m.status = "PENDING_NEW" => m = o
<1>1. /\ a.cash \in Int /\ a.fees \in Nat /\ a.nan \in BOOLEAN
      /\ o.status = "PENDING_NEW" /\ o.rest = 0 /\ o.action \in {"BUY", "SELL"}
      /\ o \in OrderRec
  BY DEF Account, Waiting
<1>2. Overdrawn(a, more)
  BY DEF Overdrawn
<1>3. CASE m = o
  <2>1. Paid(a, m) = a /\ ~(m.rest > 0)
    BY <1>1, <1>3 DEF Paid
  <2> QED  BY <1>2, <1>3, <2>1
<1>4. CASE m = Rejected(o)
  <2>1. m.status = "REJECTED" /\ m.rest = 0
    BY <1>1, <1>4 DEF Rejected, OrderRec
  <2>2. Paid(a, m) = a /\ ~(m.rest > 0) /\ m.status # "PENDING_NEW"
    BY <2>1 DEF Paid
  <2> QED  BY <1>2, <2>2
<1>5. CASE /\ \E price \in Price, volume \in Nat : m = Fill(o, price, volume)
           /\ o.action = "BUY" /\ ~a.nan => m.at * m.fill <= a.cash
  <2>1. PICK price \in Price, volume \in Nat : m = Fill(o, price, volume)
    BY <1>5
  <2>2. /\ \A q \in Price : m.cost <= q * m.fill
        /\ \A id : m.rest > 0 => Covered(Suborder(m, id))
        /\ m.at = price
    BY <2>1, FillCovered
  <2>3. m.status = "FILLED" /\ m.action = o.action
    BY <1>1, <2>1 DEF Fill, OrderRec
  <2>4. /\ m.at \in Nat /\ m.fill \in Nat /\ m.cost \in Int /\ m.cost >= NaN
    BY OrderFields
  <2>5. Overdrawn(Paid(a, m), more)
    <3>1. CASE m.cost = NaN
      <4>1. Paid(a, m) = [a EXCEPT !.nan = TRUE]
        BY <2>3, <3>1 DEF Paid
      <4>2. Paid(a, m).nan
        BY <4>1 DEF Account
      <4> QED  BY <4>2 DEF Overdrawn
    <3>2. CASE m.cost # NaN
      <4> DEFINE v == m.at * m.fill
                 cash == a.cash - m.cost + (IF m.action = "BUY" THEN -v ELSE v)
      <4>1. v \in Nat /\ m.cost \in Nat /\ m.cost <= v
        <5>1. m.cost <= price * m.fill
          BY <2>2
        <5> QED  BY <2>2, <2>4, <3>2, <5>1 DEF NaN
      <4>2. Paid(a, m).cash = cash /\ Paid(a, m).nan = a.nan
        <5>1. Paid(a, m) = [a EXCEPT !.cash = cash, !.fees = @ + m.cost]
          BY <2>3, <3>2 DEF Paid, Account
        <5> HIDE DEF cash
        <5> QED  BY <5>1 DEF Account
      <4>3. CASE m.action = "BUY"
        <5> SUFFICES ASSUME ~a.nan
                     PROVE  Overdrawn(Paid(a, m), more)
          BY <4>2 DEF Overdrawn
        <5>1. v <= a.cash /\ cash = a.cash - m.cost + (-v)
          BY <1>5, <2>3, <4>3
        <5> HIDE DEF v, cash
        <5>2. cash + m.cost >= 0
          BY <1>1, <4>1, <5>1
        <5>3. Paid(a, m).cash + m.cost >= 0
          BY <4>2, <5>2
        <5> QED  BY <2>3, <4>3, <5>3 DEF Overdrawn
      <4>4. CASE m.action # "BUY"
        <5>1. cash = a.cash - m.cost + v
          BY <4>4
        <5> HIDE DEF v, cash
        <5>2. cash \in Int /\ cash >= a.cash
          BY <1>1, <4>1, <5>1
        <5> SUFFICES ASSUME ~Paid(a, m).nan, Paid(a, m).cash < 0
                     PROVE  \E u \in ToSet(more) :
                                /\ u.action = "BUY" /\ u.status = "FILLED"
                                /\ Paid(a, m).cash + u.cost >= 0
          BY DEF Overdrawn
        <5>3. a.cash < 0 /\ ~a.nan
          BY <1>1, <4>2, <5>2
        <5>4. PICK u \in ToSet(orders) : /\ u.action = "BUY" /\ u.status = "FILLED"
                                         /\ a.cash + u.cost >= 0
          BY <5>3 DEF Overdrawn
        <5>5. u.cost \in Int
          BY ToSetElements, OrderFields
        <5>6. Paid(a, m).cash + u.cost >= 0
          BY <1>1, <4>2, <5>2, <5>4, <5>5
        <5> QED  BY <5>4, <5>6
      <4> QED  BY <4>3, <4>4
    <3> QED  BY <3>1, <3>2
  <2> QED  BY <2>2, <2>3, <2>5
<1> QED  BY <1>3, <1>4, <1>5, MatchedAt

\* what is so of all that an iteration of the loop leaves
LoopCovered(st) ==
    /\ Overdrawn(st.account, st.filled)
    /\ \A o \in ToSet(st.kept) \union ToSet(st.parts) : Covered(o)

LEMMA LoopCoveredStep ==
    ASSUME PricesInReach, NEW s \in Symbol, NEW t \in Quote, NEW o \in Waiting(s), Covered(o),
           NEW st, LoopTypes(st, s), LoopCovered(st),
           NEW next, next = Step(st, o, t)
    PROVE  LoopCovered(next)
<1> DEFINE m == IF o.action = "BUY" THEN MatchBuy(o, t, st.account)
                ELSE MatchSell(o, t, st.position)
           done == m.status # "PENDING_NEW"
           split == m.rest > 0
           sub == Suborder(m, st.id + 1)
<1>1. /\ st.account \in Account /\ PositionOk(st.position)
      /\ st.filled \in Seq(Done) /\ st.kept \in Seq(Waiting(s)) /\ st.parts \in Seq(Waiting(s))
      /\ st.id \in Nat /\ st.position.closable \in Nat
  BY DEF LoopTypes, PositionOk, Tracker
<1>2. /\ next.account = Paid(st.account, m)
      /\ next.filled = IF done THEN Append(st.filled, m) ELSE st.filled
      /\ next.kept = IF done THEN st.kept ELSE Append(st.kept, m)
      /\ next.parts = IF split THEN Append(st.parts, sub) ELSE st.parts
  BY DEF Step
<1>3. Outcome(o, m, st.position)
  <2>1. CASE o.action = "BUY"
    BY <2>1, MatchBuyOrder
  <2>2. CASE o.action # "BUY"
    BY <1>1, <2>2, MatchSellOrder
  <2> QED  BY <2>1, <2>2
<1>4. m \in OrderRec
  BY <1>3 DEF Outcome, Same, Waiting
<1>5. m = IF o.action = "BUY" THEN MatchBuy(o, t, st.account)
          ELSE MatchSell(o, t, st.position)
  OBVIOUS
<1> HIDE DEF m
<1>6. /\ done => m \in Done
      /\ ~done => m \in Waiting(s)
      /\ split => sub \in Waiting(s)
  <2>1. done => m \in Done
    BY <1>1, <1>3, OutcomeShares
  <2>2. ~done => m = o
    BY <1>1, <1>3, OutcomeShares
  <2>3. split => sub \in Waiting(s)
    <3>1. st.id + 1 \in Nat
      BY <1>1
    <3> QED  BY <1>3, <3>1, SuborderWaits
  <2> QED  BY <2>1, <2>2, <2>3
<1>7. /\ ToSet(next.filled) = IF done THEN ToSet(st.filled) \union {m} ELSE ToSet(st.filled)
      /\ ToSet(next.kept) = IF done THEN ToSet(st.kept) ELSE ToSet(st.kept) \union {m}
      /\ ToSet(next.parts) = IF split THEN ToSet(st.parts) \union {sub} ELSE ToSet(st.parts)
  <2>1. done => ToSet(Append(st.filled, m)) = ToSet(st.filled) \union {m}
    BY <1>1, <1>6, ToSetAppend
  <2>2. ~done => ToSet(Append(st.kept, m)) = ToSet(st.kept) \union {m}
    BY <1>1, <1>6, ToSetAppend
  <2>3. split => ToSet(Append(st.parts, sub)) = ToSet(st.parts) \union {sub}
    BY <1>1, <1>6, ToSetAppend
  <2> QED  BY <1>2, <2>1, <2>2, <2>3
<1>8. /\ Overdrawn(next.account, next.filled)
      /\ split => Covered(sub)
      /\ ~done => m = o
  <2>1. ToSet(st.filled) \subseteq ToSet(next.filled)
        /\ (m.status = "FILLED" => m \in ToSet(next.filled))
    BY <1>7
  <2>2. Overdrawn(st.account, st.filled) /\ st.filled \in Seq(OrderRec)
    BY <1>1, OrderSeqs DEF LoopCovered
  <2>3. /\ Overdrawn(Paid(st.account, m), next.filled)
        /\ \A id : m.rest > 0 => Covered(Suborder(m, id))
        /\ m.status = "PENDING_NEW" => m = o
    <3> DEFINE a == st.account
               p == st.position
               orders == st.filled
               more == next.filled
    <3>1. /\ a \in Account /\ orders \in Seq(OrderRec) /\ Overdrawn(a, orders)
          /\ ToSet(orders) \subseteq ToSet(more)
          /\ m.status = "FILLED" => m \in ToSet(more)
          /\ m = Match(o, t, a, p)
      BY <1>1, <1>5, <2>1, <2>2 DEF Match
    <3> HIDE DEF a, p, orders, more
    <3>2. /\ Overdrawn(Paid(a, m), more)
          /\ \A id : m.rest > 0 => Covered(Suborder(m, id))
          /\ m.status = "PENDING_NEW" => m = o
      BY <1>4, <3>1, OverdrawnStep
    <3> QED  BY <3>2 DEF a, more
  <2> QED  BY <1>2, <2>3
<1> QED  BY <1>7, <1>8 DEF LoopCovered

\* The account is overdrawn by the commission of a buy at most, and what waits
\* has no more commission than it brings in.
CoveredInv ==
    /\ OverdrawnByFeeOnly
    /\ \A s \in Symbol : \A o \in ToSet(unfilled[s]) : Covered(o)

LEMMA TickCovered ==
    ASSUME PricesInReach, BrokerInv, CoveredInv, NEW s \in Symbol, NEW t \in Quote,
           OnTick(s, t)
    PROVE  CoveredInv'
<1> DEFINE before == [account |-> account, position |-> position[s],
                      realised |-> realised, filled |-> filled,
                      kept |-> << >>, parts |-> << >>, id |-> lastId]
           orders == unfilled[s]
           st == Matching(before, orders, t)
           after == st[Len(orders)]
           S == {i \in 0..Len(orders) : LoopCovered(st[i])}
<1>1. /\ account' = after.account
      /\ filled' = after.filled
      /\ unfilled' = [unfilled EXCEPT ![s] = after.kept \o after.parts]
  BY DEF OnTick
<1>2. /\ before.account = account /\ before.position = position[s]
      /\ before.realised = realised /\ before.filled = filled
      /\ before.kept = << >> /\ before.parts = << >> /\ before.id = lastId
  OBVIOUS
<1> HIDE DEF before
<1>3. /\ BrokerTypes /\ orders \in Seq(Waiting(s)) /\ lastId \in Nat /\ Len(orders) \in Nat
      /\ unfilled \in [Symbol -> Seq(OrderRec)]
  BY LenProperties, BrokerAssumption DEF BrokerInv, BrokerTypes
<1>4. LoopStart(before, s)
  <2>1. << >> \in Seq(Waiting(s))
    BY EmptySeq
  <2> QED  BY <1>2, <1>3, <2>1 DEF LoopStart, LoopTypes, BrokerTypes
<1>5. \A o \in ToSet(orders) : Covered(o)
  BY DEF CoveredInv
<1> HIDE DEF orders
<1>6. st[0] = before /\ \A i \in 1..Len(orders) : st[i] = Step(st[i - 1], orders[i], t)
  <2> HIDE DEF after, S
  <2>1. Len(orders) \in Nat
    BY <1>3
  <2>2. /\ Matching(before, orders, t)[0] = before
        /\ \A i \in 1..Len(orders) : Matching(before, orders, t)[i]
            = Step(Matching(before, orders, t)[i - 1], orders[i], t)
    BY ONLY <2>1, MatchingStep
  <2> QED  BY <2>2 DEF st
<1>7. \A i \in 0..Len(orders) : LoopTypes(st[i], s)
  <2>1. \A i \in 0..Len(orders) : LoopInv(st[i], before, orders, s, i)
    BY <1>3, <1>4, Loop
  <2> QED  BY <2>1 DEF LoopInv
<1> HIDE DEF st
<1>8. 0 \in S
  <2>1. Overdrawn(account, filled)
    BY DEF CoveredInv, OverdrawnByFeeOnly, Overdrawn
  <2>2. ToSet(<< >>) = {}
    <3>1. DOMAIN << >> = {}
      OBVIOUS
    <3> QED  BY <3>1 DEF ToSet
  <2> QED  BY <1>2, <1>3, <1>6, <2>1, <2>2 DEF LoopCovered
<1>9. ASSUME NEW i \in 0..Len(orders), i < Len(orders), i \in S
      PROVE  i + 1 \in S
  <2>1. i + 1 \in 1..Len(orders) /\ i + 1 - 1 = i /\ i + 1 \in 0..Len(orders)
    BY <1>3, <1>9
  <2>2. st[i + 1] = Step(st[i], orders[i + 1], t)
    BY <1>6, <2>1
  <2>3. orders[i + 1] \in Waiting(s) /\ orders[i + 1] \in ToSet(orders)
    BY <1>3, <2>1, ElementOfSeq, ToSetElements
  <2>4. Covered(orders[i + 1]) /\ LoopTypes(st[i], s) /\ LoopCovered(st[i])
    BY <1>5, <1>7, <1>9, <2>3
  <2>5. LoopCovered(st[i + 1])
    BY <2>2, <2>3, <2>4, LoopCoveredStep
  <2> QED  BY <2>1, <2>5
<1>10. \A i \in 0..Len(orders) : i \in S
  <2> HIDE DEF S
  <2> QED  BY <1>3, <1>8, <1>9, Induct
<1>11. LoopCovered(after) /\ LoopTypes(after, s)
  BY <1>3, <1>7, <1>10
<1> HIDE DEF after
<1>12. OverdrawnByFeeOnly'
  BY <1>1, <1>11 DEF LoopCovered, Overdrawn, OverdrawnByFeeOnly
<1>13. ASSUME NEW u \in Symbol, NEW o \in ToSet(unfilled'[u])
       PROVE  Covered(o)
  <2>1. CASE u = s
    <3>1. unfilled'[u] = after.kept \o after.parts
      BY <1>1, <1>3, <2>1
    <3>2. o \in ToSet(after.kept) \union ToSet(after.parts)
      BY <1>11, <1>13, <3>1, ToSetJoined DEF LoopTypes
    <3> QED  BY <1>11, <3>2 DEF LoopCovered
  <2>2. CASE u # s
    <3>1. unfilled'[u] = unfilled[u]
      BY <1>1, <1>3, <2>2
    <3> QED  BY <1>13, <3>1 DEF CoveredInv
  <2> QED  BY <2>1, <2>2
<1> QED  BY <1>12, <1>13 DEF CoveredInv

\* what is filled stays, and nothing is taken from the account that it does
\* not have
LEMMA FundsCovered ==
    ASSUME BrokerInv, CoveredInv, NEW x \in Done, filled' = Append(filled, x),
           account'.nan = account.nan, account'.cash \in Int,
           account'.cash >= account.cash \/ account'.cash >= 0 \/ account.nan,
           unfilled' = unfilled
    PROVE  CoveredInv'
<1>1. /\ account.cash \in Int /\ filled \in Seq(OrderRec) /\ filled \in Seq(Done)
      /\ account.nan \in BOOLEAN
  BY InOrders DEF BrokerInv, BrokerTypes, Account
<1>2. ToSet(filled') = ToSet(filled) \union {x}
  BY <1>1, ToSetAppend
<1>3. OverdrawnByFeeOnly'
  <2> SUFFICES ASSUME ~account'.nan, account'.cash < 0
               PROVE  \E o \in ToSet(filled') :
                        /\ o.action = "BUY" /\ o.status = "FILLED"
                        /\ account'.cash + o.cost >= 0
    BY DEF OverdrawnByFeeOnly
  <2>1. ~account.nan /\ account.cash < 0 /\ account'.cash >= account.cash
    BY <1>1
  <2>2. PICK o \in ToSet(filled) : /\ o.action = "BUY" /\ o.status = "FILLED"
                                   /\ account.cash + o.cost >= 0
    BY <2>1 DEF CoveredInv, OverdrawnByFeeOnly
  <2>3. o.cost \in Int
    BY <1>1, ToSetElements, OrderFields
  <2>4. account'.cash + o.cost >= 0
    BY <1>1, <2>1, <2>2, <2>3
  <2> QED  BY <1>2, <2>2, <2>4
<1> QED  BY <1>3 DEF CoveredInv

LEMMA SpecialCovered ==
    ASSUME BrokerInv, CoveredInv, NEW m \in Money,
           \/ DepositCash(m) \/ WithdrawCash(m)
           \/ \E s \in Symbol : \E n \in {0} \union Quantity : DividendOrder(s, n, m)
    PROVE  CoveredInv'
<1>1. BrokerTypes /\ account \in Account /\ account.cash \in Int /\ m \in Nat
  BY BrokerAssumption DEF BrokerInv, BrokerTypes, Account
<1>2. unfilled' = unfilled
  BY DEF DepositCash, WithdrawCash, DividendOrder
<1>3. /\ account'.nan = account.nan /\ account'.cash \in Int
      /\ account'.cash >= account.cash \/ account'.cash >= 0 \/ account.nan
  <2>1. CASE DepositCash(m)
    <3>1. account' = [account EXCEPT !.cash = @ + m]
      BY <2>1 DEF DepositCash
    <3> QED  BY <1>1, <3>1 DEF Account
  <2>2. CASE WithdrawCash(m)
    <3>1. CASE account.cash < m /\ ~account.nan
      <4>1. account' = account
        BY <2>2, <3>1 DEF WithdrawCash
      <4> QED  BY <1>1, <4>1
    <3>2. CASE ~(account.cash < m /\ ~account.nan)
      <4>1. account' = [account EXCEPT !.cash = @ - m]
        BY <2>2, <3>2 DEF WithdrawCash
      <4>2. account'.cash = account.cash - m /\ account'.nan = account.nan
        BY <4>1 DEF Account
      <4> QED  BY <1>1, <3>2, <4>2
    <3> QED  BY <3>1, <3>2
  <2>3. CASE \E s \in Symbol : \E n \in {0} \union Quantity : DividendOrder(s, n, m)
    <3>1. PICK n : account' = [account EXCEPT !.cash = IF n = 0 THEN @ ELSE @ + m]
      BY <2>3 DEF DividendOrder
    <3> QED  BY <1>1, <3>1 DEF Account
  <2> QED  BY <2>1, <2>2, <2>3
<1>4. PICK x \in Done : filled' = Append(filled, x)
  <2>1. CASE DepositCash(m)
    <3>1. Special("DEPOSIT", None, 1, m, "FILLED")
      BY <2>1 DEF DepositCash
    <3> QED  BY <1>1, <3>1, SpecialOrder
  <2>2. CASE WithdrawCash(m)
    <3>1. Special("WITHDRAW", None, 1, m, "REJECTED")
          \/ Special("WITHDRAW", None, 1, m, "FILLED")
      BY <2>2 DEF WithdrawCash
    <3>2. CASE Special("WITHDRAW", None, 1, m, "REJECTED")
      BY <1>1, <3>2, SpecialOrder
    <3>3. CASE Special("WITHDRAW", None, 1, m, "FILLED")
      BY <1>1, <3>3, SpecialOrder
    <3> QED  BY <3>1, <3>2, <3>3
  <2>3. CASE \E s \in Symbol : \E n \in {0} \union Quantity : DividendOrder(s, n, m)
    <3>1. PICK s \in Symbol, n \in {0} \union Quantity : DividendOrder(s, n, m)
      BY <2>3
    <3>2. Special("DIVIDEND", s, n, m, "FILLED") /\ n \in Nat
      BY <3>1, BrokerAssumption DEF DividendOrder
    <3> QED  BY <1>1, <3>2, SpecialOrder
  <2> QED  BY <2>1, <2>2, <2>3
<1> QED  BY <1>2, <1>3, <1>4, FundsCovered

LEMMA CommitCovered ==
    ASSUME BrokerInv, CoveredInv, NEW s \in Symbol, NEW action \in {"BUY", "SELL"},
           NEW n \in Quantity, NEW price \in {0} \union Price,
           CommitOrder(s, action, n, price)
    PROVE  CoveredInv'
<1> DEFINE x == Order(lastId + 1, lastId + 1, s, action, n, price, 0)
<1>1. /\ account' = account /\ filled' = filled
      /\ unfilled' = [unfilled EXCEPT ![s] = Append(@, x)]
  BY DEF CommitOrder
<1>2. /\ BrokerTypes /\ unfilled \in [Symbol -> Seq(OrderRec)]
      /\ n \in Nat /\ price \in Nat /\ lastId \in Nat
      /\ \A q \in Price : q \in Nat
  BY BrokerAssumption DEF BrokerInv, BrokerTypes
<1>3. x \in OrderRec
  BY <1>2 DEF Order, OrderRec, Actions, Statuses, NaN
<1>4. Covered(x)
  <2>1. x.cost = 0 /\ x.quantity = n
    BY DEF Order
  <2>2. \A q \in Price : 0 <= q * n
    BY <1>2
  <2> QED  BY <2>1, <2>2 DEF Covered
<1> HIDE DEF x
<1>5. OverdrawnByFeeOnly'
  BY <1>1 DEF CoveredInv, OverdrawnByFeeOnly
<1>6. ASSUME NEW u \in Symbol, NEW o \in ToSet(unfilled'[u])
      PROVE  Covered(o)
  <2>1. CASE u = s
    <3>1. unfilled'[u] = Append(unfilled[u], x) /\ unfilled[u] \in Seq(OrderRec)
      BY <1>1, <1>2, <2>1
    <3>2. ToSet(unfilled'[u]) = ToSet(unfilled[u]) \union {x}
      BY <1>3, <3>1, ToSetAppend
    <3> QED  BY <1>4, <1>6, <3>2 DEF CoveredInv
  <2>2. CASE u # s
    <3>1. unfilled'[u] = unfilled[u]
      BY <1>1, <1>2, <2>2
    <3> QED  BY <1>6, <3>1 DEF CoveredInv
  <2> QED  BY <2>1, <2>2
<1> QED  BY <1>5, <1>6 DEF CoveredInv

\* Cash goes below zero by the commission of one buy at most, over any number
\* of orders, partial fills and quotes, as long as no price is further from
\* another than the factor the commission is a fraction of (3333 with the rate
\* of a broker's default configuration, 0.0003).  Otherwise the rest of a sale
\* may cost more than it brings in (process_market_order, the suborders of
\* process_normal_order).
THEOREM OverdrawnByOneFee ==
    ASSUME PricesInReach
    PROVE  Spec => []OverdrawnByFeeOnly
<1>1. Init => CoveredInv
  <2> SUFFICES ASSUME Init
               PROVE  CoveredInv
    OBVIOUS
  <2>1. ToSet(<< >>) = {}
    <3>1. DOMAIN << >> = {}
      OBVIOUS
    <3> QED  BY <3>1 DEF ToSet
  <2>2. account.cash = 0 /\ \A s \in Symbol : unfilled[s] = << >>
    BY DEF Init
  <2> QED  BY <2>1, <2>2 DEF CoveredInv, OverdrawnByFeeOnly
<1>2. BrokerInv /\ CoveredInv /\ [Next]_vars => CoveredInv'
  <2> SUFFICES ASSUME BrokerInv, CoveredInv, [Next]_vars
               PROVE  CoveredInv'
    OBVIOUS
  <2>1. CASE \E m \in Money : DepositCash(m) \/ WithdrawCash(m)
    BY <2>1, SpecialCovered
  <2>2. CASE \E s \in Symbol : \E n \in {0} \union Quantity, m \in Money :
                DividendOrder(s, n, m)
    BY <2>2, SpecialCovered
  <2>3. CASE \E s \in Symbol : \E action \in {"BUY", "SELL"}, n \in Quantity,
                p \in {0} \union Price : CommitOrder(s, action, n, p)
    BY <2>3, CommitCovered
  <2>4. CASE \E s \in Symbol : \E t \in Quote : OnTick(s, t)
    BY <2>4, TickCovered
  <2>5. CASE Settle \/ UNCHANGED vars
    <3>1. account' = account /\ filled' = filled /\ unfilled' = unfilled
      BY <2>5 DEF Settle, vars
    <3> QED  BY <3>1 DEF CoveredInv, OverdrawnByFeeOnly
  <2> QED  BY <2>1, <2>2, <2>3, <2>4, <2>5 DEF Next
<1>3. CoveredInv => OverdrawnByFeeOnly
  BY DEF CoveredInv
<1> QED  BY <1>1, <1>2, <1>3, BrokerInvariant, PTL DEF Spec

=============================================================================
