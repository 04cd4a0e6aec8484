-------------------------------- MODULE Broker --------------------------------
(***************************************************************************)
(* The broker of one trader (cerebro_broker): orders, the account's cash,  *)
(* the positions, and the matching of orders with the quotes of a symbol.  *)
(*                                                                         *)
(* Calls come from one thread, as in a backtest; the service calls brokers *)
(* from several threads and without a lock, which is not modelled.  Both   *)
(* exchanges match alike.  Orders short are not implemented in the         *)
(* code (they return 0), nor is cancel_order.                              *)
(*                                                                         *)
(* Amounts of money are integers; the instances choose prices such that    *)
(* commissions, and the shares of them, are whole.  Slippage is 0, as in   *)
(* every account the code opens.  Left out: profit and loss, and units and *)
(* unit_value of the account, which nothing decides on; and dividends on a *)
(* symbol that is not held.                                                *)
(***************************************************************************)
EXTENDS Integers, Sequences, FiniteSets, SequencesExt

CONSTANTS
    Symbol,     \* what is traded
    Price,      \* prices in quotes and limits
    Quantity,   \* quantities of orders
    Quote,      \* quotes: last price, best bid, volumes asked and bid,
                \* limits of the day (0: none)
    Money,      \* amounts paid in, paid out and distributed
    FeePer,     \* the commission of so much money is 1
    MaxId       \* bound on the number of order ids

ASSUME BrokerAssumption ==
    /\ IsFiniteSet(Symbol)
    /\ \A S \in {Price, Quantity, Money} : S \subseteq Nat \ {0}
    /\ Quote \subseteq [last : Price, bid : Price, asks : Nat, bids : Nat,
                       up : {0} \union Price, down : {0} \union Price]
    /\ FeePer \in Nat \ {0} /\ MaxId \in Nat

VARIABLES
    account,    \* cash, transaction_cost, and whether cash is not a number
    position,   \* of each symbol: quantity, closable, avg_price * quantity;
                \* history: quantity at the last settlement, sold since
    unfilled,   \* _unfill_orders of each symbol
    filled,     \* _filled_orders: orders that are done with
    lastId,     \* the last id of _order_id_gen
    realised    \* history: the book value of positions when they were closed

vars == <<account, position, unfilled, filled, lastId, realised>>

Smaller(a, b) == IF a < b THEN a ELSE b

\* a transaction_cost that is not a number (0.0/0.0); others are not negative
NaN == -1

\* an order; root is the order it is a part of (by primary_order_id)
Order(id, root, symbol, action, quantity, price, cost) ==
    [id |-> id, root |-> root, symbol |-> symbol, action |-> action,
     quantity |-> quantity, price |-> price, cost |-> cost,
     status |-> "PENDING_NEW", fill |-> 0, at |-> 0, rest |-> 0]

Market(o) == o.price = 0
None == "none"

Init ==
    /\ account = [cash |-> 0, fees |-> 0, nan |-> FALSE]
    /\ position = [s \in Symbol |-> [quantity |-> 0, closable |-> 0, book |-> 0,
                                     settled |-> 0, sold |-> 0]]
    /\ unfilled = [s \in Symbol |-> << >>]
    /\ filled = << >>
    /\ lastId = 0
    /\ realised = 0

NewId == lastId < MaxId /\ lastId' = lastId + 1

-----------------------------------------------------------------------------
(* Orders that are carried out as they are committed.                      *)

Special(action, symbol, quantity, price, status) ==
    filled' = Append(filled,
        [Order(lastId + 1, lastId + 1, symbol, action, quantity, price, 0)
            EXCEPT !.status = status])

DepositCash(m) ==
    /\ NewId
    /\ account' = [account EXCEPT !.cash = @ + m]
    /\ Special("DEPOSIT", None, 1, m, "FILLED")
    /\ UNCHANGED <<position, unfilled, realised>>

WithdrawCash(m) ==
    /\ NewId
    /\ IF account.cash < m /\ ~account.nan
       THEN /\ Special("WITHDRAW", None, 1, m, "REJECTED")
            /\ UNCHANGED account
       ELSE /\ Special("WITHDRAW", None, 1, m, "FILLED")
            /\ account' = [account EXCEPT !.cash = @ - m]
    /\ UNCHANGED <<position, unfilled, realised>>

\* a plausible bug: what is bought may be sold at once
BoughtToday(p, quantity, price) ==
    [p EXCEPT !.quantity = @ + quantity, !.closable = @ + quantity,
              !.book = @ + quantity * price]

\* CerebroPositionTracker.buy: what is bought may be sold after settlement
Bought(p, quantity, price) ==
    [p EXCEPT !.quantity = @ + quantity, !.book = @ + quantity * price]

\* a dividend in shares and in cash; cash comes with shares only
DividendOrder(s, quantity, m) ==
    /\ position[s].quantity > 0
    /\ NewId
    /\ position' = [position EXCEPT ![s] = Bought(@, quantity, 0)]
    /\ account' = [account EXCEPT !.cash = IF quantity = 0 THEN @ ELSE @ + m]
    /\ Special("DIVIDEND", s, quantity, m, "FILLED")
    /\ UNCHANGED <<unfilled, realised>>

-----------------------------------------------------------------------------
(* Orders that wait for a quote.                                           *)

\* buy and sell; price 0 makes it a market order
CommitOrder(s, action, quantity, price) ==
    /\ NewId
    /\ unfilled' = [unfilled EXCEPT ![s] = Append(@,
            Order(lastId + 1, lastId + 1, s, action, quantity, price, 0))]
    /\ UNCHANGED <<account, position, filled, realised>>

IsOverLimitUp(o, t) == t.up > 0 /\ (t.last >= t.up \/ o.price > t.up)
IsOverLimitDown(o, t) ==
    t.down > 0 /\ (t.last <= t.down \/ (~Market(o) /\ o.price < t.down))

Commission(amount) == amount \div FeePer

\* filled as far as the volume goes; a part has its commission from the
\* order it is a part of
Fill(o, price, volume) ==
    LET n == Smaller(volume, o.quantity)
        whole == IF o.cost = 0 THEN Commission(price * n) ELSE o.cost
    IN  [o EXCEPT !.status = "FILLED", !.fill = n, !.at = price,
                  !.rest = o.quantity - n,
                  !.cost = IF whole = NaN \/ n = o.quantity THEN whole
                           ELSE (whole * n) \div o.quantity]

Rejected(o) == [o EXCEPT !.status = "REJECTED"]

\* the money a buy may need; commissions do not count
Needed(o, t) == (IF Market(o) THEN t.last ELSE o.price) * o.quantity

\* process_limit_order and process_market_order, by the account a and the
\* position p; an order whose price is not met stays as it is
MatchBuy(o, t, a) ==
    IF IsOverLimitUp(o, t) \/ (Needed(o, t) > a.cash /\ ~a.nan) THEN Rejected(o)
    ELSE IF ~Market(o) /\ o.price < t.last THEN o
    ELSE Fill(o, t.last, t.asks)

\* a plausible bug: any position will do
MatchSellAny(o, t, p) ==
    IF IsOverLimitDown(o, t) \/ p.quantity = 0 THEN Rejected(o)
    ELSE IF ~Market(o) /\ o.price > t.last THEN o
    ELSE Fill(o, IF Market(o) THEN t.last ELSE t.bid, t.bids)

MatchSell(o, t, p) ==
    IF IsOverLimitDown(o, t) \/ o.quantity > p.closable THEN Rejected(o)
    ELSE IF ~Market(o) /\ o.price > t.last THEN o
    ELSE Fill(o, IF Market(o) THEN t.last ELSE t.bid, t.bids)

\* a plausible bug: the price of the order counts, not that of the quote
PaidAsOrdered(a, o) ==
    IF o.status # "FILLED" THEN a
    ELSE IF o.cost = NaN THEN [a EXCEPT !.nan = TRUE]
    ELSE LET value == (IF Market(o) THEN o.at ELSE o.price) * o.fill
         IN  [a EXCEPT !.cash = @ - o.cost + (IF o.action = "BUY" THEN -value ELSE value),
                       !.fees = @ + o.cost]

\* transform_cash_to_market_value and transform_market_value_to_cash
Paid(a, o) ==
    IF o.status # "FILLED" THEN a
    ELSE IF o.cost = NaN THEN [a EXCEPT !.nan = TRUE]
    ELSE LET value == o.at * o.fill
         IN  [a EXCEPT !.cash = @ - o.cost + (IF o.action = "BUY" THEN -value ELSE value),
                       !.fees = @ + o.cost]

\* on_order_update: CerebroPositionTracker.buy and sell
Sold(p, quantity, price) ==
    [p EXCEPT !.quantity = @ - quantity, !.closable = @ - quantity,
              !.sold = @ + quantity,
              !.book = IF p.quantity = quantity THEN 0 ELSE @ - quantity * price]

\* a plausible bug: the position grows by what was ordered
HeldAsOrdered(p, o) ==
    IF o.status # "FILLED" \/ o.fill = 0 THEN p
    ELSE IF o.action = "BUY" THEN Bought(p, o.quantity, o.at)
    ELSE Sold(p, o.fill, o.at)

Held(p, o) ==
    IF o.status # "FILLED" \/ o.fill = 0 THEN p
    ELSE IF o.action = "BUY" THEN Bought(p, o.fill, o.at)
    ELSE Sold(p, o.fill, o.at)

Closed(p, o) ==
    IF o.status = "FILLED" /\ o.action = "SELL" /\ o.fill > 0 /\ p.quantity = o.fill
    THEN o.fill * o.at - p.book ELSE 0

\* a plausible bug: the rest is ordered as a whole again
SuborderWhole(o, id) ==
    Order(id, o.root, o.symbol, o.action, o.quantity, o.price,
          IF o.fill = 0 \/ o.cost = NaN THEN NaN ELSE (o.cost * o.rest) \div o.fill)

\* what was not filled is a new order, with the rest of the commission; of
\* nothing filled the rest is 0/0
Suborder(o, id) ==
    Order(id, o.root, o.symbol, o.action, o.rest, o.price,
          IF o.fill = 0 \/ o.cost = NaN THEN NaN ELSE (o.cost * o.rest) \div o.fill)

\* a plausible bug: funds are those of before the quote
StepByOldFunds(st, o, t) ==
    LET m == IF o.action = "BUY" THEN MatchBuy(o, t, account)
             ELSE MatchSell(o, t, st.position)
        done == m.status # "PENDING_NEW"
        split == m.rest > 0
    IN  [account |-> Paid(st.account, m),
         position |-> Held(st.position, m),
         realised |-> st.realised + Closed(st.position, m),
         filled |-> IF done THEN Append(st.filled, m) ELSE st.filled,
         kept |-> IF done THEN st.kept ELSE Append(st.kept, m),
         parts |-> IF split THEN Append(st.parts, Suborder(m, st.id + 1)) ELSE st.parts,
         id |-> IF split THEN st.id + 1 ELSE st.id]

\* process_normal_order: one order after the other, each by what those
\* before it have left of the account and of the position
Step(st, o, t) ==
    LET m == IF o.action = "BUY" THEN MatchBuy(o, t, st.account)
             ELSE MatchSell(o, t, st.position)
        done == m.status # "PENDING_NEW"
        split == m.rest > 0
    IN  [account |-> Paid(st.account, m),
         position |-> Held(st.position, m),
         realised |-> st.realised + Closed(st.position, m),
         filled |-> IF done THEN Append(st.filled, m) ELSE st.filled,
         kept |-> IF done THEN st.kept ELSE Append(st.kept, m),
         parts |-> IF split THEN Append(st.parts, Suborder(m, st.id + 1)) ELSE st.parts,
         id |-> IF split THEN st.id + 1 ELSE st.id]

\* the loop over the orders that wait: what there is after each of them
Matching(before, orders, t) ==
    LET st[i \in 0..Len(orders)] ==
            IF i = 0 THEN before ELSE Step(st[i - 1], orders[i], t)
    IN  st

OnTick(s, t) ==
    LET before == [account |-> account, position |-> position[s],
                   realised |-> realised, filled |-> filled,
                   kept |-> << >>, parts |-> << >>, id |-> lastId]
        after == Matching(before, unfilled[s], t)[Len(unfilled[s])]
    IN  /\ unfilled[s] # << >>
        /\ after.id <= MaxId
        /\ account' = after.account
        /\ position' = [position EXCEPT ![s] = after.position]
        /\ realised' = after.realised
        /\ filled' = after.filled
        /\ unfilled' = [unfilled EXCEPT ![s] = after.kept \o after.parts]
        /\ lastId' = after.id

\* settle: what is held may be sold; the trackers of closed positions stay
Settle ==
    /\ position' = [s \in Symbol |->
            [position[s] EXCEPT !.closable = position[s].quantity,
                                !.settled = position[s].quantity, !.sold = 0]]
    /\ UNCHANGED <<account, unfilled, filled, lastId, realised>>

-----------------------------------------------------------------------------
Next ==
    \/ \E m \in Money : DepositCash(m) \/ WithdrawCash(m)
    \/ \E s \in Symbol :
        \/ \E n \in {0} \union Quantity, m \in Money : DividendOrder(s, n, m)
        \/ \E action \in {"BUY", "SELL"}, n \in Quantity, p \in {0} \union Price :
                CommitOrder(s, action, n, p)
        \/ \E t \in Quote : OnTick(s, t)
    \/ Settle

Spec == Init /\ [][Next]_vars

-----------------------------------------------------------------------------
(* Properties.                                                             *)

Orders == ToSet(filled) \union UNION {ToSet(unfilled[s]) : s \in Symbol}

\* the sum of a sequence of amounts, from the sums of what it begins with
Sums(amounts) ==
    LET sum[i \in 0..Len(amounts)] == IF i = 0 THEN 0 ELSE sum[i - 1] + amounts[i]
    IN  sum
Total(amounts) == Sums(amounts)[Len(amounts)]

TypeOK ==
    /\ account \in [cash : Int, fees : Nat, nan : BOOLEAN]
    /\ position \in [Symbol -> [quantity : Nat, closable : Nat, book : Int,
                                settled : Nat, sold : Nat]]
    /\ \A s \in Symbol : \A o \in ToSet(unfilled[s]) :
            o.symbol = s /\ o.status = "PENDING_NEW" /\ o.quantity > 0
    /\ \A o \in ToSet(filled) : o.status \in {"FILLED", "REJECTED"}
    /\ lastId \in 0..MaxId /\ realised \in Int

\* what an order says of the order r, of the position in s, of the cash
Share(o, r) ==
    IF o.root # r THEN 0 ELSE IF o.status = "FILLED" THEN o.fill ELSE o.quantity

Traded(o, s) ==
    IF o.symbol # s \/ o.status # "FILLED" THEN 0
    ELSE CASE o.action = "BUY" -> o.fill
           [] o.action = "SELL" -> -o.fill
           [] o.action = "DIVIDEND" -> o.quantity
           [] OTHER -> 0

PaidIn(o) ==
    IF o.status # "FILLED" THEN 0
    ELSE CASE o.action = "DEPOSIT" -> o.price
           [] o.action = "WITHDRAW" -> -o.price
           [] o.action = "DIVIDEND" /\ o.quantity > 0 -> o.price
           [] OTHER -> 0

Shares(orders, r) == [i \in 1..Len(orders) |-> Share(orders[i], r)]
Trades(orders, s) == [i \in 1..Len(orders) |-> Traded(orders[i], s)]
Payments(orders) == [i \in 1..Len(orders) |-> PaidIn(orders[i])]
Books ==
    LET listed == SetToSeq(Symbol)
    IN  [i \in 1..Len(listed) |-> position[listed[i]].book]

\* Nothing of an order is lost or filled twice, over any number of partial
\* fills: what was filled of its parts, what was turned down and what waits
\* is what was ordered.
OrderConserved ==
    \A r \in {o \in Orders : o.id = o.root /\ o.action \in {"BUY", "SELL"}} :
        Total(Shares(filled, r.id)) + Total(Shares(unfilled[r.symbol], r.id))
        = r.quantity

\* The position of a symbol is what the filled orders say, though orders and
\* positions are updated in different places.
PositionIsTraded ==
    \A s \in Symbol : position[s].quantity = Total(Trades(filled, s))

\* Shares are sold on a day after they were bought (T+1): between two
\* settlements no more are sold than were held at the first of them, however
\* many orders to sell wait at the same time.
SoldWereSettled ==
    \A s \in Symbol :
        /\ position[s].sold <= position[s].settled
        /\ position[s].closable = position[s].settled - position[s].sold

\* Cash goes below zero by the commission of one purchase at most: funds are
\* checked without it.
OverdrawnByFeeOnly ==
    ~account.nan /\ account.cash < 0 =>
        \E o \in ToSet(filled) :
            o.action = "BUY" /\ o.status = "FILLED" /\ account.cash + o.cost >= 0

\* The account and the positions agree: money is neither made nor lost, it is
\* in cash, in positions at book value, spent on commissions, or was gained
\* when a position was closed.
BooksBalance ==
    ~account.nan =>
        account.cash + account.fees + Total(Books)
        = Total(Payments(filled)) + realised
=============================================================================
