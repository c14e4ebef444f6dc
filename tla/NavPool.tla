------------------------------ MODULE NavPool ------------------------------
(***************************************************************************)
(* What a vault that prices its shares at a NAV promises, whatever its     *)
(* token standard, its compliance gates and its bookkeeping: money comes   *)
(* in for shares, shares are cancelled for money, both at the current      *)
(* price and both rounded down; besides that, anyone may give money away   *)
(* to the pool, a holder may forfeit shares, and the price may move.       *)
(***************************************************************************)
EXTENDS Naturals

CONSTANTS
    Denominator,  \* the price of a share is nav / Denominator
    Quantities    \* the amounts of money and of shares, and the prices, that a step may name

VARIABLES
    held,    \* the money in the pool
    booked,  \* the deposits that the pool still has on its books
    shares,  \* the shares outstanding, in whatever form
    nav

poolVars == <<held, booked, shares, nav>>

(* shares = money * 10000 / nav and money = shares * nav / 10000, in integer arithmetic *)
SharesFor(money, price) == (money * Denominator) \div price
MoneyFor(amount, price) == (amount * price) \div Denominator

PoolInit ==
    /\ held = 0
    /\ booked = 0
    /\ shares = 0
    /\ nav = Denominator

Subscribe(money) ==
    /\ SharesFor(money, nav) > 0
    /\ held' = held + money
    /\ booked' = booked + money
    /\ shares' = shares + SharesFor(money, nav)
    /\ UNCHANGED nav

(* The books never go below zero, even when shares that gained value take out more than came in. *)
WriteOff(money) == booked' = IF money >= booked THEN 0 ELSE booked - money

PayOut(amount) ==
    /\ amount <= shares
    /\ MoneyFor(amount, nav) <= held
    /\ held' = held - MoneyFor(amount, nav)
    /\ WriteOff(MoneyFor(amount, nav))
    /\ shares' = shares - amount
    /\ UNCHANGED nav

(* A payout that the holder directs back into the pool. *)
Return(amount) ==
    /\ amount <= shares
    /\ WriteOff(MoneyFor(amount, nav))
    /\ shares' = shares - amount
    /\ UNCHANGED <<held, nav>>

Donate(money) ==
    /\ held' = held + money
    /\ UNCHANGED <<booked, shares, nav>>

Forfeit(amount) ==
    /\ amount <= shares
    /\ shares' = shares - amount
    /\ UNCHANGED <<held, booked, nav>>

Reprice(price) ==
    /\ price > 0
    /\ nav' = price
    /\ UNCHANGED <<held, booked, shares>>

PoolNext ==
    \/ \E x \in Quantities :
          Subscribe(x) \/ PayOut(x) \/ Return(x) \/ Donate(x) \/ Forfeit(x)
    \/ \E price \in Quantities : Reprice(price)

PoolSpec == PoolInit /\ [][PoolNext]_poolVars
=============================================================================
