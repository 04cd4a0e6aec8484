SPECIFICATION Spec
CONSTANTS
    Symbol = {s1}
    Price = {60, 120}
    Quantity = {2}
    Quote <- Quotes
    Money = {240}
    FeePer = 10
    MaxId = 5
INVARIANTS
    TypeOK
    OrderConserved
    PositionIsTraded
    SoldWereSettled
    OverdrawnByFeeOnly
    BooksBalance
