\* Two validators and one transaction of every shape.
SPECIFICATION Spec
CONSTANTS
    Validators = {v1, v2}
    Txs = {x1}
    Contents <- MCContents
    Coin = "T"
    Amounts = {1, 2}
    MinAmount = 2
    NoOne = "nobody"
INVARIANTS TypeOK  VotesAgree PushedIsTried
